------------------------ MODULE RemoteSession_proofs ------------------------
(***************************************************************************)
(* A session for any number of client threads and calls.                   *)
(*                                                                         *)
(* The first part is about the streams and the threads that work on them.  *)
(* StreamInv, with the types, is inductive: it says where the handler is   *)
(* in a close and what a closeStream that throws leaves behind, which      *)
(* WorkersAlive, AllReleased and ClosedOnce alone do not.                  *)
(*                                                                         *)
(* The second part is about what goes between client and server: the types *)
(* and the numbering of the messages, the order in which make, the calls   *)
(* on streams, unmake and hangup arrive, the one call that waits for the   *)
(* messages on their way, and the ids that the application holds.  Each    *)
(* conjunct of SessionInv has a lemma per process and one for Next.        *)
(***************************************************************************)
EXTENDS RemoteSession, TLAPS

USE MaxCallsAssumption, ThreadAssumption

(* A session begins without streams and without workers. *)
LEMMA InitStreams == Init => StreamInv
  BY DEF Init, StreamInv, WorkersAlive, NoneDangling, WorkerState

(* The variables StreamInv is about. *)
streams == <<hpc, cur, todo, entry, nextId, dev, devOpen, worker, orphaned, threw>>

(* What the client and the listener do leaves the streams alone. *)
LEMMA OthersKeepStreams ==
  ASSUME StreamInv, Client \/ Listener \/ Over \/ UNCHANGED vars
  PROVE  StreamInv'
<1>1. UNCHANGED streams
  BY ZenonT(30) DEF streams, Client, Call, Send, Finish, Receive, ReceivePort, GiveUp, MainReceive,
         MainGiveUp, Delete, ConnLost, Listener, ListenerReap, Shutdown, ListenerJoin, Over,
         vars, socket, client, handler, threads, history
<1> QED BY <1>1, Zenon DEF streams, StreamInv, WorkersAlive, NoneDangling

(* A worker's step keeps the worker on its stream or ends it. *)
LEMMA WorkerSteps ==
  ASSUME worker \in [Id \X Role -> WorkerState], NEW s \in Id, NEW r \in Role, Worker(s, r)
  PROVE  /\ UNCHANGED <<prot, socket, client, handler, listener, stop, history>>
         /\ worker' \in [Id \X Role -> WorkerState]
         /\ \A t \in Id, q \in Role :
              /\ worker'[<<t, q>>] \in {"loop", "held"} => worker[<<t, q>>] \in {"loop", "held"}
              /\ worker'[<<t, q>>] = "freed" => worker[<<t, q>>] = "freed"
<1>1. PICK from \in {"loop", "held"}, to \in {"loop", "held", "ended"} : WorkerAt(s, r, from, to)
  BY Zenon DEF Worker, WorkerWaits, WorkerGoesOn, WorkerStops
<1> QED BY <1>1, Zenon DEF WorkerAt, WorkerState

(* So it leaves the streams as they are. *)
LEMMA WorkerKeepsStreams ==
  ASSUME StreamInv, NEW s \in Id, NEW r \in Role, Worker(s, r)
  PROVE  StreamInv'
<1>1. UNCHANGED <<hpc, cur, todo, entry, nextId, dev, devOpen, orphaned, threw>>
  BY WorkerSteps, Zenon DEF StreamInv, handler, history
<1> QED BY <1>1, WorkerSteps, Zenon DEF StreamInv, WorkersAlive, NoneDangling

(* startSendThread, startRecvThread and startStatThread on an open stream. *)
LEMMA StartKeepsWorkers ==
  ASSUME StreamInv, NEW s, StartWorkers(s), s \in entry', s \in devOpen',
         entry \subseteq entry', devOpen \subseteq devOpen'
  PROVE  /\ worker' \in [Id \X Role -> WorkerState]
         /\ \A t \in Id, q \in Role : worker'[<<t, q>>] = "freed" => worker[<<t, q>>] = "freed"
         /\ WorkersAlive'
  BY ZenonT(30) DEF StreamInv, WorkersAlive, StartWorkers, WorkerState

(* The steps of the handler that neither open nor close a stream. *)
LEMMA CallsKeepStreams ==
  ASSUME StreamInv,
         HandlerReceive \/ HandlerTorn \/ HandlerQuit \/ ExecMake \/ ExecSetupRefused \/ AcceptFail
           \/ ExecActivate \/ ExecHangup \/ SendReply
  PROVE  StreamInv'
<1>1. UNCHANGED <<entry, nextId, devOpen, worker, orphaned, threw>>
      /\ hpc \in {"poll", "exec", "accept", "reply"}
  BY Zenon DEF HandlerReceive, HandlerTorn, HandlerQuit, ExecMake, ExecSetupRefused, AcceptFail,
         ExecActivate, ExecHangup, SendReply, threads, history
<1>2. \/ hpc' \in {"poll", "recv", "exec", "reply"}
      \/ hpc' = "stop" /\ todo' = entry
  BY Zenon DEF HandlerReceive, HandlerTorn, HandlerQuit, ExecMake, ExecSetupRefused, AcceptFail,
         ExecActivate, ExecHangup, SendReply, LeaveLoop
<1> QED BY <1>1, <1>2, Zenon DEF StreamInv, WorkersAlive, NoneDangling

(* A stream that is set up is entered on both sides, or orphaned. *)
LEMMA SetupKeepsStreams ==
  ASSUME StreamInv, ExecSetup
  PROVE  StreamInv'
<1>1. /\ hpc = "exec" /\ hpc' \in {"reply", "accept"} /\ nextId' = nextId + 1 /\ nextId' \in Nat
      /\ nextId' - 1 = nextId /\ UNCHANGED threw
      /\ devOpen' = devOpen \cup {nextId}
  BY DEF ExecSetup, StreamInv
<1>2. CASE /\ prot # "none" /\ orphaned' = orphaned \cup {nextId} /\ hpc' = "reply"
           /\ UNCHANGED <<entry, threads>>
  BY <1>1, <1>2, Zenon DEF StreamInv, WorkersAlive, NoneDangling, threads
<1>3. CASE entry' = entry \cup {nextId} /\ UNCHANGED <<threads, orphaned>>
  BY <1>1, <1>3, Zenon DEF StreamInv, WorkersAlive, NoneDangling, threads
<1>4. CASE entry' = entry \cup {nextId} /\ StartWorkers(nextId) /\ UNCHANGED orphaned
  <2>1. /\ worker' \in [Id \X Role -> WorkerState]
        /\ \A t \in Id, q \in Role : worker'[<<t, q>>] = "freed" => worker[<<t, q>>] = "freed"
        /\ WorkersAlive'
    BY <1>1, <1>4, StartKeepsWorkers, Zenon
  <2> QED BY <1>1, <1>4, <2>1, Zenon DEF StreamInv, NoneDangling
<1> QED BY <1>2, <1>3, <1>4, Zenon DEF ExecSetup

(* accept() only moves the handler on to its answer, or gives the stream up. *)
LEMMA AcceptKeepsStreams ==
  ASSUME StreamInv, Accept
  PROVE  StreamInv'
<1>1. /\ nextId - 1 \in entry /\ nextId - 1 \in devOpen /\ StartWorkers(nextId - 1)
      /\ hpc = "accept" /\ hpc' = "reply"
      /\ UNCHANGED <<entry, nextId, devOpen, orphaned, threw>>
  BY Zenon DEF StreamInv, Accept, history
<1>2. /\ worker' \in [Id \X Role -> WorkerState]
      /\ \A t \in Id, q \in Role : worker'[<<t, q>>] = "freed" => worker[<<t, q>>] = "freed"
      /\ WorkersAlive'
  BY <1>1, StartKeepsWorkers, Zenon
<1> QED BY <1>1, <1>2, Zenon DEF StreamInv, NoneDangling

(* What an exception out of a close leaves as it is, and where it leads. *)
LEMMA ThrowSteps ==
  ASSUME CloseThrows \/ JoinAgain
  PROVE  /\ UNCHANGED <<prot, req, rep, client, cur, done, nextId, accepted, dev, listener, stop,
                       abandoned, crossed, orphaned>>
         /\ cut' = cut /\ conn' \in {FALSE, conn} /\ threw' \in {TRUE, threw}
         /\ hpc = "join"
         /\ \/ /\ \E s \in todo : Dangling(s) /\ Closed(s)
               /\ UNCHANGED <<worker, threw, answer>>
            \/ /\ UNCHANGED <<entry, devOpen>> /\ todo # {}
               /\ \/ hpc' = "crashed" /\ UNCHANGED <<todo, answer>>
                  \/ hpc' = "reply" /\ cur # NoCall /\ todo' = {} /\ Answer("exception", -1)
  BY Zenon DEF CloseThrows, JoinAgain, Thrown, Terminate, Closed, threads, history

(* A worker is deleted after both have ended, and nothing dangles before    *)
(* the device has thrown.                                                   *)
LEMMA ThrowWorkers ==
  ASSUME TypeOK, StreamInv, CloseThrows \/ JoinAgain
  PROVE  /\ worker' \in [Id \X Role -> WorkerState]
         /\ \A t \in Id, q \in Role :
              worker'[<<t, q>>] \in {"loop", "held"} =>
                /\ worker[<<t, q>>] \in {"loop", "held"}
                /\ \A u \in Role : worker'[<<t, u>>] # "freed"
         /\ threw'
<1>1. CASE CloseThrows
  <2>1. PICK s \in todo :
          /\ Joined(s)
          /\ worker' = [w \in Id \X Role |->
                          IF w[1] = s /\ worker[w] = "ended" THEN "freed" ELSE worker[w]]
    BY <1>1, Zenon DEF CloseThrows
  <2>2. worker' \in [Id \X Role -> WorkerState]
    BY <2>1, Zenon DEF StreamInv, WorkerState
  <2>3. \A t \in Id, q \in Role :
          worker'[<<t, q>>] = IF t = s /\ worker[<<t, q>>] = "ended" THEN "freed"
                                                                     ELSE worker[<<t, q>>]
    BY <2>1, Zenon
  <2>4. ASSUME NEW t \in Id, NEW q \in Role, worker'[<<t, q>>] \in {"loop", "held"}
        PROVE  /\ worker[<<t, q>>] \in {"loop", "held"}
               /\ \A u \in Role : worker'[<<t, u>>] # "freed"
    BY <2>1, <2>3, <2>4, Zenon DEF Joined, StreamInv, WorkersAlive
  <2> QED BY <1>1, <2>2, <2>4, Zenon DEF CloseThrows
<1>2. CASE JoinAgain
  <2>1. worker' = worker /\ threw' = threw /\ hpc = "join" /\ \E s \in todo : Dangling(s)
    BY <1>2, Zenon DEF JoinAgain, threads, history
  <2>2. threw
    BY <2>1, Zenon DEF Dangling, StreamInv, NoneDangling, TypeOK
  <2> QED BY <2>1, <2>2, Zenon DEF StreamInv, WorkersAlive
<1> QED BY <1>1, <1>2, Zenon

(* The streams after a close that threw, or that came too late. *)
LEMMA ThrowKeepsStreams ==
  ASSUME TypeOK, StreamInv, CloseThrows \/ JoinAgain
  PROVE  StreamInv'
<1>1. /\ UNCHANGED <<cur, nextId, dev, orphaned>> /\ threw' /\ hpc = "join"
      /\ worker' \in [Id \X Role -> WorkerState]
  BY ThrowSteps, ThrowWorkers, Zenon
<1>2. CASE /\ UNCHANGED <<entry, devOpen>>
           /\ hpc' \in {"crashed", "reply"}
  BY <1>1, <1>2, ThrowWorkers, Zenon DEF StreamInv, WorkersAlive, NoneDangling
<1>3. ASSUME NEW s \in todo, Dangling(s), Closed(s), UNCHANGED worker PROVE StreamInv'
  <2>1. /\ devOpen' = devOpen \ {s} /\ todo' = todo \ {s} /\ hpc' = "stop"
        /\ entry' = IF cur.op = "close" THEN entry \ {s} ELSE entry
    BY <1>3, Zenon DEF Closed
  <2>2. \A r \in Role : s \in Id => worker[<<s, r>>] \notin {"loop", "held"}
    BY <1>3, Zenon DEF Dangling, StreamInv, WorkersAlive
  <2>3. WorkersAlive'
    BY <1>3, <2>1, <2>2, Zenon DEF StreamInv, WorkersAlive
  <2>4. /\ todo' \subseteq entry' /\ devOpen' \subseteq (entry' \cup orphaned)
        /\ cur.op # "close" =>
             /\ devOpen' \subseteq (todo' \cup orphaned)
             /\ \A t \in Id, r \in Role : worker[<<t, r>>] \in {"loop", "held"} => t \in todo'
    BY <1>1, <2>1, <2>2, Zenon DEF StreamInv
  <2>5. NoneDangling'
    BY <1>1, Zenon DEF NoneDangling
  <2> QED BY <1>1, <1>3, <2>1, <2>3, <2>4, <2>5, Zenon DEF StreamInv
<1> QED BY <1>2, <1>3, ThrowSteps, Zenon

(* CLOSE_STREAM, UNMAKE and the destructor: a stream is closed after its    *)
(* workers have ended, and leaves the map then or with all the others.      *)
LEMMA CloseKeepsStreams ==
  ASSUME StreamInv, ExecClose \/ StopThreads \/ JoinClose \/ StopEnd \/ Unmake
  PROVE  StreamInv'
<1>1. CASE ExecClose
  <2>1. /\ hpc = "exec" /\ UNCHANGED <<cur, entry, nextId, dev, devOpen, worker, orphaned, threw>>
        /\ \/ hpc' = "reply"
           \/ /\ hpc' = "stop" /\ todo' \subseteq entry
              /\ cur.op # "close" => todo' = entry
    BY <1>1, Zenon DEF ExecClose, threads, history
  <2>2. WorkersAlive' /\ NoneDangling'
    BY <2>1, Zenon DEF StreamInv, WorkersAlive, NoneDangling
  <2> QED BY <2>1, <2>2, Zenon DEF StreamInv, WorkersAlive
<1>2. CASE StopThreads
  BY <1>2, Zenon DEF StopThreads, StreamInv, WorkersAlive, NoneDangling, history
<1>3. CASE JoinClose
  <2>1. PICK s \in todo :
          /\ \A r \in Role : worker[<<s, r>>] \in {"none", "ended"}
          /\ devOpen' = devOpen \ {s}
          /\ entry' = IF cur.op = "close" THEN entry \ {s} ELSE entry
          /\ todo' = todo \ {s}
    BY <1>3, Zenon DEF JoinClose, Joined, Closed
  <2>2. hpc = "join" /\ hpc' = "stop" /\ UNCHANGED <<cur, nextId, dev, worker, orphaned, threw>>
    BY <1>3, Zenon DEF JoinClose, Closed, threads, history
  <2>3. WorkersAlive'
    BY <2>1, <2>2, Zenon DEF StreamInv, WorkersAlive
  <2>4. NoneDangling'
    BY <2>1, <2>2, Zenon DEF StreamInv, NoneDangling
  <2> QED BY <2>1, <2>2, <2>3, <2>4, Zenon DEF StreamInv
<1>4. CASE StopEnd
  <2>1. /\ hpc = "stop" /\ todo = {} /\ UNCHANGED <<cur, nextId, dev, devOpen, worker, orphaned, threw>>
        /\ \/ cur.op = "close" /\ hpc' = "reply" /\ entry' = entry
           \/ cur.op # "close" /\ hpc' = "unmake" /\ entry' = {}
    BY <1>4, Zenon DEF StopEnd, threads, history
  <2>2. CASE cur.op # "close"
    <3>1. /\ devOpen \subseteq orphaned
          /\ \A s \in Id, q \in Role : worker[<<s, q>>] \notin {"loop", "held"}
      BY <2>1, <2>2, Zenon DEF StreamInv
    <3> QED BY <2>1, <2>2, <3>1, Zenon DEF StreamInv, WorkersAlive, NoneDangling
  <2>3. CASE cur.op = "close"
    BY <2>1, <2>3, Zenon DEF StreamInv, WorkersAlive, NoneDangling
  <2> QED BY <2>2, <2>3, Zenon
<1>5. CASE Unmake
  BY <1>5, Zenon DEF Unmake, StreamInv, WorkersAlive, NoneDangling, threads, history
<1> QED BY <1>1, <1>2, <1>3, <1>4, <1>5, Zenon

(* Every step keeps StreamInv. *)
LEMMA NextStreams ==
  ASSUME TypeOK, StreamInv, [Next]_vars
  PROVE  StreamInv'
<1>1. CASE Client \/ Listener \/ Over \/ UNCHANGED vars
  BY <1>1, OthersKeepStreams, Zenon
<1>2. CASE Handler
  BY <1>2, CallsKeepStreams, SetupKeepsStreams, AcceptKeepsStreams, CloseKeepsStreams,
     ThrowKeepsStreams, Zenon DEF Handler, Exec
<1>3. CASE \E s \in Id, r \in Role : Worker(s, r)
  BY <1>3, WorkerKeepsStreams, Zenon
<1> QED BY <1>1, <1>2, <1>3, Zenon DEF Next

-----------------------------------------------------------------------------
(* The calls.  What each part of the system leaves alone: *)

(* What no step of the client changes. *)
LEMMA ClientFrame ==
  ASSUME Client
  PROVE  UNCHANGED <<prot, hpc, cur, todo, answer, done, entry, nextId, dev, devOpen,
                     listener, threads, orphaned, threw>>
  BY Zenon DEF Client, Call, Receive, ReceivePort, GiveUp, MainReceive, MainGiveUp, Delete,
         ConnLost, handler, history

(* What no step of the handler changes. *)
LEMMA HandlerFrame ==
  ASSUME Handler
  PROVE  /\ UNCHANGED <<prot, client, listener, abandoned, crossed>>
         /\ conn' \in {FALSE, conn} /\ cut' \in {cut, "none"} /\ threw' \in {TRUE, threw}
<1>1. CASE CloseThrows \/ JoinAgain
  BY <1>1, ThrowSteps, Zenon
<1>2. CASE ~(CloseThrows \/ JoinAgain)
  BY <1>2, ZenonT(30) DEF Handler, Exec, HandlerReceive, HandlerTorn, HandlerQuit, ExecMake,
         ExecSetupRefused, ExecSetup, Accept, AcceptFail, ExecActivate, ExecClose, ExecHangup,
         StopThreads, JoinClose, StopEnd, Unmake, SendReply, socket, link, history
<1> QED BY <1>1, <1>2, Zenon

(* What no step of a worker changes. *)
LEMMA WorkerFrame ==
  ASSUME NEW s \in Id, NEW r \in Role, Worker(s, r)
  PROVE  UNCHANGED <<prot, socket, client, handler, listener, stop, history>>
  BY Zenon DEF Worker, WorkerWaits, WorkerGoesOn, WorkerStops, WorkerAt

(* What no step of the listener changes. *)
LEMMA ListenerFrame ==
  ASSUME Listener
  PROVE  /\ UNCHANGED <<prot, req, rep, client, hpc, cur, todo, answer, entry, nextId,
                        accepted, dev, devOpen, threads, history>>
         /\ done' \in {TRUE, done} /\ conn' \in {FALSE, conn} /\ cut' = cut
         /\ listener' \in {"join", "reaped"}
  BY Zenon DEF Listener, ListenerReap, Shutdown, ListenerJoin, handler, socket, link

(* The types of the messages on the socket. *)
LEMMA AppendType ==
  ASSUME NEW S, NEW s \in Seq(S), NEW e \in S
  PROVE  Append(s, e) \in Seq(S)
  OBVIOUS

(* What Append does to every position of a sequence. *)
LEMMA Appended ==
  ASSUME NEW S, NEW s \in Seq(S), NEW e \in S
  PROVE  /\ Append(s, e) \in Seq(S) /\ Len(Append(s, e)) = Len(s) + 1
         /\ \A k \in 1..Len(s) : Append(s, e)[k] = s[k]
         /\ Append(s, e)[Len(s) + 1] = e
  OBVIOUS

(* What Tail does to every position of a sequence. *)
LEMMA Tailed ==
  ASSUME NEW S, NEW s \in Seq(S), s # <<>>
  PROVE  /\ Head(s) = s[1] /\ Len(s) >= 1 /\ s[1] \in S
         /\ Tail(s) \in Seq(S) /\ Len(Tail(s)) = Len(s) - 1
         /\ \A k \in 1..Len(Tail(s)) : k + 1 \in 1..Len(s) /\ Tail(s)[k] = s[k + 1]
  OBVIOUS

(* Nothing is left of a sequence of one element. *)
LEMMA LastTail ==
  ASSUME NEW S, NEW s \in Seq(S), Len(s) = 1
  PROVE  Tail(s) = <<>>
<1>1. Tail(s) \in Seq(S) /\ Len(Tail(s)) = 0
  OBVIOUS
<1>2. Tail(s) # <<>> => Len(Tail(s)) >= 1
  BY <1>1, Tailed, Zenon
<1> QED BY <1>1, <1>2

(* The calls a client thread sends. *)
LEMMA SentCall ==
  ASSUME TypeOK, NEW t \in Thread \cup {Main}, NEW op \in Op, NEW s \in Id \cup {-1},
         Send(t, op, s), calls <= MaxCalls + 2
  PROVE  /\ req' \in Seq(Request) /\ calls' \in 0..(MaxCalls + 3)
         /\ call' \in [Thread \cup {Main} -> Request \cup {NoCall}]
  BY DEF TypeOK, Send, Request

(* The types, with the bounds on the numbers of calls and of streams.  *)
LEMMA ClientKeepsTypes ==
  ASSUME TypeOK, Bounded, Waits, Client
  PROVE  TypeOK'
<1>1. UNCHANGED <<prot, hpc, cur, todo, answer, done, entry, nextId, dev, devOpen, listener,
                  threads, orphaned, threw>>
  BY ClientFrame, Zenon
<1>2. ASSUME NEW t \in Thread, NEW op \in {"setup", "activate", "close"},
             NEW s \in Id \cup {-1}, Call(t, op, s)
      PROVE  TypeOK'
  <2>1. FlagsOK'
    BY <1>1, <1>2, Zenon DEF TypeOK, FlagsOK, link, Call, threads, history
  <2>2. /\ req' \in Seq(Request) /\ calls' \in 0..(MaxCalls + 3)
        /\ call' \in [Thread \cup {Main} -> Request \cup {NoCall}]
    <3>1. Send(t, op, s) /\ calls <= MaxCalls + 2
      BY <1>2 DEF Call, TypeOK
    <3> QED BY <1>2, <3>1, SentCall, Zenon DEF Op
  <2> QED BY <1>1, <1>2, <2>1, <2>2, Zenon DEF TypeOK, link, Call, threads, handler
<1>3. ASSUME NEW t \in Thread, Receive(t) PROVE TypeOK'
  <2>1. FlagsOK'
    BY <1>1, <1>3, Zenon DEF TypeOK, FlagsOK, link, Receive, threads
  <2>2. rep' \in Seq(Reply) /\ Head(rep) = rep[1] /\ Len(rep) >= 1
    BY <1>3 DEF Receive, TypeOK
  <2>3. held' \subseteq Id
    BY <1>3, <2>2 DEF Receive, Keeps, TypeOK, Bounded
  <2>4. /\ call' \in [Thread \cup {Main} -> Request \cup {NoCall}]
        /\ mutex' \in Thread \cup {NoThread}
    BY <1>3, Zenon DEF Receive, Finish, TypeOK
  <2> QED BY <1>1, <1>3, <2>1, <2>2, <2>3, <2>4, ZenonT(60) DEF TypeOK, link, Receive, threads, handler
<1>4. ASSUME NEW t \in Thread, ReceivePort(t) PROVE TypeOK'
  <2>1. FlagsOK'
    <3>1. abandoned' \in BOOLEAN
      BY <1>4, Zenon DEF ReceivePort, TypeOK, FlagsOK
    <3> QED BY <1>1, <1>4, <3>1, Zenon DEF TypeOK, FlagsOK, link, ReceivePort, threads
  <2>2. rep' \in Seq(Reply)
    BY <1>4 DEF ReceivePort, TypeOK
  <2>3. [call[t] EXCEPT !.op = "finish"] \in Request
    BY <1>4, ZenonT(30) DEF ReceivePort, Waiting, TypeOK, Request, Op
  <2>4. call' \in [Thread \cup {Main} -> Request \cup {NoCall}]
    BY <1>4, <2>3, Zenon DEF ReceivePort, Finish, TypeOK
  <2>5. mutex' \in Thread \cup {NoThread} /\ accepted' \in 0..2
    BY <1>4, Zenon DEF ReceivePort, Finish, TypeOK
  <2> QED BY <1>1, <1>4, <2>1, <2>2, <2>4, <2>5, Zenon DEF TypeOK, link, ReceivePort, threads
<1>5. ASSUME NEW t \in Thread, GiveUp(t) PROVE TypeOK'
  <2>1. FlagsOK'
    BY <1>1, <1>5, Zenon DEF TypeOK, FlagsOK, link, GiveUp, threads, socket
  <2>2. /\ call' \in [Thread \cup {Main} -> Request \cup {NoCall}]
        /\ mutex' \in Thread \cup {NoThread}
    BY <1>5, Zenon DEF GiveUp, Finish, TypeOK
  <2>3. UNCHANGED <<link, req, rep, cpc, calls, held, accepted>>
    BY <1>5, Zenon DEF GiveUp, socket, handler
  <2> QED BY <1>1, <2>1, <2>2, <2>3, ZenonT(60) DEF TypeOK, link, threads
<1>6. CASE MainReceive
  <2>1. FlagsOK'
    BY <1>1, <1>6, Zenon DEF TypeOK, FlagsOK, link, MainReceive, threads
  <2>2. rep' \in Seq(Reply) /\ cpc \in {"make", "unmake", "hangup"}
    BY <1>6 DEF MainReceive, TypeOK, Waits
  <2>3. cpc' \in {"open", "hangup", "closed"}
    BY <1>6, <2>2 DEF MainReceive, After
  <2>4. CASE cpc' = "hangup"
    <3>1. cpc = "unmake" /\ Send(Main, "hangup", -1) /\ UNCHANGED mutex
      BY <1>6, <2>2, <2>4 DEF MainReceive, After
    <3>2. calls <= MaxCalls + 2
      BY <3>1, Zenon DEF Bounded
    <3>3. /\ req' \in Seq(Request) /\ calls' \in 0..(MaxCalls + 3)
          /\ call' \in [Thread \cup {Main} -> Request \cup {NoCall}]
      BY <3>1, <3>2, SentCall, Zenon DEF Op
    <3> QED BY <1>1, <1>6, <2>1, <2>2, <2>3, <3>1, <3>3, ZenonT(30)
            DEF TypeOK, MainReceive, threads, handler
  <2>5. CASE cpc' # "hangup"
    <3>1. /\ call' \in [Thread \cup {Main} -> Request \cup {NoCall}]
          /\ UNCHANGED <<mutex, req, calls>>
      BY <1>6, <2>5, Zenon DEF MainReceive, Finish, TypeOK
    <3> QED BY <1>1, <1>6, <2>1, <2>2, <2>3, <3>1, ZenonT(30) DEF TypeOK, MainReceive, threads, handler
  <2> QED BY <2>4, <2>5, Zenon
<1>7. CASE MainGiveUp
  <2>1. FlagsOK'
    BY <1>1, <1>7, Zenon DEF TypeOK, FlagsOK, link, MainGiveUp, threads
  <2>2. /\ call' \in [Thread \cup {Main} -> Request \cup {NoCall}]
        /\ mutex' \in Thread \cup {NoThread}
    BY <1>7, Zenon DEF MainGiveUp, Finish, TypeOK
  <2> QED BY <1>1, <1>7, <2>1, <2>2, Zenon DEF TypeOK, MainGiveUp, threads, handler
<1>8. CASE Delete
  <2>1. FlagsOK'
    BY <1>1, <1>8, Zenon DEF TypeOK, FlagsOK, link, Delete, threads, history
  <2>2. CASE ~conn
    BY <1>1, <1>8, <2>1, <2>2, Zenon DEF TypeOK, link, Delete, threads, handler
  <2>3. CASE conn
    <3>1. Send(Main, "unmake", -1) /\ calls <= MaxCalls + 2
      BY <1>8, <2>3 DEF Delete, Bounded, TypeOK
    <3>2. /\ req' \in Seq(Request) /\ calls' \in 0..(MaxCalls + 3)
          /\ call' \in [Thread \cup {Main} -> Request \cup {NoCall}]
      BY <3>1, SentCall, Zenon DEF Op
    <3> QED BY <1>1, <1>8, <2>1, <2>3, <3>2, Zenon DEF TypeOK, link, Delete, threads, handler
  <2> QED BY <2>2, <2>3, Zenon
<1>9. CASE ConnLost
  <2>1. FlagsOK'
    BY <1>1, <1>9, Zenon DEF TypeOK, FlagsOK, link, ConnLost, threads, history
  <2>2. (req' = req \/ req' = <<>>) /\ rep' = <<>> /\ cut' \in {"none", "torn", "silent"}
    BY <1>9, Zenon DEF ConnLost
  <2>3. req' \in Seq(Request) /\ rep' \in Seq(Reply)
    <3>1. <<>> \in Seq(Request) /\ <<>> \in Seq(Reply)
      OBVIOUS
    <3> QED BY <2>2, <3>1, Zenon DEF TypeOK
  <2>4. /\ call' \in [Thread \cup {Main} -> Request \cup {NoCall}]
        /\ mutex' \in Thread \cup {NoThread} /\ cpc' = "closed"
    BY <1>9, Zenon DEF ConnLost
  <2> QED BY <1>1, <1>9, <2>1, <2>2, <2>3, <2>4, ZenonT(30) DEF TypeOK, ConnLost, threads, handler
<1> QED BY <1>2, <1>3, <1>4, <1>5, <1>6, <1>7, <1>8, <1>9, Zenon DEF Client

(* A request is answered with its own number. *)
LEMMA AnswerType ==
  ASSUME TypeOK, NEW kind \in {"int", "void", "port", "exception"},
         NEW val \in Id \cup {-1}, Answer(kind, val)
  PROVE  /\ answer' \in Reply
         /\ answer'.kind = kind /\ answer'.val = val /\ answer'.tag = cur.tag
  BY DEF TypeOK, Answer, Reply, Request, NoCall

(* The number of a set-up bounds the id of its stream. *)
LEMMA SetupBound ==
  ASSUME TypeOK, Numbered, hpc = "exec", cur.op = "setup"
  PROVE  nextId \in Id /\ nextId + 1 \in 0..MaxCalls
<1>1. cur \in Request /\ cur.tag >= nextId + 2 /\ cur.tag <= MaxCalls + 1
  BY DEF TypeOK, Numbered, NoCall
<1> QED BY <1>1 DEF TypeOK, Id, Request

(* The handler keeps the types: an id it hands out is one of Id. *)
LEMMA HandlerKeepsTypes ==
  ASSUME TypeOK, Numbered, StreamInv, Handler
  PROVE  TypeOK'
<1>1. /\ UNCHANGED <<prot, client, listener, abandoned, crossed>>
      /\ conn' \in {FALSE, conn} /\ cut' \in {cut, "none"} /\ threw' \in {TRUE, threw}
  BY HandlerFrame, Zenon
<1>2. CASE HandlerReceive
  <2>1. FlagsOK'
    BY <1>1, <1>2, Zenon DEF TypeOK, FlagsOK, HandlerReceive, threads
  <2>2. req' \in Seq(Request) /\ cur' \in Request
    BY <1>2 DEF HandlerReceive, TypeOK
  <2> QED BY <1>1, <1>2, <2>1, <2>2, Zenon DEF TypeOK, HandlerReceive, threads, history, client
<1>3. CASE HandlerQuit \/ HandlerTorn
  <2>1. FlagsOK'
    BY <1>1, <1>3, Zenon DEF TypeOK, FlagsOK, HandlerQuit, HandlerTorn, LeaveLoop, threads
  <2> QED BY <1>1, <1>3, <2>1, ZenonT(60)
          DEF TypeOK, HandlerQuit, HandlerTorn, LeaveLoop, threads, history, client, socket
<1>4. CASE ExecMake
  <2>1. FlagsOK'
    BY <1>1, <1>4, Zenon DEF TypeOK, FlagsOK, ExecMake, threads
  <2>2. answer' \in Reply
    BY <1>4, AnswerType, Zenon DEF ExecMake
  <2> QED BY <1>1, <1>4, <2>1, <2>2, Zenon DEF TypeOK, ExecMake, threads, history, client, socket
<1>5. CASE ExecSetupRefused \/ AcceptFail \/ ExecHangup \/ ExecActivate
  <2>1. UNCHANGED <<done, dev, threads, req, rep, cur, todo, entry, nextId, accepted, devOpen,
                    orphaned>>
    BY <1>5, Zenon DEF ExecSetupRefused, AcceptFail, ExecHangup, ExecActivate, history, socket
  <2>2. FlagsOK'
    BY <1>1, <2>1, Zenon DEF TypeOK, FlagsOK, threads
  <2>3. answer' \in Reply
    <3>1. cur.id \in Id => 0 \in Id
      BY DEF Id
    <3> QED BY <1>5, <3>1, AnswerType, Zenon
            DEF ExecSetupRefused, AcceptFail, ExecHangup, ExecActivate, TypeOK
  <2> QED BY <1>1, <1>5, <2>1, <2>2, <2>3, ZenonT(90)
          DEF TypeOK, threads, client, ExecSetupRefused, AcceptFail, ExecHangup, ExecActivate
<1>6. CASE ExecSetup
  <2>1. nextId \in Id /\ nextId + 1 \in 0..MaxCalls
    BY <1>6, SetupBound, Zenon DEF ExecSetup
  <2>2. answer' \in Reply
    BY <1>6, <2>1, AnswerType, Zenon DEF ExecSetup
  <2>3. rep' \in Seq(Reply)
    <3>1. [kind |-> "port", val |-> -1, tag |-> cur.tag] \in Reply
      BY DEF TypeOK, Reply, Request, NoCall
    <3>2. \/ rep' = rep
          \/ rep' = Append(rep, [kind |-> "port", val |-> -1, tag |-> cur.tag])
      BY <1>6, Zenon DEF ExecSetup
    <3>3. rep \in Seq(Reply)
      BY Zenon DEF TypeOK
    <3>4. Append(rep, [kind |-> "port", val |-> -1, tag |-> cur.tag]) \in Seq(Reply)
      BY <3>1, <3>3, AppendType, Zenon
    <3> QED BY <3>2, <3>3, <3>4, Zenon
  <2>4. stop' \in [Id -> BOOLEAN] /\ worker' \in [Id \X Role -> WorkerState]
    BY <1>6, <2>1, ZenonT(30) DEF ExecSetup, StartWorkers, TypeOK, FlagsOK, threads, WorkerState
  <2>5. FlagsOK'
    BY <1>1, <1>6, <2>4, Zenon DEF TypeOK, FlagsOK, ExecSetup
  <2>6. /\ nextId' = nextId + 1 /\ devOpen' = devOpen \cup {nextId}
        /\ entry' \in {entry, entry \cup {nextId}}
        /\ orphaned' \in {orphaned, orphaned \cup {nextId}}
        /\ accepted' \in {0, accepted} /\ hpc' \in {"reply", "accept"}
        /\ UNCHANGED <<req, cur, todo>>
    BY <1>6, Zenon DEF ExecSetup
  <2> QED BY <1>1, <2>1, <2>2, <2>3, <2>4, <2>5, <2>6 DEF TypeOK, client
<1>7. CASE Accept
  <2>1. nextId - 1 \in Id
    BY <1>7, Zenon DEF Accept, StreamInv, TypeOK
  <2>2. answer' \in Reply
    BY <1>7, <2>1, AnswerType, Zenon DEF Accept
  <2>3. stop' \in [Id -> BOOLEAN] /\ worker' \in [Id \X Role -> WorkerState]
    BY <1>7, <2>1, Zenon DEF Accept, StartWorkers, TypeOK, FlagsOK, WorkerState
  <2>4. FlagsOK'
    BY <1>1, <1>7, <2>3, Zenon DEF TypeOK, FlagsOK, Accept
  <2> QED BY <1>1, <1>7, <2>2, <2>3, <2>4, Zenon DEF TypeOK, Accept, client, socket, history
<1>8. CASE ExecClose
  <2>1. FlagsOK'
    BY <1>1, <1>8, Zenon DEF TypeOK, FlagsOK, ExecClose, threads
  <2>2. answer' \in Reply
    BY <1>8, AnswerType, Zenon DEF ExecClose
  <2>3. todo' \subseteq Id
    BY <1>8 DEF ExecClose, TypeOK
  <2> QED BY <1>1, <1>8, <2>1, <2>2, <2>3, ZenonT(30) DEF TypeOK, ExecClose, threads, history, client, socket
<1>9. CASE StopThreads
  <2>1. stop' \in [Id -> BOOLEAN]
    BY <1>9, Zenon DEF TypeOK, FlagsOK, StopThreads
  <2>2. FlagsOK'
    BY <1>1, <1>9, <2>1, Zenon DEF TypeOK, FlagsOK, StopThreads
  <2> QED BY <1>1, <1>9, <2>2, Zenon DEF TypeOK, StopThreads, client, socket, history
<1>10. CASE JoinClose \/ StopEnd
  <2>1. UNCHANGED <<done, dev, threads, req, rep, cur, answer, nextId, accepted, orphaned>>
    BY <1>10, Zenon DEF JoinClose, StopEnd, history, socket
  <2>2. FlagsOK'
    BY <1>1, <2>1, Zenon DEF TypeOK, FlagsOK, threads
  <2>3. /\ todo' \subseteq Id /\ entry' \subseteq Id /\ devOpen' \subseteq Id
        /\ hpc' \in {"stop", "reply", "unmake"}
    BY <1>10, Zenon DEF JoinClose, StopEnd, Closed, TypeOK
  <2> QED BY <1>1, <2>1, <2>2, <2>3, ZenonT(30) DEF TypeOK, client, threads
<1>11. CASE Unmake
  <2>1. FlagsOK'
    BY <1>1, <1>11, Zenon DEF TypeOK, FlagsOK, Unmake, threads
  <2> QED BY <1>1, <1>11, <2>1, Zenon DEF TypeOK, Unmake, threads, history, client, socket
<1>12. CASE SendReply
  <2>1. done' \in {TRUE, done} /\ todo' \in {entry, todo} /\ cur' = NoCall
        /\ hpc' \in {"stop", "poll"}
    BY <1>12, Zenon DEF SendReply, LeaveLoop
  <2>2. FlagsOK'
    BY <1>1, <1>12, <2>1, Zenon DEF TypeOK, FlagsOK, SendReply, threads
  <2>3. rep' \in Seq(Reply)
    BY <1>12 DEF SendReply, TypeOK
  <2> QED BY <1>1, <1>12, <2>1, <2>2, <2>3, Zenon DEF TypeOK, SendReply, threads, history, client
<1>13. CASE CloseThrows \/ JoinAgain
  <2>1. /\ UNCHANGED <<done, dev, stop, req, rep, cur, nextId, accepted, orphaned>>
        /\ worker' \in [Id \X Role -> WorkerState]
    BY <1>13, ThrowSteps, ThrowWorkers, Zenon
  <2>2. FlagsOK'
    BY <1>1, <2>1, Zenon DEF TypeOK, FlagsOK
  <2>3. /\ todo' \subseteq Id /\ entry' \subseteq Id /\ devOpen' \subseteq Id
        /\ hpc' \in {"stop", "reply", "crashed"}
    BY <1>13, ThrowSteps, Zenon DEF Closed, TypeOK
  <2>4. answer' \in Reply
    BY <1>13, ThrowSteps, AnswerType, Zenon DEF TypeOK
  <2> QED BY <1>1, <2>1, <2>2, <2>3, <2>4, ZenonT(30) DEF TypeOK, client
<1> QED BY <1>2, <1>3, <1>4, <1>5, <1>6, <1>7, <1>8, <1>9, <1>10, <1>11, <1>12, <1>13, Zenon
        DEF Handler, Exec

(* The workers and the listener. *)
LEMMA OthersKeepTypes ==
  ASSUME TypeOK, (\E s \in Id, r \in Role : Worker(s, r)) \/ Listener \/ UNCHANGED vars
  PROVE  TypeOK'
<1>1. ASSUME NEW s \in Id, NEW r \in Role, Worker(s, r) PROVE TypeOK'
  <2>1. UNCHANGED <<prot, socket, client, handler, listener, stop, history>>
    BY <1>1, WorkerFrame, Zenon
  <2>2. worker' \in [Id \X Role -> WorkerState]
    BY <1>1, WorkerSteps, Zenon DEF TypeOK
  <2>3. FlagsOK'
    BY <2>1, Zenon DEF TypeOK, FlagsOK, socket, link, handler, history
  <2> QED BY <2>1, <2>2, <2>3, ZenonT(90) DEF TypeOK, socket, link, client, handler, history
<1>2. CASE Listener
  <2>1. FlagsOK'
    BY <1>2, ListenerFrame, Zenon DEF TypeOK, FlagsOK, threads, history
  <2>2. /\ UNCHANGED <<prot, cut, req, rep, client, hpc, cur, todo, answer, entry, nextId,
                       accepted, dev, devOpen, worker, orphaned>>
        /\ listener' \in {"join", "reaped"}
    BY <1>2, ListenerFrame, Zenon DEF threads, history
  <2> QED BY <2>1, <2>2, ZenonT(60) DEF TypeOK, client
<1>3. CASE UNCHANGED vars
  BY <1>3 DEF TypeOK, FlagsOK, vars, socket, link, client, handler, threads, history
<1> QED BY <1>1, <1>2, <1>3, Zenon

-----------------------------------------------------------------------------
(* The handler's place in its loop. *)
LEMMA NextHandling ==
  ASSUME TypeOK, Handling, StreamInv, [Next]_vars
  PROVE  Handling'
<1>1. CASE Client \/ (\E s \in Id, r \in Role : Worker(s, r)) \/ UNCHANGED vars
  <2>1. UNCHANGED <<prot, hpc, cur, todo, done>>
    BY <1>1, ClientFrame, WorkerFrame, Zenon DEF vars, handler
  <2> QED BY <2>1, Zenon DEF Handling
<1>2. CASE Listener
  <2>1. UNCHANGED <<prot, hpc, cur, todo>>
    BY <1>2, ListenerFrame, Zenon
  <2>2. done => done'
    BY <1>2, ListenerFrame, Zenon
  <2> QED BY <2>1, <2>2, Zenon DEF Handling
<1>3. CASE Handler
  <2>1. prot' = prot
    BY <1>3, HandlerFrame, Zenon
  <2>2. NoCall.op = "none" /\ cur.op \in Op \cup {"none"} /\ (cur = NoCall <=> cur.op = "none")
    BY DEF TypeOK, NoCall, Request, Op
  <2>3. CASE HandlerReceive
    BY <2>1, <2>3 DEF HandlerReceive, Handling, TypeOK, Request, NoCall, Op
  <2>4. CASE HandlerQuit \/ HandlerTorn \/ SendReply
    BY <2>1, <2>4 DEF HandlerQuit, HandlerTorn, SendReply, LeaveLoop, Handling, NoCall
  <2>5. CASE ExecMake \/ ExecSetupRefused \/ Accept \/ AcceptFail \/ ExecActivate \/ ExecHangup
    BY <2>1, <2>5, Zenon
       DEF Handling, ExecMake, ExecSetupRefused, Accept, AcceptFail, ExecActivate, ExecHangup
  <2>6. CASE ExecSetup
    BY <2>1, <2>6, Zenon DEF Handling, ExecSetup
  <2>7. CASE ExecClose
    BY <2>1, <2>7, Zenon DEF Handling, ExecClose
  <2>8. CASE StopThreads \/ JoinClose \/ StopEnd \/ Unmake
    BY <2>1, <2>2, <2>8, Zenon DEF Handling, StopThreads, JoinClose, Closed, StopEnd, Unmake
  <2>9. CASE CloseThrows \/ JoinAgain
    BY <2>1, <2>2, <2>9, ThrowSteps, Zenon DEF Handling, Closed
  <2> QED BY <1>3, <2>3, <2>4, <2>5, <2>6, <2>7, <2>8, <2>9, Zenon DEF Handler, Exec
<1> QED BY <1>1, <1>2, <1>3, Zenon DEF Next, Over

(* Who waits, and the mutex. *)
LEMMA NextWaits ==
  ASSUME TypeOK, Waits, [Next]_vars
  PROVE  Waits'
<1> USE DEF Waiting
<1>1. CASE ~Client
  <2>1. UNCHANGED client
    BY <1>1, HandlerFrame, WorkerFrame, ListenerFrame, Zenon DEF Next, Over, vars
  <2> QED BY <2>1, Zenon DEF Waits, client
<1>2. ASSUME NEW t \in Thread, NEW op \in {"setup", "activate", "close"},
             NEW s \in Id \cup {-1}, Call(t, op, s)
      PROVE  Waits'
  <2>1. \A u \in Thread : call[u] = NoCall
    BY <1>2, Zenon DEF Call, Waits, NoThread
  <2>2. call' = [call EXCEPT ![t] = [op |-> op, id |-> s, tag |-> calls + 1]]
    BY <1>2, Zenon DEF Call, Send
  <2> QED BY <1>2, <2>1, <2>2, Zenon DEF Call, Waits, TypeOK, Main, NoThread
<1>3. ASSUME NEW t \in Thread, Receive(t) \/ GiveUp(t) PROVE Waits'
  <2>1. /\ call[t] # NoCall /\ mutex = t /\ cpc = "open"
        /\ call' = [call EXCEPT ![t] = NoCall]
        /\ UNCHANGED cpc
    BY <1>3, Zenon DEF Receive, GiveUp, Finish, Waits
  <2>2. \A u \in Thread : call'[u] = NoCall
    BY <2>1, Zenon DEF Waits, TypeOK
  <2>3. call'[Main] = call[Main]
    BY <2>1, Zenon DEF TypeOK, Main
  <2> QED BY <2>1, <2>2, <2>3, Zenon DEF Waits
<1>4. ASSUME NEW t \in Thread, ReceivePort(t) PROVE Waits'
  <2>1. /\ call[t] # NoCall /\ mutex = t /\ cpc = "open" /\ call[t].op = "setup"
        /\ UNCHANGED <<cpc, held>>
        /\ \/ call' = [call EXCEPT ![t].op = "finish"] /\ mutex' = mutex
           \/ call' = [call EXCEPT ![t] = NoCall]
    BY <1>4, Zenon DEF ReceivePort, Finish, Waits
  <2>2. call'[Main] = call[Main]
    BY <2>1, Zenon DEF TypeOK, Main
  <2>3. CASE call' = [call EXCEPT ![t] = NoCall]
    <3>1. \A u \in Thread : call'[u] = NoCall
      BY <2>1, <2>3, Zenon DEF Waits, TypeOK
    <3> QED BY <2>1, <2>2, <3>1, Zenon DEF Waits
  <2>4. CASE call' = [call EXCEPT ![t].op = "finish"] /\ mutex' = mutex
    <3>1. call'[t].op = "finish" /\ \A u \in Thread \ {t} : call'[u] = call[u]
      BY <2>1, <2>4, ZenonT(30) DEF TypeOK, Request
    <3> QED BY <2>1, <2>2, <2>4, <3>1, Zenon DEF Waits
  <2> QED BY <2>1, <2>3, <2>4, Zenon
<1>5. CASE MainReceive \/ MainGiveUp \/ Delete
  <2>1. /\ \A u \in Thread : call[u] = NoCall /\ call'[u] = NoCall
        /\ held' = held
    BY <1>5, Zenon DEF MainReceive, MainGiveUp, Delete, Waits, Finish, Send, TypeOK, Main
  <2>2. call'[Main] # NoCall =>
           cpc' \in {"make", "unmake", "hangup"} /\ call'[Main].op = cpc'
    BY <1>5 DEF MainReceive, MainGiveUp, Delete, Waits, Finish, Send, TypeOK, Main
  <2>3. cpc' # "make"
    BY <1>5 DEF MainReceive, MainGiveUp, Delete, Waits, After
  <2> QED BY <2>1, <2>2, <2>3, Zenon DEF Waits
<1>6. CASE ConnLost
  BY <1>6, Zenon DEF ConnLost, Waits
<1> QED BY <1>1, <1>2, <1>3, <1>4, <1>5, <1>6, Zenon DEF Client

-----------------------------------------------------------------------------
(* The numbers of the calls. *)

(* A new call has a new number. *)
LEMMA SendNumbered ==
  ASSUME TypeOK, Numbered, NEW t, NEW op \in Op \ {"make"}, NEW s \in Id \cup {-1},
         Send(t, op, s), UNCHANGED <<hpc, cur, nextId>>, op = "setup" => calls <= MaxCalls
  PROVE  Numbered'
<1>1. req \in Seq(Request) /\ calls \in Nat /\ nextId \in Nat
  BY DEF TypeOK
<1> DEFINE m == [op |-> op, id |-> s, tag |-> calls + 1]
<1>2. m \in Request /\ req' = Append(req, m) /\ calls' = calls + 1
  BY <1>1 DEF Send, Request
<1> HIDE DEF m
<1>3. /\ Len(req') = Len(req) + 1 /\ Len(req) \in Nat
      /\ \A k \in 1..Len(req) : req'[k] = req[k] /\ req[k] \in Request
      /\ req'[Len(req) + 1] = m
  BY <1>1, <1>2, Appended
<1>4. m.op = op /\ m.tag = calls + 1
  BY Zenon DEF m
<1>5. \A k \in 1..Len(req') : k \in 1..Len(req) \/ k = Len(req) + 1
  BY <1>3
<1>6. \A k \in 1..Len(req) : req[k].tag \in Nat
  BY <1>3, Zenon DEF Request
<1>7. cur.tag \in Nat
  BY DEF TypeOK, Request, NoCall
<1>8. ASSUME NEW k \in 1..Len(req')
      PROVE  /\ req'[k].tag <= calls'
             /\ req'[k].op = "setup" => req'[k].tag <= MaxCalls + 1
             /\ req'[k].op # "make" => req'[k].tag >= nextId + 2
             /\ \A j \in 1..Len(req') : j < k => req'[j].tag < req'[k].tag
             /\ hpc = "exec" => cur.tag < req'[k].tag
  <2>1. CASE k \in 1..Len(req)
    <3>1. \A j \in 1..Len(req') : j < k => j \in 1..Len(req)
      BY <1>3, <2>1
    <3> QED BY <1>1, <1>2, <1>3, <1>6, <2>1, <3>1 DEF Numbered
  <2>2. CASE k = Len(req) + 1
    <3>1. \A j \in 1..Len(req') : j < k => j \in 1..Len(req)
      BY <1>3, <2>2
    <3>2. req'[k] = m /\ nextId + 1 <= calls /\ (hpc = "exec" => cur.tag <= calls)
      BY <1>1, <1>3, <2>2 DEF Numbered
    <3>3. \A j \in 1..Len(req) : req[j].tag <= calls
      BY Zenon DEF Numbered
    <3> QED BY <1>1, <1>2, <1>3, <1>4, <1>6, <1>7, <3>1, <3>2, <3>3, SMTT(30)
  <2> QED BY <1>5, <2>1, <2>2, Zenon
<1>9. /\ nextId' < calls'
      /\ hpc' = "exec" => /\ cur'.tag <= calls'
                          /\ cur'.op = "setup" => cur'.tag <= MaxCalls + 1
                          /\ cur'.op # "make" => cur'.tag >= nextId' + 2
  BY <1>1, <1>2, <1>7 DEF Numbered
<1>10. nextId' = nextId /\ (hpc' = hpc) /\ cur' = cur
  BY Zenon
<1> QED BY <1>8, <1>9, <1>10, Zenon DEF Numbered

(* Losing what is on the socket does not change the order of the rest. *)
LEMMA SameNumbered ==
  ASSUME Numbered, \/ req' = req
                   \/ req' = <<>>,
         UNCHANGED <<calls, nextId, cur>>, hpc' = "exec" => hpc = "exec"
  PROVE  Numbered'
<1>1. CASE req' = req
  BY <1>1, Zenon DEF Numbered
<1>2. CASE req' = <<>>
  BY <1>2 DEF Numbered
<1> QED BY <1>1, <1>2, Zenon

(* A client numbers its requests in the order it sends them. *)
LEMMA ClientNumbered ==
  ASSUME TypeOK, Numbered, Waits, Client
  PROVE  Numbered'
<1>1. UNCHANGED <<hpc, cur, nextId>>
  BY ClientFrame, Zenon
<1>2. ASSUME NEW t \in Thread, NEW op \in {"setup", "activate", "close"},
             NEW s \in Id \cup {-1}, Call(t, op, s)
      PROVE  Numbered'
  <2>1. Send(t, op, s) /\ calls <= MaxCalls
    BY <1>2 DEF Call, TypeOK
  <2> QED BY <1>1, <2>1, SendNumbered, Zenon DEF Op
<1>3. CASE Delete /\ conn
  <2>1. Send(Main, "unmake", -1)
    BY <1>3, Zenon DEF Delete
  <2> QED BY <1>1, <2>1, SendNumbered, Zenon DEF Op
<1>4. CASE MainReceive /\ cpc' = "hangup"
  <2>1. Send(Main, "hangup", -1)
    BY <1>4, Zenon DEF MainReceive
  <2> QED BY <1>1, <2>1, SendNumbered, Zenon DEF Op
<1>5. CASE \/ \E t \in Thread : Receive(t) \/ ReceivePort(t) \/ GiveUp(t)
           \/ (MainReceive /\ cpc' # "hangup") \/ MainGiveUp \/ (Delete /\ ~conn) \/ ConnLost
  <2>1. (req' = req \/ req' = <<>>) /\ calls' = calls
    BY <1>5, Zenon DEF Receive, ReceivePort, GiveUp, MainReceive, MainGiveUp, Delete, ConnLost,
                socket, client
  <2> QED BY <1>1, <2>1, SameNumbered, Zenon
<1> QED BY <1>2, <1>3, <1>4, <1>5, Zenon DEF Client

(* The handler takes them in order, one stream for a request at most. *)
LEMMA HandlerNumbered ==
  ASSUME TypeOK, Numbered, StreamInv, Handler
  PROVE  Numbered'
<1>1. calls' = calls /\ calls \in Nat /\ nextId \in Nat /\ req \in Seq(Request)
  BY HandlerFrame DEF client, TypeOK
<1>2. CASE HandlerReceive
  <2>1. /\ cur' = req[1] /\ Len(req) >= 1 /\ req[1] \in Request
        /\ Len(req') = Len(req) - 1
        /\ \A k \in 1..Len(req') : k + 1 \in 1..Len(req) /\ req'[k] = req[k + 1]
        /\ nextId' = nextId /\ hpc' = "exec"
    BY <1>1, <1>2, Tailed, Zenon DEF HandlerReceive
  <2>2. 1 \in 1..Len(req) /\ \A j, k \in 1..Len(req') : j < k => j + 1 < k + 1
    BY <1>1, <2>1
  <2>3. \A k \in 1..Len(req') : 1 < k + 1
    BY <1>1, <2>1
  <2> QED BY <1>1, <2>1, <2>2, <2>3, Zenon DEF Numbered
<1>3. CASE ExecSetup
  <2>1. nextId' = nextId + 1 /\ hpc = "exec" /\ hpc' # "exec" /\ req' = req /\ cur' = cur
        /\ cur.op = "setup"
    BY <1>3, Zenon DEF ExecSetup
  <2>2. cur.tag \in Nat
    BY DEF TypeOK, Request, NoCall
  <2>3. \A k \in 1..Len(req) : req[k].tag \in Nat
    <3>1. \A k \in 1..Len(req) : req[k] \in Request
      BY <1>1
    <3> QED BY <3>1, Zenon DEF Request
  <2>4. cur.tag >= nextId + 2 /\ cur.tag <= calls
        /\ \A k \in 1..Len(req) : cur.tag < req[k].tag
    BY <2>1, Zenon DEF Numbered
  <2> QED BY <1>1, <2>1, <2>2, <2>3, <2>4 DEF Numbered
<1>4. CASE Handler /\ ~HandlerReceive /\ ~ExecSetup
  <2>1. req' = req /\ nextId' = nextId /\ hpc' # "exec"
    BY <1>4, ThrowSteps, ZenonT(30) DEF Handler, Exec, HandlerTorn, HandlerQuit, ExecMake,
                ExecSetupRefused, Accept, AcceptFail, ExecActivate, ExecClose, ExecHangup,
                StopThreads, JoinClose, Closed, StopEnd, Unmake, SendReply, LeaveLoop, socket
  <2> QED BY <1>1, <2>1, Zenon DEF Numbered
<1> QED BY <1>2, <1>3, <1>4, Zenon

(* So every step keeps the numbering. *)
LEMMA NextNumbered ==
  ASSUME TypeOK, Numbered, Waits, StreamInv, [Next]_vars
  PROVE  Numbered'
<1>1. CASE (\E s \in Id, r \in Role : Worker(s, r)) \/ Listener \/ UNCHANGED vars
  <2>1. UNCHANGED <<req, calls, nextId, cur, hpc>>
    BY <1>1, WorkerFrame, ListenerFrame, Zenon DEF vars, socket, client, handler
  <2> QED BY <2>1, SameNumbered, Zenon
<1> QED BY <1>1, ClientNumbered, HandlerNumbered, Zenon DEF Next, Over

(* The number of calls, and the stream ids in the replies. *)
LEMMA ClientBounded ==
  ASSUME TypeOK, Bounded, Waits, Client
  PROVE  Bounded'
<1>1. answer' = answer
  BY ClientFrame, Zenon
<1>2. \A k \in 1..Len(rep') : rep'[k].kind = "int" => rep'[k].val \in Id
  <2>1. CASE rep # <<>> /\ rep' = Tail(rep)
    <3>1. \A k \in 1..Len(rep') : k + 1 \in 1..Len(rep) /\ rep'[k] = rep[k + 1]
      BY <2>1, Tailed, Zenon DEF TypeOK
    <3> QED BY <3>1, Zenon DEF Bounded
  <2>2. CASE rep' = rep
    BY <2>2, Zenon DEF Bounded
  <2>3. CASE rep' = <<>>
    BY <2>3
  <2> QED BY <2>1, <2>2, <2>3, Zenon DEF Client, Call, Receive, ReceivePort, GiveUp, MainReceive,
                                  MainGiveUp, Delete, ConnLost, socket
<1>3. calls' <= CASE cpc' \in {"make", "open"} -> MaxCalls + 1
                  [] cpc' = "unmake" -> MaxCalls + 2
                  [] OTHER -> MaxCalls + 3
  <2>1. calls \in Nat /\ cpc \in {"make", "open", "unmake", "hangup", "closed"}
    BY DEF TypeOK
  <2>2. CASE UNCHANGED <<calls, cpc>>
    BY <2>2, Zenon DEF Bounded
  <2>3. ASSUME NEW t \in Thread, NEW op \in {"setup", "activate", "close"},
               NEW s \in Id \cup {-1}, Call(t, op, s)
        PROVE  cpc' = "open" /\ calls' <= MaxCalls + 1
    BY <2>1, <2>3 DEF Call, Send
  <2>4. CASE MainReceive
    <3>1. /\ cpc \in {"make", "unmake", "hangup"}
          /\ cpc' \in {"open", "hangup", "closed"}
          /\ cpc' = "open" => cpc = "make"
          /\ cpc' = "hangup" => cpc = "unmake"
          /\ calls' = IF cpc' = "hangup" THEN calls + 1 ELSE calls
      BY <2>4 DEF MainReceive, Waits, After, Send
    <3> QED BY <2>1, <3>1 DEF Bounded
  <2>5. CASE MainGiveUp
    BY <2>1, <2>5 DEF MainGiveUp, Bounded
  <2>6. CASE Delete
    BY <2>1, <2>6 DEF Delete, Send, Bounded
  <2>7. ASSUME NEW t \in Thread, Receive(t) \/ ReceivePort(t) \/ GiveUp(t)
        PROVE  UNCHANGED <<calls, cpc>>
    BY <2>7, Zenon DEF Receive, ReceivePort, GiveUp
  <2>8. CASE ConnLost
    BY <2>1, <2>8 DEF ConnLost, Bounded
  <2> QED BY <2>2, <2>3, <2>4, <2>5, <2>6, <2>7, <2>8, Zenon DEF Client
<1> QED BY <1>1, <1>2, <1>3, Zenon DEF Bounded

(* The ids in replies are ids of streams. *)
LEMMA HandlerBounded ==
  ASSUME TypeOK, Bounded, Numbered, StreamInv, Handler
  PROVE  Bounded'
<1>1. UNCHANGED <<cpc, calls>>
  BY HandlerFrame, Zenon DEF client
<1>2. answer'.kind = "int" => answer'.val \in Id
  <2>1. CASE ExecSetup
    <3>1. nextId \in Id
      BY <2>1, SetupBound, Zenon DEF ExecSetup
    <3> QED BY <2>1, <3>1, AnswerType, Zenon DEF ExecSetup
  <2>2. CASE Accept
    <3>1. nextId - 1 \in Id
      BY <2>2, Zenon DEF Accept, StreamInv, TypeOK
    <3> QED BY <2>2, <3>1, AnswerType, Zenon DEF Accept
  <2>3. CASE ExecActivate
    <3>1. cur.id \in Id => 0 \in Id
      BY DEF Id
    <3> QED BY <2>3, <3>1, AnswerType, Zenon DEF ExecActivate, TypeOK
  <2>4. CASE ExecMake \/ ExecSetupRefused \/ AcceptFail \/ ExecClose \/ ExecHangup
    <3>1. Answer("void", -1) \/ Answer("exception", -1)
      BY <2>4, Zenon DEF ExecMake, ExecSetupRefused, AcceptFail, ExecClose, ExecHangup
    <3> QED BY <3>1, AnswerType, Zenon
  <2>5. CASE HandlerReceive \/ HandlerTorn \/ HandlerQuit \/ StopThreads \/ JoinClose \/ StopEnd \/ Unmake
             \/ SendReply
    <3>1. answer' = answer
      BY <2>5, Zenon DEF HandlerReceive, HandlerTorn, HandlerQuit, StopThreads, JoinClose,
                  StopEnd, Unmake, SendReply
    <3> QED BY <3>1, Zenon DEF Bounded
  <2>6. CASE CloseThrows \/ JoinAgain
    BY <2>6, ThrowSteps, AnswerType, Zenon DEF Bounded
  <2> QED BY <2>1, <2>2, <2>3, <2>4, <2>5, <2>6, Zenon DEF Handler, Exec
<1>3. \A k \in 1..Len(rep') : rep'[k].kind = "int" => rep'[k].val \in Id
  <2>1. rep \in Seq(Reply) /\ answer \in Reply /\ Len(rep) \in Nat
    BY DEF TypeOK
  <2>2. CASE rep' = rep
    BY <2>2, Zenon DEF Bounded
  <2>3. ASSUME NEW e \in Reply, rep' = Append(rep, e), e.kind = "int" => e.val \in Id
        PROVE  \A k \in 1..Len(rep') : rep'[k].kind = "int" => rep'[k].val \in Id
    <3>1. /\ \A k \in 1..Len(rep) : rep'[k] = rep[k]
          /\ Len(rep') = Len(rep) + 1 /\ rep'[Len(rep) + 1] = e
      BY <2>1, <2>3, Appended
    <3>2. \A k \in 1..Len(rep') : k \in 1..Len(rep) \/ k = Len(rep) + 1
      BY <2>1, <3>1
    <3> QED BY <2>3, <3>1, <3>2, Zenon DEF Bounded
  <2>4. \/ rep' = rep \/ rep' = Append(rep, answer)
        \/ rep' = Append(rep, [kind |-> "port", val |-> -1, tag |-> cur.tag])
    BY ThrowSteps, ZenonT(30) DEF Handler, Exec, HandlerReceive, HandlerTorn, HandlerQuit,
           ExecMake, ExecSetupRefused, ExecSetup, Accept, AcceptFail, ExecActivate, ExecClose,
           ExecHangup, StopThreads, JoinClose, StopEnd, Unmake, SendReply, socket
  <2>5. [kind |-> "port", val |-> -1, tag |-> cur.tag] \in Reply
    BY DEF TypeOK, Reply, Request, NoCall
  <2> QED BY <2>1, <2>2, <2>3, <2>4, <2>5, Zenon DEF Bounded
<1> QED BY <1>1, <1>2, <1>3, Zenon DEF Bounded

(* So every step keeps the bounds. *)
LEMMA NextBounded ==
  ASSUME TypeOK, Bounded, Numbered, Waits, StreamInv, [Next]_vars
  PROVE  Bounded'
<1>1. CASE (\E s \in Id, r \in Role : Worker(s, r)) \/ Listener \/ UNCHANGED vars
  <2>1. UNCHANGED <<calls, cpc, rep, answer>>
    BY <1>1, WorkerFrame, ListenerFrame, Zenon DEF vars, socket, client, handler
  <2> QED BY <2>1, Zenon DEF Bounded
<1> QED BY <1>1, ClientBounded, HandlerBounded, Zenon DEF Next, Over

-----------------------------------------------------------------------------
(* The order of the requests, and the device. *)

(* A request sent behind those of the queue keeps the queue in order. *)
LEMMA SendInOrder ==
  ASSUME TypeOK, InOrder, DeviceMade, NEW t, NEW op \in Op, NEW s \in Id \cup {-1},
         Send(t, op, s), UNCHANGED <<hpc, cur, dev>>,
         \/ cpc = "open" /\ cpc' = "open" /\ op \in {"setup", "activate", "close"}
         \/ cpc' \in {"unmake", "hangup"} /\ op \in {"unmake", "hangup"}
  PROVE  InOrder'
<1>1. req \in Seq(Request) /\ calls \in Nat
  BY DEF TypeOK
<1> DEFINE m == [op |-> op, id |-> s, tag |-> calls + 1]
<1>2. m \in Request /\ req' = Append(req, m) /\ m.op = op
  BY <1>1 DEF Send, Request
<1> HIDE DEF m
<1>3. /\ Len(req') = Len(req) + 1 /\ Len(req) \in Nat
      /\ \A k \in 1..Len(req) : req'[k] = req[k]
      /\ req'[Len(req) + 1] = m
  BY <1>1, <1>2, Appended
<1>4. ASSUME NEW k \in 1..Len(req')
      PROVE  /\ hpc # "gone" /\ req'[k].op = "setup" => dev /\ cur.op # "unmake"
             /\ cpc' = "make" => req'[k].op = "make"
             /\ cpc' = "open" => req'[k].op # "unmake"
             /\ \A j \in 1..Len(req') : j < k /\ req'[j].op = "unmake" => req'[k].op # "setup"
  <2>1. \A j \in 1..Len(req') : j < k => j \in 1..Len(req)
    BY <1>3
  <2>2. CASE k \in 1..Len(req)
    BY <1>3, <2>1, <2>2, Zenon DEF InOrder
  <2>3. CASE k = Len(req) + 1
    BY <1>2, <1>3, <2>1, <2>3, Zenon DEF InOrder, DeviceMade
  <2> QED BY <1>3, <2>2, <2>3
<1> QED BY <1>4, Zenon DEF InOrder

(* Requests that are lost, and steps that leave the device. *)
LEMMA SameInOrder ==
  ASSUME InOrder, \/ req' = req
                  \/ req' = <<>>,
         dev => dev', hpc' # "gone" => hpc # "gone",
         cur' = cur \/ cur'.op # "unmake",
         cpc' \in {cpc, "closed"} \/ (cpc = "make" /\ cpc' = "open")
  PROVE  InOrder'
<1>1. CASE req' = req
  BY <1>1, ZenonT(30) DEF InOrder
<1>2. CASE req' = <<>>
  BY <1>2 DEF InOrder
<1> QED BY <1>1, <1>2, Zenon

(* The client sends make first, and unmake and hangup last. *)
LEMMA ClientInOrder ==
  ASSUME TypeOK, Waits, InOrder, DeviceMade, Client
  PROVE  InOrder'
<1>1. UNCHANGED <<hpc, cur, dev>>
  BY ClientFrame, Zenon
<1>2. ASSUME NEW t \in Thread, NEW op \in {"setup", "activate", "close"},
             NEW s \in Id \cup {-1}, Call(t, op, s)
      PROVE  InOrder'
  <2>1. Send(t, op, s) /\ cpc = "open" /\ cpc' = "open"
    BY <1>2, Zenon DEF Call
  <2> QED BY <1>1, <2>1, SendInOrder, Zenon DEF Op
<1>3. CASE Delete /\ conn
  <2>1. Send(Main, "unmake", -1) /\ cpc' = "unmake"
    BY <1>3, Zenon DEF Delete
  <2> QED BY <1>1, <2>1, SendInOrder, Zenon DEF Op
<1>4. CASE MainReceive /\ cpc' = "hangup"
  <2>1. Send(Main, "hangup", -1)
    BY <1>4, Zenon DEF MainReceive
  <2> QED BY <1>1, <1>4, <2>1, SendInOrder, Zenon DEF Op
<1>5. CASE \/ \E t \in Thread : Receive(t) \/ ReceivePort(t) \/ GiveUp(t)
           \/ (MainReceive /\ cpc' # "hangup") \/ MainGiveUp \/ (Delete /\ ~conn) \/ ConnLost
  <2>1. req' = req \/ req' = <<>>
    BY <1>5, Zenon DEF Receive, ReceivePort, GiveUp, MainReceive, MainGiveUp, Delete, ConnLost,
                socket
  <2>2. cpc' \in {cpc, "closed"} \/ (cpc = "make" /\ cpc' = "open")
    BY <1>5 DEF Receive, ReceivePort, GiveUp, MainReceive, MainGiveUp, Delete, ConnLost,
                client, Waits, After
  <2> QED BY <1>1, <2>1, <2>2, SameInOrder, Zenon
<1> QED BY <1>2, <1>3, <1>4, <1>5, Zenon DEF Client

(* The handler keeps what it takes in that order. *)
LEMMA HandlerInOrder ==
  ASSUME TypeOK, Handling, InOrder, DeviceMade, Handler
  PROVE  InOrder'
<1>1. UNCHANGED cpc
  BY HandlerFrame, Zenon DEF client
<1>2. CASE HandlerReceive
  <2>1. /\ cur' = req[1] /\ Len(req) >= 1 /\ Len(req) \in Nat
        /\ Len(req') = Len(req) - 1
        /\ \A k \in 1..Len(req') : k + 1 \in 1..Len(req) /\ req'[k] = req[k + 1]
        /\ dev' = dev /\ hpc # "gone"
    BY <1>2, Tailed DEF HandlerReceive, TypeOK
  <2>2. 1 \in 1..Len(req) /\ \A j, k \in 1..Len(req') : j < k => j + 1 < k + 1
    BY <2>1
  <2>3. \A k \in 1..Len(req') : 1 < k + 1
    BY <2>1
  <2> QED BY <1>1, <2>1, <2>2, <2>3, Zenon DEF InOrder
<1>3. CASE Unmake
  <2>1. req' = req /\ cur' = cur /\ hpc = "unmake" /\ (cur # NoCall => cur.op = "unmake")
        /\ hpc' = IF cur = NoCall THEN "gone" ELSE "reply"
    BY <1>3, Zenon DEF Unmake, Handling, socket
  <2> QED BY <1>1, <2>1, Zenon DEF InOrder
<1>4. CASE Handler /\ ~HandlerReceive /\ ~Unmake
  <2>1. req' = req /\ hpc' # "gone" /\ hpc # "gone" /\ (cur' = cur \/ cur' = NoCall)
    BY <1>4, ThrowSteps, ZenonT(30) DEF Handler, Exec, HandlerTorn, HandlerQuit, ExecMake,
                ExecSetupRefused, ExecSetup, Accept, AcceptFail, ExecActivate, ExecClose,
                ExecHangup, StopThreads, JoinClose, Closed, StopEnd, SendReply, LeaveLoop, socket
  <2>2. dev => dev'
    BY <1>4, ThrowSteps, Zenon DEF Handler, Exec, HandlerTorn, HandlerQuit, ExecMake,
                ExecSetupRefused, ExecSetup, Accept, AcceptFail, ExecActivate, ExecClose,
                ExecHangup, StopThreads, JoinClose, StopEnd, SendReply
  <2> QED BY <1>1, <2>1, <2>2, SameInOrder DEF NoCall
<1> QED BY <1>2, <1>3, <1>4, Zenon

(* The other threads leave the calls and the device alone. *)
LEMMA QuietFrame ==
  ASSUME (\E s \in Id, r \in Role : Worker(s, r)) \/ Listener \/ UNCHANGED vars
  PROVE  UNCHANGED <<prot, req, rep, client, hpc, cur, todo, answer, entry, nextId, dev,
                     devOpen, history>>
  BY WorkerFrame, ListenerFrame, Zenon DEF vars, socket, handler

(* So every step keeps the order. *)
LEMMA NextInOrder ==
  ASSUME TypeOK, Handling, Waits, InOrder, DeviceMade, [Next]_vars
  PROVE  InOrder'
<1>1. CASE (\E s \in Id, r \in Role : Worker(s, r)) \/ Listener \/ UNCHANGED vars
  BY <1>1, QuietFrame, SMTT(30) DEF InOrder, client
<1> QED BY <1>1, ClientInOrder, HandlerInOrder, Zenon DEF Next, Over

(* A client that has a reply to make, or none, has sent no request before it. *)
LEMMA ClientDeviceMade ==
  ASSUME TypeOK, Waits, InOrder, DeviceMade, Client
  PROVE  DeviceMade'
<1>1. UNCHANGED <<hpc, cur, dev, entry, answer>>
  BY ClientFrame, Zenon
<1>2. CASE cpc' \in {cpc, "unmake", "hangup", "closed"}
  <2>1. CASE cpc' # "make"
    BY <1>1, <1>2, <2>1, Zenon DEF DeviceMade
  <2>2. CASE cpc' = "make"
    <3>1. rep' = rep \/ rep' = <<>>
      BY <1>2, <2>2 DEF Client, Call, Receive, ReceivePort, GiveUp, MainReceive, MainGiveUp,
                        Delete, ConnLost, Waits, After, socket
    <3>2. CASE rep' = rep
      BY <1>1, <1>2, <2>2, <3>2, Zenon DEF DeviceMade
    <3>3. CASE rep' = <<>>
      BY <1>1, <1>2, <2>2, <3>3 DEF DeviceMade
    <3> QED BY <3>1, <3>2, <3>3, Zenon
  <2> QED BY <2>1, <2>2, Zenon
<1>3. CASE MainReceive /\ cpc' = "open"
  <2>1. cpc = "make" /\ Head(rep).kind # "exception" /\ rep # <<>>
    BY <1>3 DEF MainReceive, Waits, After
  <2>2. Head(rep) = rep[1] /\ 1 \in 1..Len(rep)
    BY <2>1, Tailed DEF TypeOK
  <2> QED BY <1>1, <1>3, <2>1, <2>2, Zenon DEF DeviceMade
<1> QED BY <1>2, <1>3 DEF Client, Call, Receive, ReceivePort, GiveUp, MainReceive, MainGiveUp,
                          Delete, ConnLost, client, Waits, After

(* The handler sets streams up only after make succeeded. *)
LEMMA HandlerDeviceMade ==
  ASSUME TypeOK, StreamInv, Handling, InOrder, DeviceMade, Handler
  PROVE  DeviceMade'
<1>1. UNCHANGED cpc
  BY HandlerFrame, Zenon DEF client
<1>2. CASE HandlerReceive
  <2>1. /\ cur' = req[1] /\ 1 \in 1..Len(req)
        /\ UNCHANGED <<rep, entry, dev, answer>> /\ hpc = "poll" /\ hpc' = "exec"
    BY <1>2, Tailed DEF HandlerReceive, TypeOK
  <2> QED BY <1>1, <2>1, Zenon DEF InOrder, DeviceMade
<1>3. CASE ExecMake
  <2>1. /\ UNCHANGED <<rep, entry, cur>> /\ hpc = "exec" /\ hpc' = "reply"
        /\ cur.op = "make"
    BY <1>3, Zenon DEF ExecMake, socket
  <2>2. dev' \/ (dev' = dev /\ answer'.kind = "exception")
    BY <1>3, AnswerType, Zenon DEF ExecMake
  <2> QED BY <1>1, <2>1, <2>2, Zenon DEF DeviceMade
<1>4. CASE ExecSetupRefused \/ ExecSetup \/ Accept \/ AcceptFail \/ ExecActivate \/ ExecClose
           \/ ExecHangup
  <2>1. cpc # "make" /\ (ExecSetup => dev)
    BY <1>4, Zenon DEF DeviceMade, Handling, ExecSetupRefused, ExecSetup, Accept, AcceptFail,
                ExecActivate, ExecClose, ExecHangup
  <2>2. /\ UNCHANGED <<dev, cur>> /\ hpc' # "exec" /\ hpc # "gone"
        /\ ExecSetup \/ entry' = entry
    BY <1>4, Zenon DEF ExecSetupRefused, ExecSetup, Accept, AcceptFail, ExecActivate, ExecClose,
                ExecHangup
  <2> QED BY <1>1, <2>1, <2>2, Zenon DEF DeviceMade
<1>5. CASE HandlerTorn \/ HandlerQuit \/ StopThreads \/ JoinClose \/ StopEnd
  <2>1. /\ UNCHANGED <<rep, dev>> /\ (entry' # {} => entry # {})
        /\ cur' = cur \/ cur' = NoCall
        /\ hpc' \notin {"gone", "exec"} /\ hpc # "gone"
        /\ hpc' = "reply" => cur.op = "close"
    BY <1>5, Zenon DEF HandlerTorn, HandlerQuit, StopThreads, JoinClose, Closed, StopEnd,
                LeaveLoop, socket
  <2> QED BY <1>1, <2>1 DEF DeviceMade, NoCall
<1>6. CASE Unmake
  <2>1. /\ UNCHANGED <<rep, cur, entry>> /\ entry = {}
        /\ hpc' = IF cur = NoCall THEN "gone" ELSE "reply"
        /\ cur # NoCall => cur.op = "unmake"
    BY <1>6, Zenon DEF Unmake, StreamInv, Handling, socket
  <2> QED BY <1>1, <2>1, Zenon DEF DeviceMade
<1>7. CASE SendReply
  <2>1. /\ UNCHANGED <<entry, dev, answer>> /\ cur' = NoCall /\ hpc' \in {"poll", "stop"}
        /\ hpc = "reply" /\ (rep' = rep \/ rep' = Append(rep, answer))
    BY <1>7, Zenon DEF SendReply, LeaveLoop
  <2>2. rep \in Seq(Reply) /\ answer \in Reply /\ Len(rep) \in Nat
    BY DEF TypeOK
  <2>3. ASSUME cpc = "make", NEW k \in 1..Len(rep'), rep'[k].kind # "exception"
        PROVE  dev
    <3>1. (k \in 1..Len(rep) /\ rep'[k] = rep[k]) \/ rep'[k] = answer
      BY <2>1, <2>2, Appended
    <3> QED BY <2>1, <2>3, <3>1, Zenon DEF DeviceMade
  <2> QED BY <1>1, <2>1, <2>3, Zenon DEF DeviceMade, NoCall
<1>8. CASE CloseThrows \/ JoinAgain
  <2>1. /\ UNCHANGED <<rep, dev, cur>> /\ (entry' # {} => entry # {})
        /\ hpc' \notin {"gone", "exec"} /\ hpc # "gone"
    BY <1>8, ThrowSteps, Zenon DEF Closed
  <2>2. hpc' = "reply" => answer'.kind = "exception"
    BY <1>8, ThrowSteps, AnswerType, Zenon DEF Closed
  <2> QED BY <1>1, <2>1, <2>2, Zenon DEF DeviceMade
<1> QED BY <1>2, <1>3, <1>4, <1>5, <1>6, <1>7, <1>8, Zenon DEF Handler, Exec

(* So the device outlives the streams, step by step. *)
LEMMA NextDeviceMade ==
  ASSUME TypeOK, StreamInv, Handling, Waits, InOrder, DeviceMade, [Next]_vars
  PROVE  DeviceMade'
<1>1. CASE (\E s \in Id, r \in Role : Worker(s, r)) \/ Listener \/ UNCHANGED vars
  BY <1>1, QuietFrame, Zenon DEF DeviceMade, client
<1> QED BY <1>1, ClientDeviceMade, HandlerDeviceMade, Zenon DEF Next, Over

-----------------------------------------------------------------------------
(* Calls and replies. *)

(* The mutex and the life of the device leave room for one waiting thread. *)
LEMMA OneWaiter ==
  ASSUME TypeOK, Waits, NEW t \in Thread \cup {Main}, NEW u \in Thread \cup {Main},
         Waiting(t), Waiting(u)
  PROVE  t = u
  BY DEF Waits, Main

(* While nobody waits nothing is under way. *)
LEMMA NobodyWaits ==
  ASSUME OneAtATime, ~abandoned, \A t \in Thread \cup {Main} : ~Waiting(t)
  PROVE  req = <<>> /\ rep = <<>> /\ ~Active
  BY Zenon DEF OneAtATime

(* A call starts alone. *)
LEMMA SendAlone ==
  ASSUME TypeOK, NEW t \in Thread \cup {Main}, NEW op \in Op, NEW s \in Id \cup {-1},
         Send(t, op, s), req = <<>>, rep' = <<>>, ~Active, UNCHANGED <<hpc, cur>>,
         ~abandoned' => ~crossed'
  PROVE  OneAtATime'
<1>1. ~Active'
  BY Zenon DEF Active
<1> DEFINE m == [op |-> op, id |-> s, tag |-> calls + 1]
<1>2. /\ req' = <<m>> /\ Len(req') = 1 /\ req'[1] = m
      /\ call'[t] = m /\ m # NoCall
  BY DEF Send, TypeOK, NoCall, Op
<1>3. Waiting(t)' /\ OwnMessages(t)'
  BY <1>1, <1>2 DEF Waiting, OwnMessages, Active
<1> QED BY <1>3, Zenon DEF OneAtATime

(* The reply that a caller finds is its own, and it is the last. *)
LEMMA ReplyAlone ==
  ASSUME TypeOK, Waits, OneAtATime, ~abandoned, NEW t \in Thread \cup {Main}, Waiting(t),
         rep # <<>>
  PROVE  /\ OwnMessages(t) /\ Head(rep) = rep[1] /\ Head(rep).tag = call[t].tag
         /\ Head(rep).kind # "port" => Tail(rep) = <<>> /\ req = <<>> /\ ~Active
<1>1. OwnMessages(t)
  BY OneWaiter, Zenon DEF OneAtATime
<1>2. Head(rep) = rep[1] /\ 1 \in 1..Len(rep) /\ rep \in Seq(Reply)
  BY Tailed DEF TypeOK
<1>3. req = <<>> /\ Head(rep).tag = call[t].tag
  BY <1>1, <1>2, Zenon DEF OwnMessages
<1>4. ASSUME Head(rep).kind # "port" PROVE Tail(rep) = <<>> /\ ~Active
  <2>1. Len(rep) = 1 /\ ~Active
    BY <1>1, <1>2, <1>4, Zenon DEF OwnMessages
  <2>2. Tail(rep) = <<>>
    BY <1>2, <2>1, LastTail, Zenon
  <2> QED BY <2>1, <2>2, Zenon
<1> QED BY <1>1, <1>2, <1>3, <1>4, Zenon

(* setupStream goes on after the port only if it connected both sockets. *)
LEMMA PortTaken ==
  ASSUME NEW t, ReceivePort(t), ~abandoned'
  PROVE  /\ ~abandoned /\ call[t].op = "setup"
         /\ call' = [call EXCEPT ![t].op = "finish"] \/ call' = [call EXCEPT ![t] = NoCall]
         /\ Head(rep).kind = "port" =>
              hpc = "accept" /\ call' = [call EXCEPT ![t].op = "finish"]
<1>1. PICK n \in 0..2 :
        /\ n > 0 => hpc = "accept"
        /\ IF n = 2 THEN call' = [call EXCEPT ![t].op = "finish"] /\ abandoned' = abandoned
                    ELSE /\ call' = [call EXCEPT ![t] = NoCall]
                         /\ abandoned' = (abandoned \/ Head(rep).kind = "port")
  BY Zenon DEF ReceivePort, Finish
<1>2. CASE n = 2
  BY <1>1, <1>2 DEF ReceivePort
<1>3. CASE n # 2
  BY <1>1, <1>3, Zenon DEF ReceivePort
<1> QED BY <1>2, <1>3, Zenon

(* The client has at most one request or reply on its way. *)
LEMMA ClientAlone ==
  ASSUME TypeOK, Waits, Handling, OneAtATime, Client
  PROVE  OneAtATime'
<1>1. UNCHANGED <<prot, hpc, cur, answer>> /\ Active' = Active
  BY ClientFrame, Zenon DEF Active
<1>2. ASSUME NEW t \in Thread, NEW op \in {"setup", "activate", "close"},
             NEW s \in Id \cup {-1}, Call(t, op, s)
      PROVE  OneAtATime'
  <2>1. /\ Send(t, op, s) /\ UNCHANGED <<rep, abandoned, crossed>>
        /\ \A u \in Thread \cup {Main} : ~Waiting(u)
    BY <1>2, Zenon DEF Call, Waits, NoThread, history
  <2>2. ~abandoned => req = <<>> /\ rep = <<>> /\ ~Active /\ ~crossed
    BY <2>1, NobodyWaits, Zenon DEF OneAtATime
  <2>3. CASE abandoned
    BY <2>1, <2>3, Zenon DEF OneAtATime
  <2> QED BY <1>1, <2>1, <2>2, <2>3, SendAlone, Zenon DEF Op
<1>3. ASSUME NEW t \in Thread, Receive(t), ~abandoned PROVE OneAtATime'
  <2>1. Waiting(t) /\ rep # <<>> /\ ~(call[t].op = "setup" /\ prot = "tcp")
    BY <1>3, Zenon DEF Receive
  <2>2. /\ OwnMessages(t) /\ Head(rep) = rep[1] /\ Head(rep).tag = call[t].tag
        /\ Head(rep).kind # "port" => Tail(rep) = <<>> /\ req = <<>> /\ ~Active
    BY <1>3, <2>1, ReplyAlone, Zenon
  <2>3. rep' = <<>> /\ req' = <<>> /\ ~Active'
    BY <1>1, <1>3, <2>1, <2>2, Zenon DEF Receive, OwnMessages
  <2>4. ~crossed'
    BY <1>3, <2>2, Zenon DEF Receive, OneAtATime
  <2> QED BY <2>3, <2>4, Zenon DEF OneAtATime
<1>4. ASSUME NEW t \in Thread, ReceivePort(t), ~abandoned, ~abandoned' PROVE OneAtATime'
  <2>1. Waiting(t) /\ rep # <<>> /\ rep' = Tail(rep) /\ req' = req
    BY <1>4, Zenon DEF ReceivePort
  <2>2. /\ OwnMessages(t) /\ Head(rep) = rep[1] /\ Head(rep).tag = call[t].tag
        /\ Head(rep).kind # "port" => Tail(rep) = <<>> /\ req = <<>> /\ ~Active
    BY <1>4, <2>1, ReplyAlone, Zenon
  <2>3. ~crossed'
    BY <1>4, <2>2, Zenon DEF ReceivePort, OneAtATime
  <2>4. CASE Head(rep).kind # "port"
    BY <1>1, <2>1, <2>2, <2>3, <2>4, Zenon DEF OneAtATime
  <2>5. CASE Head(rep).kind = "port"
    <3>1. hpc = "accept" /\ call' = [call EXCEPT ![t].op = "finish"] /\ call[t].op = "setup"
      BY <1>4, <2>5, PortTaken, Zenon
    <3>2. /\ call'[t].op = "finish" /\ call'[t].id = call[t].id /\ call'[t].tag = call[t].tag
          /\ call'[t] # NoCall
      BY <2>1, <3>1, Zenon DEF TypeOK, Request, NoCall, Waiting
    <3>3. Active /\ cur.op = "setup" /\ Len(rep) = 1 /\ Belongs(cur, call[t]) /\ req = <<>>
      BY <2>1, <2>2, <3>1, Zenon DEF Active, Handling, OwnMessages
    <3>4. rep' = <<>>
      BY <2>1, <3>3 DEF TypeOK
    <3>5. Belongs(cur, call[t])'
      BY <1>1, <3>2, <3>3, Zenon DEF Belongs
    <3>6. OwnMessages(t)'
      BY <1>1, <2>1, <3>1, <3>3, <3>4, <3>5 DEF OwnMessages
    <3> QED BY <2>3, <3>2, <3>6, Zenon DEF OneAtATime, Waiting
  <2> QED BY <2>4, <2>5, Zenon
<1>5. CASE MainReceive /\ ~abandoned
  <2>1. Waiting(Main) /\ rep # <<>> /\ call[Main].op # "setup" /\ rep' = Tail(rep)
        /\ abandoned' = abandoned
    BY <1>5, Zenon DEF MainReceive, Waits
  <2>2. /\ OwnMessages(Main) /\ Head(rep) = rep[1] /\ Head(rep).tag = call[Main].tag
        /\ Head(rep).kind # "port" => Tail(rep) = <<>> /\ req = <<>> /\ ~Active
    BY <1>5, <2>1, ReplyAlone, Zenon
  <2>3. rep' = <<>> /\ req = <<>> /\ ~Active
    BY <2>1, <2>2, Zenon DEF OwnMessages
  <2>4. ~crossed'
    BY <1>5, <2>2, Zenon DEF MainReceive, OneAtATime
  <2>5. CASE cpc' = "hangup"
    <3>1. Send(Main, "hangup", -1)
      BY <1>5, <2>5, Zenon DEF MainReceive
    <3> QED BY <1>1, <2>3, <2>4, <3>1, SendAlone, Zenon DEF Op
  <2>6. CASE cpc' # "hangup"
    <3>1. req' = <<>>
      BY <1>5, <2>3, <2>6, Zenon DEF MainReceive
    <3> QED BY <1>1, <2>3, <2>4, <3>1, Zenon DEF OneAtATime
  <2> QED BY <2>5, <2>6, Zenon
<1>6. CASE Delete
  <2>1. /\ \A u \in Thread \cup {Main} : ~Waiting(u)
        /\ UNCHANGED <<rep, abandoned, crossed>>
    BY <1>6, Zenon DEF Delete, Waits, history
  <2>2. ~abandoned => req = <<>> /\ rep = <<>> /\ ~Active /\ ~crossed
    BY <2>1, NobodyWaits, Zenon DEF OneAtATime
  <2>3. CASE abandoned
    BY <2>1, <2>3, Zenon DEF OneAtATime
  <2>4. CASE conn /\ ~abandoned
    <3>1. Send(Main, "unmake", -1)
      BY <1>6, <2>4, Zenon DEF Delete
    <3> QED BY <1>1, <2>1, <2>2, <2>4, <3>1, SendAlone, Zenon DEF Op
  <2>5. CASE ~conn /\ ~abandoned
    <3>1. req' = req
      BY <1>6, <2>5, Zenon DEF Delete
    <3> QED BY <1>1, <2>1, <2>2, <2>5, <3>1, Zenon DEF OneAtATime
  <2> QED BY <2>3, <2>4, <2>5, Zenon
<1>7. CASE ConnLost
  <2>1. /\ ~abandoned' => ~abandoned /\ \A t \in Thread \cup {Main} : ~Waiting(t)
        /\ crossed' = crossed /\ rep' = <<>> /\ (req' = req \/ req' = <<>>)
    BY <1>7, Zenon DEF ConnLost
  <2>2. ~abandoned' => req' = <<>> /\ ~Active'
    BY <1>1, <2>1, NobodyWaits, Zenon
  <2> QED BY <2>1, <2>2, Zenon DEF OneAtATime
<1>8. CASE abandoned' 
  BY <1>8, Zenon DEF OneAtATime
<1>9. ASSUME NEW t \in Thread, Receive(t) \/ ReceivePort(t) \/ GiveUp(t), abandoned
      PROVE  abandoned'
  BY <1>9, Zenon DEF Receive, ReceivePort, GiveUp
<1>10. (\E t \in Thread : GiveUp(t)) \/ MainGiveUp \/ (MainReceive /\ abandoned) => abandoned'
  BY Zenon DEF GiveUp, MainGiveUp, MainReceive
<1> QED BY <1>2, <1>3, <1>4, <1>5, <1>6, <1>7, <1>8, <1>9, <1>10, Zenon DEF Client

(* The handler turns one request into one answer. *)
LEMMA HandlerAlone ==
  ASSUME TypeOK, Handling, OneAtATime, Handler
  PROVE  OneAtATime'
<1>1. UNCHANGED <<prot, call, abandoned, crossed>>
  BY HandlerFrame, Zenon DEF client
<1> SUFFICES ASSUME ~abandoned, req' # <<>> \/ rep' # <<>> \/ Active'
             PROVE  \E t \in Thread \cup {Main} : Waiting(t)' /\ OwnMessages(t)'
  BY <1>1, Zenon DEF OneAtATime
<1>2. ASSUME NEW t \in Thread \cup {Main}, Waiting(t), OwnMessages(t)' PROVE
        \E u \in Thread \cup {Main} : Waiting(u)' /\ OwnMessages(u)'
  BY <1>1, <1>2, Zenon DEF Waiting
<1>3. CASE HandlerReceive
  <2>1. PICK t \in Thread \cup {Main} : Waiting(t) /\ OwnMessages(t)
    BY <1>3, Zenon DEF HandlerReceive, OneAtATime
  <2>2. /\ req # <<>> /\ Len(req) = 1 /\ req[1] = call[t] /\ rep = <<>> /\ req \in Seq(Request)
    BY <1>3, <2>1, Zenon DEF HandlerReceive, OwnMessages, TypeOK
  <2>3. cur' = call[t] /\ req' = <<>> /\ rep' = <<>> /\ hpc' = "exec"
    BY <1>3, <2>2, Tailed, LastTail, Zenon DEF HandlerReceive
  <2>4. OwnMessages(t)'
    BY <1>1, <2>3 DEF OwnMessages, Active, Belongs
  <2> QED BY <1>2, <2>1, <2>4, Zenon
<1>4. CASE HandlerTorn \/ HandlerQuit
  <2>1. UNCHANGED <<req, rep>> /\ req = <<>> /\ ~Active /\ ~Active'
    BY <1>4, Zenon DEF HandlerTorn, HandlerQuit, LeaveLoop, Active, socket
  <2>2. PICK t \in Thread \cup {Main} : Waiting(t) /\ OwnMessages(t)
    BY <2>1, Zenon DEF OneAtATime
  <2>3. OwnMessages(t)'
    BY <1>1, <2>1, <2>2, Zenon DEF OwnMessages, Active
  <2> QED BY <1>2, <2>2, <2>3, Zenon
<1>5. CASE ExecMake \/ ExecSetupRefused \/ ExecActivate \/ ExecHangup \/ ExecClose
  <2>1. /\ hpc = "exec" /\ UNCHANGED <<req, rep, cur>>
        /\ hpc' \in {"reply", "stop"}
    BY <1>5, Zenon DEF ExecMake, ExecSetupRefused, ExecActivate, ExecHangup, ExecClose, socket
  <2>2. answer'.tag = cur.tag /\ answer'.kind # "port"
    <3>1. \/ Answer("void", -1) \/ Answer("exception", -1)
          \/ Answer("int", 0)
      BY <1>5, Zenon DEF ExecMake, ExecSetupRefused, ExecActivate, ExecHangup, ExecClose
    <3> QED BY <3>1 DEF Answer
  <2>3. PICK t \in Thread \cup {Main} : Waiting(t) /\ OwnMessages(t)
    BY <2>1, Zenon DEF OneAtATime, Active
  <2>4. OwnMessages(t)'
    BY <1>1, <2>1, <2>2, <2>3, Zenon DEF OwnMessages, Active, Belongs
  <2> QED BY <1>2, <2>3, <2>4, Zenon
<1>6. CASE ExecSetup
  <2>1. /\ hpc = "exec" /\ UNCHANGED <<req, cur>> /\ cur.op = "setup"
        /\ hpc' \in {"reply", "accept"}
        /\ \/ rep' = rep
           \/ prot = "tcp" /\ rep' = Append(rep, [kind |-> "port", val |-> -1, tag |-> cur.tag])
    BY <1>6, Zenon DEF ExecSetup
  <2>2. answer'.tag = cur.tag /\ answer'.kind # "port"
    <3>1. \E kind \in {"exception", "int"}, val \in {-1, nextId} : Answer(kind, val)
      BY <1>6, Zenon DEF ExecSetup
    <3> QED BY <3>1 DEF Answer
  <2>3. PICK t \in Thread \cup {Main} : Waiting(t) /\ OwnMessages(t)
    BY <2>1, Zenon DEF OneAtATime, Active
  <2>4. cur = call[t] /\ rep = <<>> /\ req = <<>>
    BY <2>1, <2>3, Zenon DEF OwnMessages, Active
  <2>5. \/ rep' = <<>>
        \/ /\ prot = "tcp" /\ Len(rep') = 1 /\ rep'[1].kind = "port"
           /\ \A k \in 1..Len(rep') : rep'[k].tag = cur.tag
    BY <2>1, <2>4
  <2>6. OwnMessages(t)'
    BY <1>1, <2>1, <2>2, <2>4, <2>5 DEF OwnMessages, Active, Belongs
  <2> QED BY <1>2, <2>3, <2>6, Zenon
<1>7. CASE Accept \/ AcceptFail
  <2>1. hpc = "accept" /\ UNCHANGED <<req, rep, cur>> /\ hpc' = "reply"
    BY <1>7, Zenon DEF Accept, AcceptFail, socket
  <2>2. answer'.tag = cur.tag /\ answer'.kind # "port"
    BY <1>7 DEF Accept, AcceptFail, Answer
  <2>3. PICK t \in Thread \cup {Main} : Waiting(t) /\ OwnMessages(t)
    BY <2>1, Zenon DEF OneAtATime, Active
  <2>4. OwnMessages(t)'
    BY <1>1, <2>1, <2>2, <2>3, Zenon DEF OwnMessages, Active, Belongs
  <2> QED BY <1>2, <2>3, <2>4, Zenon
<1>8. CASE StopThreads \/ JoinClose \/ StopEnd \/ Unmake
  <2>1. /\ UNCHANGED <<req, rep, cur, answer>> /\ hpc \in {"stop", "join", "unmake"}
        /\ hpc' \in {"stop", "join", "unmake", "reply", "gone"}
        /\ hpc' = "reply" => cur # NoCall
        /\ hpc' = "gone" => cur = NoCall
    BY <1>8 DEF StopThreads, JoinClose, Closed, StopEnd, Unmake, socket, NoCall
  <2>2. Active' = Active
    BY <2>1, Zenon DEF Active
  <2>3. PICK t \in Thread \cup {Main} : Waiting(t) /\ OwnMessages(t)
    BY <2>1, <2>2, Zenon DEF OneAtATime
  <2>4. OwnMessages(t)'
    BY <1>1, <2>1, <2>2, <2>3, Zenon DEF OwnMessages, Belongs
  <2> QED BY <1>2, <2>3, <2>4, Zenon
<1>9. CASE SendReply
  <2>1. /\ hpc = "reply" /\ UNCHANGED req /\ hpc' \in {"poll", "stop"} /\ cur' = NoCall
        /\ rep' = rep \/ rep' = Append(rep, answer)
    BY <1>9, Zenon DEF SendReply, LeaveLoop
  <2>2. PICK t \in Thread \cup {Main} : Waiting(t) /\ OwnMessages(t)
    BY <2>1, Zenon DEF OneAtATime, Active
  <2>3. /\ req = <<>> /\ Belongs(cur, call[t]) /\ answer.tag = cur.tag /\ answer.kind # "port"
        /\ rep # <<>> => Len(rep) = 1 /\ rep[1].kind = "port"
    BY <2>1, <2>2, Zenon DEF OwnMessages, Active
  <2>4. rep \in Seq(Reply) /\ answer \in Reply
    BY Zenon DEF TypeOK
  <2>5. CASE rep' = rep
    <3>1. OwnMessages(t)'
      BY <1>1, <2>1, <2>2, <2>3, <2>5, Zenon DEF OwnMessages, Active
    <3> QED BY <1>2, <2>2, <3>1, Zenon
  <2>6. CASE rep' = Append(rep, answer)
    <3>1. /\ Len(rep') = Len(rep) + 1 /\ rep'[Len(rep) + 1] = answer
          /\ \A k \in 1..Len(rep) : rep'[k] = rep[k]
      BY <2>4, <2>6, Appended, SMTT(30)
    <3>2. \A k \in 1..Len(rep') : rep'[k].tag = call[t].tag
      BY <2>2, <2>3, <2>4, <3>1 DEF OwnMessages, Belongs
    <3>3. rep # <<>> => Len(rep) = 1 /\ rep'[1].kind = "port" /\ call[t].op = "setup"
                       /\ prot = "tcp"
      BY <2>2, <2>3, <3>1 DEF OwnMessages
    <3>4. rep = <<>> => Len(rep') = 1 /\ rep'[1].kind # "port"
      BY <2>3, <3>1
    <3>5. OwnMessages(t)'
      BY <1>1, <2>1, <2>3, <3>2, <3>3, <3>4, Zenon DEF OwnMessages, Active
    <3> QED BY <1>2, <2>2, <3>5, Zenon
  <2> QED BY <2>1, <2>5, <2>6, Zenon
<1>10. CASE CloseThrows \/ JoinAgain
  <2>1. /\ UNCHANGED <<req, rep, cur>> /\ hpc = "join" /\ hpc' \in {"stop", "reply", "crashed"}
        /\ hpc' = "reply" => cur # NoCall
    BY <1>10, ThrowSteps, Zenon DEF Closed
  <2>2. answer' = answer \/ (answer'.tag = cur.tag /\ answer'.kind # "port")
    BY <1>10, ThrowSteps, AnswerType, Zenon
  <2>3. Active' => Active
    BY <2>1, Zenon DEF Active
  <2>4. PICK t \in Thread \cup {Main} : Waiting(t) /\ OwnMessages(t)
    BY <2>1, <2>3, Zenon DEF OneAtATime
  <2>5. OwnMessages(t)'
    BY <1>1, <2>1, <2>2, <2>3, <2>4, Zenon DEF OwnMessages, Belongs
  <2> QED BY <1>2, <2>4, <2>5, Zenon
<1> QED BY <1>3, <1>4, <1>5, <1>6, <1>7, <1>8, <1>9, <1>10, Zenon DEF Handler, Exec

(* So every step keeps the messages those of the call that waits. *)
LEMMA NextAlone ==
  ASSUME TypeOK, Waits, Handling, OneAtATime, [Next]_vars
  PROVE  OneAtATime'
<1>1. CASE (\E s \in Id, r \in Role : Worker(s, r)) \/ Listener \/ UNCHANGED vars
  BY <1>1, QuietFrame DEF OneAtATime, OwnMessages, Active, Belongs, Waiting, client, history
<1> QED BY <1>1, ClientAlone, HandlerAlone, Zenon DEF Next, Over

-----------------------------------------------------------------------------
(* The streams that the application holds. *)

(* While a thread waits, the others have no call. *)
LEMMA OthersIdle ==
  ASSUME TypeOK, Waits, NEW t \in Thread \cup {Main}, Waiting(t)
  PROVE  \A u \in Thread : u # t => call[u] = NoCall /\ call[u].op = "none"
<1>1. NoCall.op = "none"
  BY Zenon DEF NoCall
<1>2. \A u \in Thread : u # t => call[u] = NoCall
  BY OneWaiter, Zenon DEF Waiting
<1> QED BY <1>1, <1>2, Zenon

(* The application holds the ids that the server gave it. *)
LEMMA ClientHeld ==
  ASSUME TypeOK, Waits, Handling, OneAtATime, HeldInStep, Client
  PROVE  HeldInStep'
<1>1. UNCHANGED <<prot, hpc, cur, answer, done, entry>>
  BY ClientFrame, Zenon
<1> SUFFICES ASSUME ~abandoned', ~done, cpc' = "open"
             PROVE  HeldInStep'
  BY <1>1, Zenon DEF HeldInStep
<1>2. hpc \in {"stop", "join"} => Active
  BY DEF Handling, Active, NoCall
<1>3. NoCall.op = "none"
  BY Zenon DEF NoCall
<1>4. ASSUME NEW t \in Thread, NEW op \in {"setup", "activate", "close"},
             NEW s \in Id \cup {-1}, Call(t, op, s)
      PROVE  HeldInStep'
  <2>1. /\ cpc = "open" /\ UNCHANGED <<rep, held, abandoned>>
        /\ \A u \in Thread \cup {Main} : ~Waiting(u)
    BY <1>4, Zenon DEF Call, Waits, NoThread, history
  <2>2. req = <<>> /\ rep = <<>> /\ ~Active
    BY <2>1, NobodyWaits, Zenon
  <2>3. held \subseteq entry
    BY <1>3, <2>1, Zenon DEF HeldInStep, Waiting
  <2>4. hpc \notin {"stop", "join", "reply"}
    BY <1>2, <2>2, Zenon DEF Active
  <2> QED BY <1>1, <2>1, <2>2, <2>3, <2>4 DEF HeldInStep
<1>5. ASSUME NEW t \in Thread, Receive(t) PROVE HeldInStep'
  <2>1. /\ Waiting(t) /\ rep # <<>> /\ ~(call[t].op = "setup" /\ prot = "tcp")
        /\ UNCHANGED <<abandoned, cpc>> /\ call' = [call EXCEPT ![t] = NoCall]
    BY <1>5, Zenon DEF Receive, Finish
  <2>2. /\ OwnMessages(t) /\ Head(rep) = rep[1]
        /\ Head(rep).kind # "port" => Tail(rep) = <<>> /\ req = <<>> /\ ~Active
    BY <2>1, ReplyAlone, Zenon
  <2>3. rep' = <<>> /\ req' = <<>> /\ ~Active
    BY <1>5, <2>1, <2>2, Zenon DEF Receive, OwnMessages
  <2>4. \A u \in Thread : call'[u].op = "none" /\ (u # t => call[u].op = "none")
    BY <1>3, <2>1, OthersIdle, Zenon DEF TypeOK
  <2>5. 1 \in 1..Len(rep)
    BY <2>1, Tailed DEF TypeOK
  <2>6. /\ \A s \in held : s \in entry \/ (call[t].op = "close" /\ call[t].id = s)
        /\ call[t].op = "close" /\ Head(rep).kind = "exception" => call[t].id \in entry
        /\ call[t].op \in {"setup", "finish"} /\ Head(rep).kind = "int" => Head(rep).val \in entry
    BY <2>1, <2>2, <2>4, <2>5 DEF HeldInStep
  <2>7. held' \subseteq entry
    <3>1. held' = Keeps(call[t], Head(rep)) \/ (held' = held /\ call[t].op = "setup")
      BY <1>5, Zenon DEF Receive
    <3> QED BY <2>6, <3>1, Zenon DEF Keeps
  <2>8. hpc \notin {"exec", "stop", "join", "reply"}
    BY <1>2, <2>3, Zenon DEF Active
  <2> QED BY <1>1, <2>3, <2>4, <2>7, <2>8, Zenon DEF HeldInStep
<1>6. ASSUME NEW t \in Thread, ReceivePort(t) PROVE HeldInStep'
  <2>1. /\ Waiting(t) /\ rep # <<>> /\ call[t].op = "setup"
        /\ UNCHANGED <<cpc, req, held>> /\ rep' = Tail(rep) /\ ~abandoned
        /\ Head(rep).kind = "port" => hpc = "accept"
    BY <1>6, PortTaken, Zenon DEF ReceivePort
  <2>2. /\ OwnMessages(t) /\ Head(rep) = rep[1]
        /\ Head(rep).kind # "port" => Tail(rep) = <<>> /\ req = <<>> /\ ~Active
    BY <2>1, ReplyAlone, Zenon
  <2>3. req' = <<>> /\ rep' = <<>> /\ hpc \notin {"exec", "stop", "join", "reply"}
    <3>1. CASE Head(rep).kind = "port"
      <4>1. Active /\ Len(rep) = 1 /\ req = <<>>
        BY <2>1, <2>2, <3>1, Zenon DEF Active, OwnMessages
      <4>2. Tail(rep) = <<>>
        BY <4>1, LastTail, Zenon DEF TypeOK
      <4> QED BY <2>1, <3>1, <4>1, <4>2, Zenon
    <3>2. CASE Head(rep).kind # "port"
      BY <1>2, <2>1, <2>2, <3>2, Zenon DEF Active
    <3> QED BY <3>1, <3>2, Zenon
  <2>4. \A u \in Thread : call[u].op # "close"
    BY <1>3, <2>1, OthersIdle, Zenon
  <2>5. held \subseteq entry
    BY <2>1, <2>4, Zenon DEF HeldInStep
  <2>6. \A k \in 1..Len(rep') : FALSE
    <3>1. Len(rep') = 0
      BY <2>3, Zenon
    <3> QED BY <3>1
  <2>7. req' = <<>> /\ hpc' \notin {"exec", "stop", "join", "reply"}
    BY <1>1, <2>3, Zenon
  <2>8. held' \subseteq entry'
    BY <1>1, <2>1, <2>5, Zenon
  <2> QED BY <2>6, <2>7, <2>8, Zenon DEF HeldInStep
<1>7. CASE MainReceive
  <2>1. /\ Waiting(Main) /\ rep # <<>> /\ rep' = Tail(rep) /\ call[Main].op # "setup"
        /\ cpc = "make" /\ req' = req /\ held' = held /\ ~abandoned
        /\ call' = [call EXCEPT ![Main] = NoCall]
    BY <1>7 DEF MainReceive, Finish, Waits, After
  <2>2. /\ OwnMessages(Main) /\ Head(rep) = rep[1]
        /\ Head(rep).kind # "port" => Tail(rep) = <<>> /\ req = <<>> /\ ~Active
    BY <2>1, ReplyAlone, Zenon
  <2>3. req' = <<>> /\ rep' = <<>> /\ ~Active
    BY <2>1, <2>2, Zenon DEF OwnMessages
  <2>4. held' = {} /\ hpc \notin {"exec", "stop", "join", "reply"}
    BY <1>2, <2>1, <2>3, Zenon DEF Waits, Active
  <2> QED BY <1>1, <2>3, <2>4 DEF HeldInStep
<1>8. ConnLost => cpc' # "open"
  BY Zenon DEF ConnLost
<1>9. (\E t \in Thread : GiveUp(t)) \/ MainGiveUp => abandoned'
  BY Zenon DEF GiveUp, MainGiveUp
<1>10. Delete => cpc' # "open"
  BY Zenon DEF Delete
<1> QED BY <1>4, <1>5, <1>6, <1>7, <1>8, <1>9, <1>10, Zenon DEF Client

(* The server forgets a stream only when its own close asks for it. *)
LEMMA HandlerHeld ==
  ASSUME TypeOK, StreamInv, Handling, Waits, DeviceMade, OneAtATime, HeldInStep, Handler
  PROVE  HeldInStep'
<1>1. UNCHANGED <<prot, call, cpc, held, abandoned>>
  BY HandlerFrame, Zenon DEF client
<1>2. NoCall.op = "none"
  BY Zenon DEF NoCall
<1> SUFFICES ASSUME ~abandoned, ~done', cpc = "open"
             PROVE  HeldInStep'
  BY <1>1, Zenon DEF HeldInStep
<1>3. ASSUME NEW t \in Thread \cup {Main}, Waiting(t) PROVE
        /\ t \in Thread /\ call[t].op \in {"setup", "finish", "activate", "close"}
        /\ call[t].op = "close" => call[t].id \in held
        /\ \A u \in Thread : u # t => call[u].op = "none"
  BY <1>2, <1>3, OthersIdle, Zenon DEF Waits
<1>4. CASE HandlerReceive
  <2>1. req # <<>> /\ UNCHANGED <<rep, entry, done>> /\ hpc' = "exec"
    BY <1>4, Zenon DEF HandlerReceive
  <2> QED BY <1>1, <2>1, Zenon DEF HeldInStep
<1>5. CASE HandlerTorn \/ HandlerQuit
  <2>1. HandlerTorn => hpc' = "recv" /\ req = <<>> /\ UNCHANGED <<req, rep, entry, done>>
    BY Zenon DEF HandlerTorn, socket
  <2>2. HandlerQuit => done'
    BY Zenon DEF HandlerQuit, LeaveLoop
  <2>3. CASE HandlerTorn
    <3>1. /\ UNCHANGED <<call, cpc, held, abandoned, rep, entry, done>> /\ req' = <<>>
          /\ hpc' \notin {"exec", "stop", "join", "reply"}
      BY <1>1, <2>1, <2>3, Zenon
    <3> QED BY <3>1, ZenonT(30) DEF HeldInStep
  <2> QED BY <1>5, <2>2, <2>3, Zenon
<1>6. CASE hpc = "exec" /\ ~HandlerReceive /\ ~HandlerQuit /\ ~HandlerTorn
  <2>1. PICK t \in Thread \cup {Main} : Waiting(t) /\ OwnMessages(t)
    BY <1>6, Zenon DEF OneAtATime, Active
  <2>2. cur = call[t] /\ rep = <<>> /\ req = <<>>
    BY <1>6, <2>1, Zenon DEF OwnMessages, Active
  <2>3. /\ t \in Thread /\ call[t].op \in {"setup", "finish", "activate", "close"}
        /\ call[t].op = "close" => call[t].id \in held
        /\ \A u \in Thread : u # t => call[u].op = "none"
    BY <1>3, <2>1, Zenon
  <2>4. req' = req /\ done' = done /\ cur.op \in {"setup", "activate", "close"}
    BY <1>6, <2>2, <2>3, ThrowSteps, Zenon DEF Handler, Exec, ExecMake, ExecSetupRefused, ExecSetup, Accept, AcceptFail,
       ExecActivate, ExecHangup, ExecClose, StopThreads, JoinClose, StopEnd, Unmake,
       SendReply, socket
  <2>5. held \subseteq entry
    BY <1>6, <2>4, Zenon DEF HeldInStep
  <2>6. CASE ExecSetupRefused
    <3>1. UNCHANGED <<rep, entry>> /\ hpc' = "reply" /\ answer'.kind = "exception"
      BY <2>6, AnswerType, Zenon DEF ExecSetupRefused, socket
    <3>2. \A u \in Thread : call[u].op # "close"
      BY <2>2, <2>3, <2>6, Zenon DEF ExecSetupRefused
    <3> QED BY <1>1, <2>2, <2>4, <2>5, <3>1, <3>2, Zenon DEF HeldInStep
  <2>7. CASE ExecSetup
    <3>1. /\ entry \subseteq entry' /\ hpc' \in {"reply", "accept"}
          /\ answer'.kind = "exception" \/ (answer'.val = nextId /\ nextId \in entry')
          /\ rep' = rep \/ rep' = Append(rep, [kind |-> "port", val |-> -1, tag |-> cur.tag])
      BY <2>7 DEF ExecSetup, Answer
    <3>2. \A u \in Thread : call[u].op # "close"
      BY <2>2, <2>3, <2>7, Zenon DEF ExecSetup
    <3>3. \A k \in 1..Len(rep') : rep'[k].kind # "int"
      BY <2>2, <3>1
    <3> QED BY <1>1, <2>2, <2>4, <2>5, <3>1, <3>2, <3>3, Zenon DEF HeldInStep
  <2>8. CASE ExecActivate
    <3>1. UNCHANGED <<rep, entry>> /\ hpc' = "reply"
      BY <2>8, Zenon DEF ExecActivate, socket
    <3>2. \A u \in Thread : call[u].op \in {"activate", "none"}
      BY <2>2, <2>3, <2>8, Zenon DEF ExecActivate
    <3> QED BY <1>1, <2>2, <2>4, <2>5, <3>1, <3>2, Zenon DEF HeldInStep
  <2>9. CASE ExecClose
    <3>1. call[t].op = "close" /\ \A u \in Thread : call[u].op \in {"close", "none"}
      BY <2>2, <2>3, <2>9, Zenon DEF ExecClose
    <3>2. cur.op = "close" /\ cur.id \in entry
      BY <2>2, <2>3, <2>5, <3>1, Zenon
    <3>3. UNCHANGED <<rep, entry>> /\ hpc' = "stop" /\ answer'.kind = "void"
      BY <2>9, <3>2, AnswerType, Zenon DEF ExecClose, socket
    <3> QED BY <1>1, <2>2, <2>4, <2>5, <3>1, <3>3, Zenon DEF HeldInStep
  <2> QED BY <1>6, <2>4, <2>6, <2>7, <2>8, <2>9, ThrowSteps, Zenon
          DEF Handler, Exec, ExecMake, Accept, AcceptFail, ExecHangup, StopThreads, JoinClose,
              StopEnd, Unmake, SendReply
<1>7. CASE Accept \/ AcceptFail
  <2>1. hpc = "accept" /\ UNCHANGED <<req, rep, entry, done>> /\ hpc' = "reply" /\ cur.op = "setup"
    BY <1>7, Zenon DEF Accept, AcceptFail, Handling, socket
  <2>2. PICK t \in Thread \cup {Main} : Waiting(t) /\ OwnMessages(t)
    BY <2>1, Zenon DEF OneAtATime, Active
  <2>3. call[t].op \in {"setup", "finish"}
    BY <2>1, <2>2, Zenon DEF OwnMessages, Active, Belongs
  <2>4. \A u \in Thread : call[u].op # "close"
    BY <1>3, <2>2, <2>3, Zenon
  <2>5. answer'.kind = "exception" \/ answer'.val \in entry
    BY <1>7 DEF Accept, AcceptFail, Answer, StreamInv
  <2> QED BY <1>1, <2>1, <2>4, <2>5, Zenon DEF HeldInStep
<1>8. CASE StopThreads \/ JoinClose \/ StopEnd \/ Unmake
  <2>1. /\ UNCHANGED <<req, rep, cur, answer, done>> /\ hpc \in {"stop", "join", "unmake"}
        /\ hpc' \in {"stop", "join", "unmake", "reply", "gone"}
    BY <1>8, Zenon DEF StopThreads, JoinClose, Closed, StopEnd, Unmake, socket
  <2>2. cur.op = "close" /\ hpc \in {"stop", "join"} /\ cur # NoCall
    BY <1>2, <2>1, Zenon DEF Handling, DeviceMade
  <2>3. PICK t \in Thread \cup {Main} : Waiting(t) /\ OwnMessages(t)
    BY <2>2, Zenon DEF OneAtATime, Active
  <2>4. /\ call[t].op = "close" /\ call[t].id = cur.id /\ t \in Thread
        /\ \A u \in Thread : call[u].op \in {"close", "none"}
    BY <1>3, <2>2, <2>3, Zenon DEF OwnMessages, Active, Belongs
  <2>5. entry' = entry \/ entry' = entry \ {cur.id}
    BY <1>8, <2>2, Zenon DEF StopThreads, JoinClose, Closed, StopEnd, Unmake, Handling
  <2>6. req = <<>> /\ rep = <<>> /\ answer.kind = "void"
    BY <2>2, <2>1, <2>3, <2>4, Zenon DEF OwnMessages, Active, HeldInStep
  <2>7. \A s \in held : s \in entry' \/ (call[t].op = "close" /\ call[t].id = s)
    <3>1. \A s \in held : s \in entry \/ \E u \in Thread : call[u].op = "close" /\ call[u].id = s
      BY <2>1, Zenon DEF HeldInStep
    <3>2. \A u \in Thread : call[u].op = "close" => u = t
      BY <1>3, <2>3, Zenon
    <3> QED BY <2>4, <2>5, <3>1, <3>2, Zenon
  <2>8. /\ req' = <<>> /\ answer'.kind = "void" /\ hpc' # "exec"
        /\ \A k \in 1..Len(rep') : FALSE
    BY <2>1, <2>6
  <2> QED BY <1>1, <2>4, <2>7, <2>8, ZenonT(30) DEF HeldInStep
<1>9. CASE SendReply
  <2>1. /\ hpc = "reply" /\ UNCHANGED <<req, entry, done, answer>> /\ hpc' = "poll"
        /\ rep' = rep \/ rep' = Append(rep, answer)
    BY <1>9, Zenon DEF SendReply, LeaveLoop
  <2>2. rep \in Seq(Reply) /\ answer \in Reply /\ Len(rep) \in Nat
    BY DEF TypeOK
  <2>3. rep' # rep =>
          /\ Len(rep') = Len(rep) + 1 /\ rep'[Len(rep) + 1] = answer
          /\ \A k \in 1..Len(rep) : rep'[k] = rep[k]
    BY <2>1, <2>2, Appended
  <2>4. \A k \in 1..Len(rep') : rep'[k] = answer \/ (k \in 1..Len(rep) /\ rep'[k] = rep[k])
    BY <2>2, <2>3
  <2>5. \A t \in Thread, k \in 1..Len(rep') :
          /\ call[t].op = "close" /\ rep'[k].kind = "exception" => call[t].id \in entry
          /\ call[t].op \in {"setup", "finish"} /\ rep'[k].kind = "int" => rep'[k].val \in entry
    BY <1>1, <2>1, <2>4, ZenonT(30) DEF HeldInStep
  <2> QED BY <1>1, <2>1, <2>5, ZenonT(30) DEF HeldInStep
<1>10. CASE CloseThrows \/ JoinAgain
  <2>1. /\ UNCHANGED <<req, rep, cur, done>> /\ hpc = "join"
        /\ hpc' \in {"stop", "reply", "crashed"}
    BY <1>10, ThrowSteps, Zenon DEF Closed
  <2>2. cur.op = "close" /\ cur # NoCall /\ todo \subseteq {cur.id} /\ todo \subseteq entry
    BY <1>2, <2>1, Zenon DEF Handling, DeviceMade, StreamInv
  <2>3. PICK t \in Thread \cup {Main} : Waiting(t) /\ OwnMessages(t)
    BY <2>1, <2>2, Zenon DEF OneAtATime, Active
  <2>4. /\ call[t].op = "close" /\ call[t].id = cur.id /\ t \in Thread
        /\ \A u \in Thread : u # t => call[u].op = "none"
    BY <1>3, <2>1, <2>2, <2>3, Zenon DEF OwnMessages, Active, Belongs
  <2>5. req = <<>> /\ rep = <<>> /\ answer.kind = "void"
    BY <2>1, <2>2, <2>3, <2>4, Zenon DEF OwnMessages, Active, HeldInStep
  <2>6. \/ entry' = entry \ {cur.id} /\ hpc' = "stop" /\ answer' = answer
        \/ entry' = entry /\ hpc' = "crashed"
        \/ entry' = entry /\ hpc' = "reply" /\ cur.id \in entry /\ answer'.kind = "exception"
    BY <1>10, <2>2, ThrowSteps, AnswerType, Zenon DEF Closed
  <2>7. \A s \in held : s \in entry' \/ s = call[t].id
    <3>1. \A s \in held : s \in entry \/ \E u \in Thread : call[u].op = "close" /\ call[u].id = s
      BY <2>1, Zenon DEF HeldInStep
    <3> QED BY <2>4, <2>6, <3>1, Zenon
  <2>8. req' = <<>> /\ hpc' # "exec" /\ \A k \in 1..Len(rep') : FALSE
    BY <2>1, <2>5
  <2> QED BY <1>1, <2>1, <2>4, <2>5, <2>6, <2>7, <2>8, ZenonT(30) DEF HeldInStep
<1> QED BY <1>4, <1>5, <1>6, <1>7, <1>8, <1>9, <1>10, Zenon
        DEF Handler, Exec, ExecMake, ExecSetupRefused, ExecSetup, ExecActivate, ExecHangup, ExecClose

(* So every step keeps the two tables in step. *)
LEMMA NextHeld ==
  ASSUME TypeOK, StreamInv, Handling, Waits, DeviceMade, OneAtATime, HeldInStep, [Next]_vars
  PROVE  HeldInStep'
<1>1. CASE (\E s \in Id, r \in Role : Worker(s, r)) \/ UNCHANGED vars
  <2>1. UNCHANGED <<req, rep, client, hpc, answer, entry, history, done>>
    BY <1>1, WorkerFrame, Zenon DEF vars, socket, handler
  <2> QED BY <2>1, Zenon DEF HeldInStep, client, history
<1>2. CASE Listener
  <2>1. done => done'
    BY <1>2, ListenerFrame, Zenon
  <2> QED BY <1>2, <2>1, ListenerFrame DEF HeldInStep, client, history
<1> QED BY <1>1, <1>2, ClientHeld, HandlerHeld, Zenon DEF Next, Over

-----------------------------------------------------------------------------
(* The session, step by step. *)
LEMMA InitSession == Init => SessionInv
<1> SUFFICES ASSUME Init PROVE SessionInv
  BY Zenon
<1>1. FirstCall \in Request /\ FirstCall # NoCall /\ NoCall.op = "none"
  BY Zenon DEF FirstCall, Request, NoCall, Op
<1>2. TypeOK
  <2>1. FlagsOK
    BY Zenon DEF Init, FlagsOK
  <2>2. answer \in Reply
    BY Zenon DEF Init, Reply
  <2> QED BY <1>1, <2>1, <2>2 DEF Init, TypeOK, Main, NoThread, WorkerState
<1>3. req = <<FirstCall>> /\ Len(req) = 1 /\ req[1] = FirstCall /\ rep = <<>> /\ Len(rep) = 0
  BY Zenon DEF Init
<1>4. Handling /\ Bounded
  BY <1>3 DEF Init, Handling, Bounded, NoCall
<1>5. Waits
  BY Zenon DEF Init, Waits, Waiting, Main, FirstCall
<1>6. Numbered
  BY <1>3 DEF Init, Numbered, FirstCall
<1>7. InOrder /\ DeviceMade
  BY <1>1, <1>3 DEF Init, InOrder, DeviceMade, FirstCall
<1>8. OneAtATime
  <2>1. Waiting(Main) /\ OwnMessages(Main)
    BY <1>1, <1>3 DEF Init, Waiting, OwnMessages, Active, Main
  <2> QED BY <2>1, Zenon DEF Init, OneAtATime
<1>9. HeldInStep
  BY Zenon DEF Init, HeldInStep
<1> QED BY <1>2, <1>4, <1>5, <1>6, <1>7, <1>8, <1>9, InitStreams, Zenon DEF SessionInv

(* Every step keeps the session in step. *)
LEMMA NextSession == SessionInv /\ [Next]_vars => SessionInv'
<1> SUFFICES ASSUME SessionInv, [Next]_vars PROVE SessionInv'
  BY Zenon
<1>1. TypeOK'
  BY ClientKeepsTypes, HandlerKeepsTypes, OthersKeepTypes, Zenon DEF SessionInv, Next, Over
<1> QED BY <1>1, NextStreams, NextHandling, NextWaits, NextNumbered, NextBounded, NextInOrder,
           NextDeviceMade, NextAlone, NextHeld, Zenon
        DEF SessionInv

(* The calls, the handler and the device stay in step through every         *)
(* interleaving of client threads, handler, workers, listener and loss.     *)
THEOREM SessionInStep == Spec => []SessionInv
  BY InitSession, NextSession, PTL DEF Spec

(* No worker of ServerStreamData outlives its stream, whenever the stream   *)
(* is closed, the device deleted, the connection lost or the server stopped. *)
THEOREM WorkersStayAlive == Spec => []WorkersAlive
<1>1. SessionInv => WorkersAlive
  BY Zenon DEF SessionInv, StreamInv
<1> QED BY <1>1, SessionInStep, PTL

(* A handler that ends leaves nothing behind but the streams whose           *)
(* SETUP_STREAM failed half-way, also after a closeStream that threw.       *)
THEOREM SessionReleasesAll == Spec => []AllReleased
<1>1. SessionInv => AllReleased
  <2>1. SessionInv /\ hpc = "gone" => ~dev /\ devOpen \subseteq orphaned
    BY Zenon DEF SessionInv, StreamInv
  <2> QED BY <2>1, Zenon DEF AllReleased
<1> QED BY <1>1, SessionInStep, PTL

(* stopThreads joins no deleted thread and closeStream no closed stream, and *)
(* the destructor does not bring the server down, unless the device threw   *)
(* from closeStream.                                                        *)
THEOREM NothingClosedTwice == Spec => []ClosedOnce
<1>1. SessionInv => ClosedOnce
  BY Zenon DEF SessionInv, StreamInv, NoneDangling, TypeOK, ClosedOnce, Dangling
<1> QED BY <1>1, SessionInStep, PTL

(* The device outlives the streams set up on it, for any number of threads  *)
(* and calls, although SETUP_STREAM does not check that there is one.       *)
THEOREM DeviceOutlivesStreams == Spec => []DeviceOutlives
<1>1. SessionInv => DeviceOutlives
  BY Zenon DEF SessionInv, DeviceMade, DeviceOutlives
<1> QED BY <1>1, SessionInStep, PTL

(* Without a call that was given up, no call takes the reply to another.    *)
THEOREM RepliesMatch == Spec => []OwnReply
<1>1. SessionInv => OwnReply
  BY Zenon DEF SessionInv, OneAtATime, OwnReply
<1> QED BY <1>1, SessionInStep, PTL

(* Without a call that was given up, the server knows every stream that the *)
(* application holds and is not closing.                                    *)
THEOREM HeldStreamsKnown == Spec => []HeldIsKnown
<1>1. SessionInv => HeldIsKnown
  <2> SUFFICES ASSUME SessionInv, ~abandoned, cpc = "open", ~done, NEW s \in held \ Busy
               PROVE  s \in entry
    BY Zenon DEF HeldIsKnown
  <2>1. ASSUME NEW t \in Thread, call[t].op = "close", call[t].id = s PROVE FALSE
    <3>1. NoCall.op = "none"
      BY Zenon DEF NoCall
    <3>2. Waiting(t)
      BY <2>1, <3>1, Zenon DEF Waiting
    <3> QED BY <2>1, <3>2, Zenon DEF Busy
  <2> QED BY <2>1, Zenon DEF SessionInv, HeldInStep
<1> QED BY <1>1, SessionInStep, PTL
=============================================================================
