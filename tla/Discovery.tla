------------------------------ MODULE Discovery ------------------------------
(***************************************************************************)
(* Discovery of SoapyRemote servers by SSDP                                *)
(* (common/SoapySSDPEndpoint.cpp).  Servers and clients run the same       *)
(* endpoint: a thread that answers searches, keeps a table of the servers  *)
(* it hears of, each until its entry expires, and is meant to search and   *)
(* to notify again from time to time.                                      *)
(*                                                                         *)
(* Each endpoint has one interface, and the services one IP version.  The  *)
(* clock counts in units of which a message under way takes less than one; *)
(* a message that is not received within its unit is lost.                 *)
(***************************************************************************)
EXTENDS Integers, FiniteSets, Functions

CONSTANTS
    Servers, Clients,        \* the endpoints that register a service, that search
    TRIGGER_TIMEOUT_SECONDS, CACHE_DURATION_SECONDS,
    MaxTime                  \* bound: the clock

Endpoints == Servers \cup Clients

ASSUME DiscoveryAssumption ==
    /\ TRIGGER_TIMEOUT_SECONDS \in Nat \ {0}
    /\ CACHE_DURATION_SECONDS \in Nat /\ CACHE_DURATION_SECONDS > TRIGGER_TIMEOUT_SECONDS
    /\ MaxTime \in Nat

VARIABLES
    now,              \* the clock
    network,          \* messages under way, one copy for each receiver
    thread,           \* handlerLoop of each endpoint
    usnToURL,         \* the servers an endpoint knows, and when they expire
    service,          \* the endpoints that registered theirs; periodicNotifyEnabled
    searching,        \* the endpoints with periodicSearchEnabled
    lastTimeSearch, lastTimeNotify,
    polled,           \* the endpoints whose loop ran since the last tick
    ended,            \* history: when the thread of an endpoint ended
    loss              \* history: a message was lost

endpoint == <<thread, usnToURL, service, searching, lastTimeSearch, lastTimeNotify>>
vars == <<now, network, endpoint, polled, ended, loss>>

Looping(e) == thread[e] = "loop"

Kinds == {"search", "response", "alive", "byebye"}
Messages == [kind : Kinds, from : Endpoints, to : Endpoints]

\* What is sent to the group reaches the endpoints that joined it, the sender among
\* them: setupSocket leaves multicastJoin its default, IP_MULTICAST_LOOP.
Multicast(e, kind) ==
    {[kind |-> kind, from |-> e, to |-> r] : r \in {r \in Endpoints : Looping(r)}}

\* sendNotifyHeader does nothing without a service.
Notify(e, kind) == IF e \in service THEN Multicast(e, kind) ELSE {}

Init ==
    /\ now = 0 /\ network = {} /\ polled = {} /\ loss = FALSE
    /\ thread = [e \in Endpoints |-> "none"]
    /\ usnToURL = [e \in Endpoints |-> <<>>]
    /\ service = {} /\ searching = {}
    /\ lastTimeSearch = [e \in Endpoints |-> 0]
    /\ lastTimeNotify = [e \in Endpoints |-> 0]
    /\ ended = [e \in Endpoints |-> 0]

-------------------------------------------------------------------------------
(* The calls.                                                               *)

\* The constructor joins the group and starts the thread.
Construct(e) ==
    /\ thread[e] = "none"
    /\ thread' = [thread EXCEPT ![e] = "loop"]
    /\ polled' = polled \cup {e}
    /\ UNCHANGED <<now, network, usnToURL, service, searching, lastTimeSearch, lastTimeNotify, ended, loss>>

registerService(e) ==
    /\ e \in Servers \ service /\ Looping(e)
    /\ service' = service \cup {e}
    /\ network' = network \cup Multicast(e, "alive")
    /\ lastTimeNotify' = [lastTimeNotify EXCEPT ![e] = now]
    /\ UNCHANGED <<now, thread, usnToURL, searching, lastTimeSearch, polled, ended, loss>>

\* The first call searches, and gives up the mutex to wait for replies.  What it
\* does then, and all that later calls do, is to read the table.
getServerURLs(e) ==
    /\ e \in Clients \ searching /\ Looping(e)
    /\ searching' = searching \cup {e}
    /\ network' = network \cup Multicast(e, "search")
    /\ lastTimeSearch' = [lastTimeSearch EXCEPT ![e] = now]
    /\ UNCHANGED <<now, thread, usnToURL, service, lastTimeNotify, polled, ended, loss>>

-------------------------------------------------------------------------------
(* handlerLoop: one iteration, under the mutex, with the message that was   *)
(* received, if one was.                                                    *)

\* Mutant: the announcement of a server that is known does not extend its entry.
Registered_Once(e, m) ==
    IF m.kind = "byebye" THEN Restrict(usnToURL[e], DOMAIN usnToURL[e] \ {m.from})
    ELSE IF m.kind = "search" \/ m.from \in DOMAIN usnToURL[e] THEN usnToURL[e]
    ELSE [s \in DOMAIN usnToURL[e] \cup {m.from} |->
             IF s = m.from THEN now + CACHE_DURATION_SECONDS ELSE usnToURL[e][s]]

\* handleRegisterService.
Registered(e, m) ==
    IF m.kind = "byebye" THEN Restrict(usnToURL[e], DOMAIN usnToURL[e] \ {m.from})
    ELSE IF m.kind = "search" THEN usnToURL[e]
    ELSE [s \in DOMAIN usnToURL[e] \cup {m.from} |->
             IF s = m.from THEN now + CACHE_DURATION_SECONDS ELSE usnToURL[e][s]]

\* handleSearchRequest: the answer, and a notification for everybody else.
SearchReplies(e, m) ==
    IF m.kind = "search" /\ e \in service
    THEN {[kind |-> "response", from |-> e, to |-> m.from]} \cup Multicast(e, "alive")
    ELSE {}

\* Mutant: an entry that is about to expire is kept.
Fresh_Kept(expires) == expires >= now

\* Whether an entry stays in the table.
Fresh(expires) == expires > now

\* Whether the time of the last search or notification triggers the next.
Triggered(lastTime) == lastTime > now + TRIGGER_TIMEOUT_SECONDS

Iterate(e, received) ==
    /\ Looping(e)
    /\ LET table == IF received = {} THEN usnToURL[e]
                    ELSE Registered(e, CHOOSE m \in received : TRUE)
           replies == UNION {SearchReplies(e, m) : m \in received}
           notified == IF replies # {} THEN now ELSE lastTimeNotify[e]
           search == e \in searching /\ Triggered(lastTimeSearch[e])
           notify == e \in service /\ Triggered(notified)
       IN /\ usnToURL' = [usnToURL EXCEPT ![e] =
                             Restrict(table, {s \in DOMAIN table : Fresh(table[s])})]
          /\ network' = (network \ received) \cup replies
                           \cup (IF search THEN Multicast(e, "search") ELSE {})
                           \cup (IF notify THEN Notify(e, "alive") ELSE {})
          /\ lastTimeSearch' = [lastTimeSearch EXCEPT ![e] = IF search THEN now ELSE @]
          /\ lastTimeNotify' = [lastTimeNotify EXCEPT ![e] = IF notify THEN now ELSE notified]
    /\ polled' = polled \cup {e}
    /\ UNCHANGED <<now, thread, service, searching, ended, loss>>

\* select reports a message, or its timeout.
Receive(e) == \E m \in network : m.to = e /\ Iterate(e, {m})
Poll(e) == e \notin polled /\ Iterate(e, {})

\* Nobody reads any more what is under way to e.
Leave(e, how, goodbye) ==
    /\ thread' = [thread EXCEPT ![e] = how]
    /\ network' = {m \in network \cup goodbye : m.to # e}
    /\ ended' = [ended EXCEPT ![e] = now]
    /\ UNCHANGED <<now, usnToURL, service, searching, lastTimeSearch, polled, loss>>

\* The destructor sets done; the thread says goodbye and is joined.
Destruct(e) ==
    /\ Looping(e)
    /\ lastTimeNotify' = [lastTimeNotify EXCEPT ![e] = IF e \in service THEN now ELSE @]
    /\ Leave(e, "ended", Notify(e, "byebye"))

\* The process is killed.
Crash(e) ==
    /\ Looping(e) /\ Leave(e, "ended", {})
    /\ UNCHANGED lastTimeNotify

\* select or recvfrom fails: the thread returns, the rest of the endpoint stays.
LoopFails(e) ==
    /\ Looping(e) /\ Leave(e, "failed", {})
    /\ UNCHANGED lastTimeNotify

-------------------------------------------------------------------------------
\* Time passes.  select returns at least ten times a second, so that every loop
\* has run; the messages still under way are lost.
Tick ==
    /\ now < MaxTime
    /\ \A e \in Endpoints : Looping(e) => e \in polled
    /\ now' = now + 1 /\ polled' = {} /\ network' = {}
    /\ loss' = (loss \/ \E m \in network : Looping(m.to))
    /\ UNCHANGED <<endpoint, ended>>

Step(e) ==
    \/ Construct(e) \/ registerService(e) \/ getServerURLs(e)
    \/ Receive(e) \/ Poll(e) \/ Destruct(e) \/ Crash(e) \/ LoopFails(e)

Next == Tick \/ \E e \in Endpoints : Step(e)

Spec == Init /\ [][Next]_vars

-------------------------------------------------------------------------------
TypeOK ==
    /\ now \in 0..MaxTime /\ network \subseteq Messages
    /\ thread \in [Endpoints -> {"none", "loop", "ended", "failed"}]
    /\ DOMAIN usnToURL = Endpoints
    /\ \A e \in Endpoints :
          /\ DOMAIN usnToURL[e] \subseteq Servers
          /\ \A s \in DOMAIN usnToURL[e] : usnToURL[e][s] \in 0..(now + CACHE_DURATION_SECONDS)
    /\ service \subseteq Servers /\ searching \subseteq Clients
    /\ lastTimeSearch \in [Endpoints -> 0..now] /\ lastTimeNotify \in [Endpoints -> 0..now]
    /\ polled \subseteq Endpoints /\ ended \in [Endpoints -> 0..now] /\ loss \in BOOLEAN

\* An endpoint that is not there knows nothing and has no service.
NoneYet ==
    \A e \in Endpoints : thread[e] = "none" =>
       DOMAIN usnToURL[e] = {} /\ e \notin service \cup searching

\* An endpoint whose loop runs keeps no entry past its time, and none longer than
\* a message is valid for.
NoneExpired ==
    \A e \in polled : \A s \in DOMAIN usnToURL[e] : Looping(e) => usnToURL[e][s] > now

\* Only an endpoint that has registered its service announces it, and only one
\* that has ended says goodbye.
Announced ==
    \A m \in network :
       /\ m.kind # "search" => m.from \in service
       /\ m.kind = "byebye" => thread[m.from] = "ended"

\* What is heard of an endpoint after its end was under way then.
EndedInTime ==
    \A s \in Endpoints : thread[s] \in {"ended", "failed"} =>
       /\ \A m \in network : m.from = s => now = ended[s]
       /\ \A e \in Endpoints : s \in DOMAIN usnToURL[e] =>
             usnToURL[e][s] <= ended[s] + CACHE_DURATION_SECONDS

\* The search of c or an announcement of s is under way, or c has the latest.
Informed(c, s) ==
    \/ \E m \in network : \/ m.kind = "search" /\ m.from = c /\ m.to = s
                          \/ m.kind \in {"response", "alive"} /\ m.from = s /\ m.to = c
    \/ now >= lastTimeNotify[s] + CACHE_DURATION_SECONDS
    \/ /\ s \in DOMAIN usnToURL[c]
       /\ usnToURL[c][s] >= lastTimeNotify[s] + CACHE_DURATION_SECONDS

AllInformed ==
    ~loss => \A c \in searching, s \in service :
                Looping(c) /\ Looping(s) => Informed(c, s)

\* The tables follow what was announced.
TableInv == TypeOK /\ NoneYet /\ NoneExpired /\ Announced /\ EndedInTime /\ AllInformed

\* A server that stopped or was killed is forgotten when its last announcement
\* has expired, by every client whose loop runs, whatever was lost or late.
NoStale ==
    \A c \in Clients, s \in Servers :
       Looping(c) /\ c \in polled /\ s \in DOMAIN usnToURL[c] /\ thread[s] = "ended"
          => now < ended[s] + CACHE_DURATION_SECONDS

\* An endpoint that searched knows every endpoint whose service runs, itself
\* included, from the moment the messages have arrived until the server's last notification
\* expires, when none was lost.
StaysListed ==
    \A c \in searching, s \in service :
       (/\ Looping(c) /\ Looping(s) /\ network = {} /\ ~loss
        /\ now < lastTimeNotify[s] + CACHE_DURATION_SECONDS)
          => s \in DOMAIN usnToURL[c]

\* "How often search and notify packets are triggered": the loop of a server
\* that runs has notified within the last TRIGGER_TIMEOUT_SECONDS.
NotifiedInTime ==
    \A s \in service :
       Looping(s) /\ s \in polled => now - lastTimeNotify[s] <= TRIGGER_TIMEOUT_SECONDS
===============================================================================
