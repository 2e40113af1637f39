--------------------------- MODULE Discovery_proofs ---------------------------
(***************************************************************************)
(* Proofs about Discovery: for any number of endpoints and any durations,  *)
(* a client forgets a server that is gone when its last announcement has   *)
(* expired, and knows one that runs as long as it has not.                 *)
(***************************************************************************)
EXTENDS Discovery, TLAPS

USE DiscoveryAssumption

-------------------------------------------------------------------------------
(* One iteration of handlerLoop.                                            *)

\* What is sent to the group.
LEMMA MulticastFacts ==
  ASSUME NEW e \in Endpoints, NEW kind \in Kinds
  PROVE  /\ \A m \in Multicast(e, kind) : m \in Messages /\ m.from = e /\ m.kind = kind /\ Looping(m.to)
         /\ \A r \in Endpoints : Looping(r) =>
               [kind |-> kind, from |-> e, to |-> r] \in Multicast(e, kind)
  BY DEF Multicast, Messages

\* The table after an iteration: what was fresh and what was announced.
LEMMA TableFacts ==
  ASSUME TypeOK, Announced, NEW e \in Endpoints, NEW received,
         received = {} \/ \E m \in network : received = {m}, Iterate(e, received)
  PROVE  /\ DOMAIN usnToURL' = Endpoints
         /\ \A x \in Endpoints : x # e => usnToURL'[x] = usnToURL[x]
         /\ DOMAIN usnToURL'[e] \subseteq Servers
         /\ \A s \in DOMAIN usnToURL'[e] :
               /\ Fresh(usnToURL'[e][s])
               /\ \/ /\ usnToURL'[e][s] = now + CACHE_DURATION_SECONDS
                     /\ \E m \in received : m.from = s
                  \/ s \in DOMAIN usnToURL[e] /\ usnToURL'[e][s] = usnToURL[e][s]
         /\ \A m \in received : m.kind \in {"response", "alive"} =>
               /\ m.from \in DOMAIN usnToURL'[e]
               /\ usnToURL'[e][m.from] = now + CACHE_DURATION_SECONDS
         /\ \A s \in DOMAIN usnToURL[e] :
               Fresh(usnToURL[e][s]) /\ (\A m \in received : m.from = s => m.kind # "byebye") =>
                  s \in DOMAIN usnToURL'[e] /\ usnToURL'[e][s] >= usnToURL[e][s]
  <1> DEFINE table == IF received = {} THEN usnToURL[e]
                      ELSE Registered(e, CHOOSE m \in received : TRUE)
             C == CACHE_DURATION_SECONDS
  <1>1. /\ usnToURL' = [usnToURL EXCEPT ![e] =
                           Restrict(table, {s \in DOMAIN table : Fresh(table[s])})]
        /\ DOMAIN usnToURL = Endpoints /\ now \in Nat /\ C \in Nat \ {0}
    BY DEF Iterate, TypeOK
  <1>2. /\ DOMAIN usnToURL[e] \subseteq Servers
        /\ \A s \in DOMAIN usnToURL[e] : usnToURL[e][s] \in 0..(now + C)
    BY DEF TypeOK
  <1>3. /\ DOMAIN table \subseteq Servers
        /\ \A s \in DOMAIN table :
              \/ table[s] = now + C /\ \E m \in received : m.from = s
              \/ s \in DOMAIN usnToURL[e] /\ table[s] = usnToURL[e][s]
        /\ \A m \in received : m.kind \in {"response", "alive"} =>
              m.from \in DOMAIN table /\ table[m.from] = now + C
        /\ \A s \in DOMAIN usnToURL[e] :
              (\A m \in received : m.from = s => m.kind # "byebye") =>
                 s \in DOMAIN table /\ table[s] >= usnToURL[e][s]
    <2>1. CASE received = {}
      BY <1>1, <1>2, <2>1
    <2>2. ASSUME NEW m \in network, received = {m}
          PROVE  /\ DOMAIN table \subseteq Servers
                 /\ \A s \in DOMAIN table :
                       \/ table[s] = now + C /\ m.from = s
                       \/ s \in DOMAIN usnToURL[e] /\ table[s] = usnToURL[e][s]
                 /\ m.kind \in {"response", "alive"} =>
                       m.from \in DOMAIN table /\ table[m.from] = now + C
                 /\ \A s \in DOMAIN usnToURL[e] :
                       (m.from = s => m.kind # "byebye") =>
                          s \in DOMAIN table /\ table[s] >= usnToURL[e][s]
      <3>1. table = Registered(e, m)
        BY <2>2
      <3>2. m.kind \in Kinds /\ (m.kind # "search" => m.from \in Servers)
        BY DEF TypeOK, Messages, Announced
      <3> HIDE DEF table
      <3>3. CASE m.kind = "byebye"
        BY <1>1, <1>2, <3>1, <3>3 DEF Registered, Restrict
      <3>4. CASE m.kind = "search"
        BY <1>1, <1>2, <3>1, <3>4 DEF Registered
      <3>5. CASE m.kind \in {"response", "alive"}
        BY <1>1, <1>2, <3>1, <3>2, <3>5 DEF Registered
      <3> QED  BY <3>2, <3>3, <3>4, <3>5 DEF Kinds
    <2> QED  BY <2>1, <2>2
  <1> HIDE DEF table
  <1>4. /\ DOMAIN usnToURL'[e] = {s \in DOMAIN table : Fresh(table[s])}
        /\ \A s \in DOMAIN usnToURL'[e] : usnToURL'[e][s] = table[s]
        /\ DOMAIN usnToURL' = Endpoints
        /\ \A x \in Endpoints : x # e => usnToURL'[x] = usnToURL[x]
    BY <1>1 DEF Restrict
  <1>5. Fresh(now + C)
    BY <1>1 DEF Fresh
  <1>6. \A s \in DOMAIN usnToURL[e] : Fresh(usnToURL[e][s]) =>
           \A x : x \in Nat /\ x >= usnToURL[e][s] => Fresh(x)
    BY <1>1, <1>2 DEF Fresh
  <1>7. \A s \in DOMAIN table : table[s] \in Nat
    BY <1>1, <1>2, <1>3
  <1> QED  BY <1>3, <1>4, <1>5, <1>6, <1>7

\* What an iteration sends, and that it has notified when it says so.
LEMMA NetworkFacts ==
  ASSUME TypeOK, NEW e \in Endpoints, NEW received,
         received = {} \/ \E m \in network : received = {m}, Iterate(e, received)
  PROVE  /\ network \ received \subseteq network'
         /\ \A m \in network' :
               \/ m \in network
               \/ /\ m \in Messages /\ m.from = e /\ m.kind # "byebye"
                  /\ m.kind # "search" => e \in service
         /\ \A x \in Endpoints : x # e => lastTimeNotify'[x] = lastTimeNotify[x]
         /\ \/ lastTimeNotify'[e] = lastTimeNotify[e]
            \/ lastTimeNotify'[e] = now /\ Multicast(e, "alive") \subseteq network'
         /\ lastTimeNotify' \in [Endpoints -> 0..now] /\ lastTimeSearch' \in [Endpoints -> 0..now]
         /\ \A m \in received : m.kind = "search" /\ e \in service =>
               [kind |-> "response", from |-> e, to |-> m.from] \in network'
  <1> DEFINE replies == UNION {SearchReplies(e, m) : m \in received}
             notified == IF replies # {} THEN now ELSE lastTimeNotify[e]
             search == e \in searching /\ Triggered(lastTimeSearch[e])
             notify == e \in service /\ Triggered(notified)
             searches == IF search THEN Multicast(e, "search") ELSE {}
             notifies == IF notify THEN Notify(e, "alive") ELSE {}
  <1>1. /\ network' = (network \ received) \cup replies \cup searches \cup notifies
        /\ lastTimeSearch' = [lastTimeSearch EXCEPT ![e] = IF search THEN now ELSE @]
        /\ lastTimeNotify' = [lastTimeNotify EXCEPT ![e] = IF notify THEN now ELSE notified]
    BY DEF Iterate
  <1>2. /\ now \in Nat /\ lastTimeNotify \in [Endpoints -> 0..now]
        /\ lastTimeSearch \in [Endpoints -> 0..now]
    BY DEF TypeOK
  <1>3. /\ notify => notifies = Multicast(e, "alive")
        /\ \A m \in notifies : m \in Messages /\ m.from = e /\ m.kind = "alive" /\ e \in service
    BY MulticastFacts DEF Notify, Kinds
  <1>4. \A m \in searches : m \in Messages /\ m.from = e /\ m.kind = "search"
    BY MulticastFacts DEF Kinds
  <1>5. /\ replies # {} => Multicast(e, "alive") \subseteq replies
        /\ \A m \in replies : m \in Messages /\ m.from = e /\ m.kind \in {"response", "alive"} /\ e \in service
        /\ \A m \in received : m.kind = "search" /\ e \in service =>
              [kind |-> "response", from |-> e, to |-> m.from] \in replies
    <2>1. CASE received = {}
      BY <2>1
    <2>2. ASSUME NEW m \in network, received = {m}
          PROVE  /\ replies # {} => Multicast(e, "alive") \subseteq replies
                 /\ \A x \in replies : x \in Messages /\ x.from = e /\ x.kind \in {"response", "alive"}
                                       /\ e \in service
                 /\ m.kind = "search" /\ e \in service =>
                       [kind |-> "response", from |-> e, to |-> m.from] \in replies
      <3>1. replies = SearchReplies(e, m)
        BY <2>2
      <3>2. m.from \in Endpoints
        BY DEF TypeOK, Messages
      <3> HIDE DEF replies
      <3>3. [kind |-> "response", from |-> e, to |-> m.from] \in Messages
        BY <3>2 DEF Messages, Kinds
      <3>4. \A x \in Multicast(e, "alive") : x \in Messages /\ x.from = e /\ x.kind = "alive"
        BY MulticastFacts DEF Kinds
      <3> QED  BY <3>1, <3>3, <3>4 DEF SearchReplies
    <2> QED  BY <2>1, <2>2, Zenon
  <1>6. lastTimeNotify'[e] = (IF notify THEN now ELSE notified) /\ notified \in 0..now
    BY <1>1, <1>2
  <1>8. \/ lastTimeNotify'[e] = lastTimeNotify[e]
        \/ lastTimeNotify'[e] = now /\ Multicast(e, "alive") \subseteq network'
    <2>1. CASE notify
      BY <1>1, <1>3, <1>6, <2>1
    <2>2. CASE ~notify /\ replies # {}
      BY <1>1, <1>5, <1>6, <2>2
    <2>3. CASE ~notify /\ replies = {}
      BY <1>6, <2>3
    <2> QED  BY <2>1, <2>2, <2>3
  <1>9. lastTimeNotify' \in [Endpoints -> 0..now] /\ lastTimeSearch' \in [Endpoints -> 0..now]
    BY <1>1, <1>2, <1>6
  <1>10. \A x \in Endpoints : x # e => lastTimeNotify'[x] = lastTimeNotify[x]
    BY <1>1, <1>2
  <1> HIDE DEF replies, notified, search, notify, searches, notifies
  <1> QED  BY <1>1, <1>3, <1>4, <1>5, <1>8, <1>9, <1>10

\* Receive and Poll in one form.
LEMMA LoopFacts ==
  ASSUME NEW e, Receive(e) \/ Poll(e)
  PROVE  \E received :
            /\ received = {} \/ \E m \in network : received = {m}
            /\ \A m \in received : m.to = e
            /\ Iterate(e, received) /\ Looping(e) /\ polled' = polled \cup {e}
            /\ UNCHANGED <<now, thread, service, searching, ended, loss>>
  <1>1. CASE Poll(e)
    <2>1. Iterate(e, {})
      BY <1>1 DEF Poll
    <2>2. /\ Looping(e) /\ polled' = polled \cup {e}
          /\ UNCHANGED <<now, thread, service, searching, ended, loss>>
      BY <2>1 DEF Iterate
    <2> QED  BY <2>1, <2>2
  <1>2. CASE Receive(e)
    <2>1. PICK m \in network : m.to = e /\ Iterate(e, {m})
      BY <1>2 DEF Receive
    <2>2. /\ Looping(e) /\ polled' = polled \cup {e}
          /\ UNCHANGED <<now, thread, service, searching, ended, loss>>
      BY <2>1 DEF Iterate
    <2> QED  BY <2>1, <2>2
  <1> QED  BY <1>1, <1>2

-------------------------------------------------------------------------------
(* The types.                                                               *)

\* An iteration keeps the types, and what it knows is not expired.
LEMMA LoopTypes ==
  ASSUME TypeOK, NoneYet, NoneExpired, Announced, NEW e \in Endpoints, Receive(e) \/ Poll(e)
  PROVE  TypeOK' /\ NoneYet' /\ NoneExpired'
  <1>1. PICK received :
            /\ received = {} \/ \E m \in network : received = {m}
            /\ Iterate(e, received) /\ Looping(e) /\ polled' = polled \cup {e}
            /\ UNCHANGED <<now, thread, service, searching, ended, loss>>
    BY LoopFacts
  <1>2. /\ DOMAIN usnToURL' = Endpoints
        /\ \A x \in Endpoints : x # e => usnToURL'[x] = usnToURL[x]
        /\ DOMAIN usnToURL'[e] \subseteq Servers
        /\ \A s \in DOMAIN usnToURL'[e] :
              /\ Fresh(usnToURL'[e][s])
              /\ \/ usnToURL'[e][s] = now + CACHE_DURATION_SECONDS
                 \/ s \in DOMAIN usnToURL[e] /\ usnToURL'[e][s] = usnToURL[e][s]
    BY <1>1, TableFacts
  <1>3. /\ \A m \in network' : m \in network \/ m \in Messages
        /\ lastTimeNotify' \in [Endpoints -> 0..now] /\ lastTimeSearch' \in [Endpoints -> 0..now]
    BY <1>1, NetworkFacts
  <1>4. now \in 0..MaxTime /\ now + CACHE_DURATION_SECONDS \in 0..(now + CACHE_DURATION_SECONDS)
    BY DEF TypeOK
  <1>5. \A x \in Endpoints :
           /\ DOMAIN usnToURL'[x] \subseteq Servers
           /\ \A s \in DOMAIN usnToURL'[x] : usnToURL'[x][s] \in 0..(now + CACHE_DURATION_SECONDS)
    BY <1>2, <1>4 DEF TypeOK
  <1>6. network' \subseteq Messages
    BY <1>3, Zenon DEF TypeOK
  <1>7. TypeOK'
    BY <1>1, <1>2, <1>3, <1>4, <1>5, <1>6, Zenon DEF TypeOK
  <1>8. NoneYet'
    BY <1>1, <1>2 DEF NoneYet, Looping
  <1>9. NoneExpired'
    <2>1. \A x \in polled' : \A s \in DOMAIN usnToURL'[x] : thread'[x] = "loop" => usnToURL'[x][s] > now'
      BY <1>1, <1>2 DEF NoneExpired, Looping, Fresh, TypeOK
    <2> QED  BY <2>1 DEF NoneExpired, Looping
  <1> QED  BY <1>7, <1>8, <1>9

\* The calls, the ends of a thread and the clock keep the types too.
LEMMA CallTypes ==
  ASSUME TypeOK, NoneYet, NoneExpired, NEW e \in Endpoints,
         \/ Construct(e) \/ registerService(e) \/ getServerURLs(e)
         \/ Destruct(e) \/ Crash(e) \/ LoopFails(e)
  PROVE  TypeOK' /\ NoneYet' /\ NoneExpired'
  <1>1. now' = now /\ usnToURL' = usnToURL /\ loss' = loss /\ now \in 0..MaxTime /\ now \in 0..now
    BY DEF Construct, registerService, getServerURLs, Destruct, Crash, LoopFails, Leave, TypeOK
  <1>2. network' \subseteq Messages
    BY MulticastFacts DEF Construct, registerService, getServerURLs, Destruct, Crash, LoopFails, Leave,
       TypeOK, Notify, Kinds
  <1>3. /\ thread' \in [Endpoints -> {"none", "loop", "ended", "failed"}]
        /\ \A x \in Endpoints : thread'[x] = "none" => thread[x] = "none"
        /\ \A x \in polled' : thread'[x] = "loop" => (x \in polled /\ thread[x] = "loop") \/ thread[x] = "none"
        /\ polled' \subseteq Endpoints
    BY DEF Construct, registerService, getServerURLs, Destruct, Crash, LoopFails, Leave, TypeOK, Looping
  <1>4. /\ service' \subseteq Servers /\ searching' \subseteq Clients
        /\ lastTimeSearch' \in [Endpoints -> 0..now] /\ lastTimeNotify' \in [Endpoints -> 0..now]
        /\ ended' \in [Endpoints -> 0..now]
    BY <1>1 DEF Construct, registerService, getServerURLs, Destruct, Crash, LoopFails, Leave, TypeOK
  <1>5. TypeOK'
    BY <1>1, <1>2, <1>3, <1>4, Zenon DEF TypeOK
  <1>6. NoneExpired'
    BY <1>1, <1>3, Zenon DEF NoneYet, NoneExpired, Looping, TypeOK
  <1>7. NoneYet'
    BY <1>1, <1>3 DEF NoneYet, Construct, registerService, getServerURLs, Destruct, Crash, LoopFails, Leave, Looping
  <1> QED  BY <1>5, <1>6, <1>7

\* Time passes for all.
LEMMA TickTypes ==
  ASSUME TypeOK, NoneYet, NoneExpired, Tick \/ UNCHANGED vars
  PROVE  TypeOK' /\ NoneYet' /\ NoneExpired'
  <1>1. CASE UNCHANGED vars
    BY <1>1 DEF TypeOK, NoneYet, NoneExpired, Looping, vars, endpoint
  <1>2. CASE Tick
    <2>1. /\ now \in Nat /\ now' = now + 1 /\ now' \in 0..MaxTime /\ polled' = {} /\ network' = {}
          /\ UNCHANGED <<thread, usnToURL, service, searching, lastTimeSearch, lastTimeNotify, ended>>
      BY <1>2 DEF Tick, TypeOK, endpoint
    <2>2. loss' \in BOOLEAN
      BY <1>2, Zenon DEF Tick
    <2>3. 0..now \subseteq 0..now' /\ 0..(now + CACHE_DURATION_SECONDS) \subseteq 0..(now' + CACHE_DURATION_SECONDS)
      BY <2>1
    <2>4. /\ lastTimeSearch \in [Endpoints -> 0..now'] /\ lastTimeNotify \in [Endpoints -> 0..now']
          /\ ended \in [Endpoints -> 0..now']
      BY <2>3 DEF TypeOK
    <2>5. TypeOK'
      BY <2>1, <2>2, <2>3, <2>4 DEF TypeOK
    <2> QED  BY <2>1, <2>5 DEF NoneYet, NoneExpired, Looping
  <1> QED  BY <1>1, <1>2

\* Every step keeps the types, and no table keeps what is expired.
LEMMA NextTypes ==
  ASSUME TypeOK, NoneYet, NoneExpired, Announced, [Next]_vars
  PROVE  TypeOK' /\ NoneYet' /\ NoneExpired'
  BY LoopTypes, CallTypes, TickTypes, Zenon DEF Next, Step

-------------------------------------------------------------------------------
(* What was announced.                                                      *)

\* A message that a step adds comes from the endpoint of the step, which runs.
LEMMA SentFacts ==
  ASSUME TypeOK, NEW e \in Endpoints, Step(e)
  PROVE  /\ now' = now /\ service \subseteq service' /\ loss' = loss
         /\ \A x \in Endpoints : x # e => thread'[x] = thread[x] /\ ended'[x] = ended[x]
         /\ thread[e] \in {"ended", "failed"} => FALSE
         /\ ~Looping(e)' => ended'[e] = now
         /\ \A m \in network' :
               \/ m \in network
               \/ /\ m.from = e /\ (m.kind # "search" => e \in service')
                  /\ m.kind = "byebye" => thread'[e] = "ended"
  <1>1. CASE Receive(e) \/ Poll(e)
    <2>1. PICK received :
            /\ received = {} \/ \E m \in network : received = {m}
            /\ Iterate(e, received) /\ Looping(e)
            /\ UNCHANGED <<now, thread, service, searching, ended, loss>>
      BY <1>1, LoopFacts
    <2>2. \A m \in network' :
             \/ m \in network
             \/ m.from = e /\ m.kind # "byebye" /\ (m.kind # "search" => e \in service)
      BY <2>1, NetworkFacts
    <2> QED  BY <2>1, <2>2 DEF Looping
  <1>2. CASE Construct(e)
    BY <1>2 DEF Construct, TypeOK, Looping
  <1>3. CASE registerService(e)
    <2>1. \A m \in Multicast(e, "alive") : m.from = e /\ m.kind = "alive"
      BY MulticastFacts DEF Kinds
    <2> QED  BY <1>3, <2>1 DEF registerService, Looping
  <1>4. CASE getServerURLs(e)
    <2>1. \A m \in Multicast(e, "search") : m.from = e /\ m.kind = "search"
      BY MulticastFacts DEF Kinds
    <2> QED  BY <1>4, <2>1 DEF getServerURLs, Looping
  <1>5. CASE Crash(e) \/ LoopFails(e)
    BY <1>5, Zenon DEF Crash, LoopFails, Leave, TypeOK, Looping
  <1>6. CASE Destruct(e)
    <2>1. \A m \in Notify(e, "byebye") : m.from = e /\ m.kind = "byebye" /\ e \in service
      BY MulticastFacts DEF Kinds, Notify
    <2>2. /\ UNCHANGED <<now, service, loss>> /\ thread'[e] = "ended" /\ thread[e] = "loop"
          /\ ended'[e] = now
          /\ \A x \in Endpoints : x # e => thread'[x] = thread[x] /\ ended'[x] = ended[x]
      BY <1>6 DEF Destruct, Leave, TypeOK, Looping
    <2>3. \A m \in network' : m \in network \/ m \in Notify(e, "byebye")
      BY <1>6, Zenon DEF Destruct, Leave
    <2> QED  BY <2>1, <2>2, <2>3 DEF Looping
  <1> QED  BY <1>1, <1>2, <1>3, <1>4, <1>5, <1>6, Zenon DEF Step

\* Only services that are registered are announced.
LEMMA NextAnnounced ==
  ASSUME TypeOK, Announced, [Next]_vars
  PROVE  Announced'
  <1>1. CASE Tick \/ UNCHANGED vars
    BY <1>1 DEF Announced, Looping, Tick, vars, endpoint
  <1>2. ASSUME NEW e \in Endpoints, Step(e) PROVE Announced'
    <2> SUFFICES ASSUME NEW m \in network'
                 PROVE  /\ m.kind # "search" => m.from \in service'
                        /\ m.kind = "byebye" => thread'[m.from] = "ended"
      BY DEF Announced
    <2>1. CASE m \in network
      <3>1. m.from \in Endpoints
        BY <2>1 DEF TypeOK, Messages
      <3> QED  BY <1>2, <2>1, <3>1, SentFacts DEF Announced
    <2>2. CASE m \notin network
      BY <1>2, <2>2, SentFacts DEF Looping
    <2> QED  BY <2>1, <2>2
  <1> QED  BY <1>1, <1>2, Zenon DEF Next

-------------------------------------------------------------------------------
(* What is known of an endpoint that has ended.                             *)

\* An endpoint that ends sends no more: what is heard of it later was under way.
LEMMA NextEnded ==
  ASSUME TypeOK, Announced, EndedInTime, [Next]_vars
  PROVE  EndedInTime'
  <1>1. CASE UNCHANGED vars
    BY <1>1 DEF EndedInTime, vars, endpoint
  <1>2. CASE Tick
    BY <1>2 DEF EndedInTime, Tick, endpoint
  <1>3. ASSUME NEW e \in Endpoints, Step(e) PROVE EndedInTime'
    <2> SUFFICES ASSUME NEW s \in Endpoints, thread'[s] \in {"ended", "failed"}
                 PROVE  /\ \A m \in network' : m.from = s => now' = ended'[s]
                        /\ \A x \in Endpoints : s \in DOMAIN usnToURL'[x] =>
                              usnToURL'[x][s] <= ended'[s] + CACHE_DURATION_SECONDS
      BY DEF EndedInTime
    <2>1. /\ now' = now /\ (s # e => thread'[s] = thread[s] /\ ended'[s] = ended[s])
          /\ ~Looping(e)' => ended'[e] = now
          /\ \A m \in network' : m \in network \/ m.from = e
          /\ now \in Nat
      BY <1>3, SentFacts DEF TypeOK
    <2>2. s = e => ended'[s] = now
      BY <2>1 DEF Looping
    <2>3. \A m \in network' : m.from = s => now' = ended'[s]
      BY <2>1, <2>2 DEF EndedInTime
    <2>4. CASE Receive(e) \/ Poll(e)
      <3>1. PICK received :
            /\ received = {} \/ \E m \in network : received = {m}
            /\ Iterate(e, received)
        BY <2>4, LoopFacts, Zenon
      <3>2. /\ \A x \in Endpoints : x # e => usnToURL'[x] = usnToURL[x]
            /\ \A q \in DOMAIN usnToURL'[e] :
                  \/ /\ usnToURL'[e][q] = now + CACHE_DURATION_SECONDS
                     /\ \E m \in received : m.from = q
                  \/ q \in DOMAIN usnToURL[e] /\ usnToURL'[e][q] = usnToURL[e][q]
        BY <3>1, TableFacts
      <3>3. s # e /\ thread[s] \in {"ended", "failed"} /\ ended'[s] = ended[s]
        BY <1>3, <2>1, <2>4, LoopFacts DEF Looping
      <3>4. \A m \in received : m.from = s => now = ended[s]
        BY <3>1, <3>3 DEF EndedInTime
      <3>5. \A x \in Endpoints : s \in DOMAIN usnToURL[x] =>
               usnToURL[x][s] <= ended[s] + CACHE_DURATION_SECONDS
        BY <3>3 DEF EndedInTime
      <3> QED  BY <2>1, <2>3, <3>2, <3>3, <3>4, <3>5
    <2>5. CASE ~(Receive(e) \/ Poll(e))
      <3>1. usnToURL' = usnToURL
        BY <1>3, <2>5 DEF Step, Construct, registerService, getServerURLs, Destruct, Crash, LoopFails, Leave
      <3>2. \A x \in Endpoints : s \in DOMAIN usnToURL[x] =>
               usnToURL[x][s] <= ended'[s] + CACHE_DURATION_SECONDS
        BY <2>1, <2>2 DEF EndedInTime, TypeOK
      <3> QED  BY <2>3, <3>1, <3>2
    <2> QED  BY <2>4, <2>5
  <1> QED  BY <1>1, <1>2, <1>3 DEF Next

-------------------------------------------------------------------------------
(* What a client that searched knows.                                       *)

\* The search is under way, or the service is announced to the client.
LEMMA CallInformed ==
  ASSUME TypeOK, NoneYet, NEW e \in Endpoints, AllInformed, ~loss,
         \/ Construct(e) \/ registerService(e) \/ getServerURLs(e)
         \/ Destruct(e) \/ Crash(e) \/ LoopFails(e)
  PROVE  AllInformed'
  <1> SUFFICES ASSUME NEW c \in searching', NEW s \in service', thread'[c] = "loop",
                      thread'[s] = "loop"
               PROVE  Informed(c, s)'
    BY Zenon DEF AllInformed, Looping
  <1>0. Destruct(e) \/ Crash(e) \/ LoopFails(e) => c # e /\ s # e
    BY DEF Destruct, Crash, LoopFails, Leave, TypeOK
  <1>1. /\ now' = now /\ usnToURL' = usnToURL
        /\ \A m \in network : m.to \in {c, s} => m \in network'
        /\ searching \subseteq Endpoints /\ service \subseteq Endpoints
    BY <1>0, Zenon DEF Construct, registerService, getServerURLs, Destruct, Crash, LoopFails, Leave, TypeOK, Endpoints
  <1>2. CASE Construct(e)
    <2>1. c # e /\ s # e
      BY <1>2, Zenon DEF NoneYet, Construct
    <2>2. Informed(c, s) /\ lastTimeNotify' = lastTimeNotify
      BY <1>1, <1>2, <2>1 DEF Construct, AllInformed, Looping, TypeOK
    <2> QED  BY <1>1, <2>2, Zenon DEF Informed
  <1>3. CASE registerService(e)
    <2>1. CASE s = e
      <3>1. [kind |-> "alive", from |-> s, to |-> c] \in network'
        BY <1>1, <1>3, <2>1, MulticastFacts, Zenon DEF registerService, Looping, Kinds
      <3> QED  BY <3>1 DEF Informed
    <2>2. CASE s # e
      <3>1. Informed(c, s) /\ lastTimeNotify'[s] = lastTimeNotify[s]
        BY <1>1, <1>3, <2>2 DEF registerService, AllInformed, Looping, TypeOK
      <3> QED  BY <1>1, <3>1, Zenon DEF Informed
    <2> QED  BY <2>1, <2>2, Zenon
  <1>4. CASE getServerURLs(e)
    <2>1. CASE c = e
      <3>1. [kind |-> "search", from |-> c, to |-> s] \in network'
        BY <1>1, <1>4, <2>1, MulticastFacts, Zenon DEF getServerURLs, Looping, Kinds
      <3> QED  BY <3>1 DEF Informed
    <2>2. CASE c # e
      <3>1. Informed(c, s) /\ lastTimeNotify'[s] = lastTimeNotify[s]
        BY <1>1, <1>4, <2>2, Zenon DEF getServerURLs, AllInformed, Looping, TypeOK
      <3> QED  BY <1>1, <3>1 DEF Informed
    <2> QED  BY <2>1, <2>2, Zenon
  <1>5. CASE Destruct(e) \/ Crash(e) \/ LoopFails(e)
    <2>1. Informed(c, s) /\ lastTimeNotify'[s] = lastTimeNotify[s]
      BY <1>1, <1>5, Zenon DEF Destruct, Crash, LoopFails, Leave, AllInformed, Looping, TypeOK
    <2> QED  BY <1>1, <2>1 DEF Informed
  <1> QED  BY <1>2, <1>3, <1>4, <1>5

\* Who takes an announcement has the latest; who takes a search answers it.
LEMMA LoopInformed ==
  ASSUME TypeOK, Announced, NEW e \in Endpoints, AllInformed, ~loss, Receive(e) \/ Poll(e)
  PROVE  AllInformed'
  <1>1. PICK received :
            /\ received = {} \/ \E m \in network : received = {m}
            /\ \A m \in received : m.to = e
            /\ Iterate(e, received)
            /\ UNCHANGED <<now, thread, service, searching, ended, loss>>
    BY LoopFacts
  <1> SUFFICES ASSUME NEW c \in searching, NEW s \in service, thread[c] = "loop",
                      thread[s] = "loop"
               PROVE  Informed(c, s)'
    BY <1>1, Zenon DEF AllInformed, Looping
  <1>2. Informed(c, s) /\ c \in Endpoints /\ s \in Endpoints /\ now \in Nat
    BY DEF AllInformed, Looping, TypeOK, Endpoints
  <1>3. /\ network \ received \subseteq network'
        /\ \A x \in Endpoints : x # e => lastTimeNotify'[x] = lastTimeNotify[x]
        /\ \/ lastTimeNotify'[e] = lastTimeNotify[e]
           \/ lastTimeNotify'[e] = now /\ Multicast(e, "alive") \subseteq network'
        /\ lastTimeNotify' \in [Endpoints -> 0..now]
        /\ \A m \in received : m.kind = "search" /\ e \in service =>
              [kind |-> "response", from |-> e, to |-> m.from] \in network'
    BY <1>1, NetworkFacts
  <1>4. CASE lastTimeNotify'[s] # lastTimeNotify[s]
    <2>1. s = e /\ Multicast(s, "alive") \subseteq network'
      BY <1>2, <1>3, <1>4
    <2>2. [kind |-> "alive", from |-> s, to |-> c] \in network'
      BY <1>2, <2>1, MulticastFacts DEF Looping, Kinds
    <2> QED  BY <2>2 DEF Informed
  <1>5. CASE /\ lastTimeNotify'[s] = lastTimeNotify[s]
             /\ \E m \in network : \/ m.kind = "search" /\ m.from = c /\ m.to = s
                                   \/ m.kind \in {"response", "alive"} /\ m.from = s /\ m.to = c
    <2>1. PICK m \in network : \/ m.kind = "search" /\ m.from = c /\ m.to = s
                               \/ m.kind \in {"response", "alive"} /\ m.from = s /\ m.to = c
      BY <1>5
    <2>2. CASE m \notin received
      BY <1>3, <2>1, <2>2 DEF Informed
    <2>3. CASE m \in received /\ m.kind = "search"
      <3>1. [kind |-> "response", from |-> s, to |-> c] \in network'
        BY <1>1, <1>3, <2>1, <2>3
      <3> QED  BY <3>1 DEF Informed
    <2>4. CASE m \in received /\ m.kind # "search"
      <3>1. m.kind \in {"response", "alive"} /\ m.from = s /\ c = e
        BY <1>1, <2>1, <2>4, Zenon
      <3>2. s \in DOMAIN usnToURL'[c] /\ usnToURL'[c][s] = now + CACHE_DURATION_SECONDS
        BY <1>1, <2>4, <3>1, TableFacts
      <3>3. lastTimeNotify'[s] \in 0..now
        BY <1>2, <1>3
      <3>4. usnToURL'[c][s] >= lastTimeNotify'[s] + CACHE_DURATION_SECONDS
        BY <1>2, <3>2, <3>3
      <3> QED  BY <3>2, <3>4 DEF Informed
    <2> QED  BY <2>2, <2>3, <2>4
  <1>6. CASE /\ lastTimeNotify'[s] = lastTimeNotify[s]
             /\ now >= lastTimeNotify[s] + CACHE_DURATION_SECONDS
    BY <1>1, <1>6 DEF Informed
  <1>7. CASE /\ lastTimeNotify'[s] = lastTimeNotify[s]
             /\ now < lastTimeNotify[s] + CACHE_DURATION_SECONDS
             /\ s \in DOMAIN usnToURL[c]
             /\ usnToURL[c][s] >= lastTimeNotify[s] + CACHE_DURATION_SECONDS
    <2>1. CASE c # e
      <3>1. usnToURL'[c] = usnToURL[c]
        BY <1>1, <1>2, <2>1, TableFacts
      <3> QED  BY <1>7, <3>1, Zenon DEF Informed
    <2>2. CASE c = e
      <3>1. usnToURL[c][s] \in Nat /\ lastTimeNotify[s] \in Nat
        BY <1>2, <1>7 DEF TypeOK
      <3>2. Fresh(usnToURL[c][s])
        BY <1>2, <1>7, <3>1 DEF Fresh
      <3>3. \A m \in received : m.from = s => m.kind # "byebye"
        BY <1>1, Zenon DEF Announced
      <3>4. /\ s \in DOMAIN usnToURL'[c] /\ usnToURL'[c][s] >= usnToURL[c][s]
            /\ usnToURL'[c][s] = now + CACHE_DURATION_SECONDS \/ usnToURL'[c][s] = usnToURL[c][s]
        BY <1>1, <1>7, <2>2, <3>2, <3>3, TableFacts, Zenon
      <3>5. usnToURL'[c][s] >= lastTimeNotify'[s] + CACHE_DURATION_SECONDS
        BY <1>2, <1>7, <3>1, <3>4
      <3> QED  BY <3>4, <3>5, Zenon DEF Informed
    <2> QED  BY <2>1, <2>2
  <1>8. now >= lastTimeNotify[s] + CACHE_DURATION_SECONDS \/ now < lastTimeNotify[s] + CACHE_DURATION_SECONDS
    BY <1>2 DEF TypeOK
  <1> QED  BY <1>2, <1>4, <1>5, <1>6, <1>7, <1>8 DEF Informed

\* When nothing is lost, every step keeps the clients informed.
LEMMA NextInformed ==
  ASSUME TypeOK, NoneYet, Announced, AllInformed, [Next]_vars
  PROVE  AllInformed'
  <1>1. CASE UNCHANGED vars
    BY <1>1, Zenon DEF AllInformed, Informed, Looping, vars, endpoint
  <1>2. CASE Tick
    <2> SUFFICES ASSUME ~loss', NEW c \in searching', NEW s \in service', thread'[c] = "loop",
                        thread'[s] = "loop"
                 PROVE  Informed(c, s)'
      BY DEF AllInformed, Looping
    <2>1. /\ ~loss /\ \A m \in network : thread[m.to] # "loop"
          /\ UNCHANGED <<thread, usnToURL, service, searching, lastTimeNotify>> /\ now' = now + 1
      BY <1>2, Zenon DEF Tick, endpoint, Looping
    <2>2. Informed(c, s)
      BY <2>1 DEF AllInformed, Looping
    <2>3. now \in Nat /\ lastTimeNotify[s] \in Nat
      BY <2>1 DEF TypeOK, Endpoints
    <2> QED  BY <2>1, <2>2, <2>3 DEF Informed
  <1>3. ASSUME NEW e \in Endpoints, Step(e) PROVE AllInformed'
    <2>1. CASE loss
      BY <1>3, <2>1, SentFacts, Zenon DEF AllInformed
    <2>2. CASE ~loss
      BY <1>3, <2>2, CallInformed, LoopInformed DEF Step
    <2> QED  BY <2>1, <2>2
  <1> QED  BY <1>1, <1>2, <1>3, Zenon DEF Next

-------------------------------------------------------------------------------
\* Initially there is nobody.
LEMMA InitTables == Init => TableInv
  <1> SUFFICES ASSUME Init PROVE TableInv
    OBVIOUS
  <1>1. \A e \in Endpoints : DOMAIN usnToURL[e] = {} /\ thread[e] = "none"
    BY DEF Init
  <1>2. TypeOK
    <2>1. loss \in BOOLEAN
      BY Zenon DEF Init
    <2>2. now \in 0..MaxTime /\ network \subseteq Messages /\ polled \subseteq Endpoints
      BY DEF Init
    <2>3. /\ thread \in [Endpoints -> {"none", "loop", "ended", "failed"}]
          /\ lastTimeSearch \in [Endpoints -> 0..now] /\ lastTimeNotify \in [Endpoints -> 0..now]
          /\ ended \in [Endpoints -> 0..now] /\ DOMAIN usnToURL = Endpoints
      BY DEF Init
    <2> QED  BY <1>1, <2>1, <2>2, <2>3 DEF Init, TypeOK
  <1>3. NoneYet /\ NoneExpired /\ Announced /\ EndedInTime /\ AllInformed
    BY <1>1 DEF Init, NoneYet, NoneExpired, Announced, EndedInTime, AllInformed
  <1> QED  BY <1>2, <1>3 DEF TableInv

\* The tables of all endpoints follow what was announced, whatever was lost.
THEOREM TableInvariant == Spec => []TableInv
  <1>1. TableInv /\ [Next]_vars => TableInv'
    BY NextTypes, NextAnnounced, NextEnded, NextInformed DEF TableInv
  <1> QED  BY InitTables, <1>1, PTL DEF Spec

\* A client whose loop runs has forgotten a server when CACHE_DURATION_SECONDS
\* have passed since it ended.
THEOREM NoStaleInvariant == Spec => []NoStale
  <1>1. TableInv => NoStale
    <2> SUFFICES ASSUME TableInv, NEW c \in Clients, NEW s \in Servers, Looping(c), c \in polled,
                        s \in DOMAIN usnToURL[c], thread[s] = "ended"
                 PROVE  now < ended[s] + CACHE_DURATION_SECONDS
      BY DEF NoStale
    <2>1. c \in Endpoints /\ s \in Endpoints /\ now \in Nat /\ ended[s] \in Nat
      BY DEF TableInv, TypeOK, Endpoints
    <2>2. usnToURL[c][s] \in Nat
      BY <2>1 DEF TableInv, TypeOK
    <2>3. usnToURL[c][s] > now
      BY DEF TableInv, NoneExpired
    <2>4. usnToURL[c][s] <= ended[s] + CACHE_DURATION_SECONDS
      BY <2>1 DEF TableInv, EndedInTime
    <2> QED  BY <2>1, <2>2, <2>3, <2>4
  <1> QED  BY TableInvariant, <1>1, PTL

\* When no message was lost, a client that searched knows a server that runs
\* until CACHE_DURATION_SECONDS after its last notification.
THEOREM StaysListedInvariant == Spec => []StaysListed
  <1>1. TableInv => StaysListed
    <2> SUFFICES ASSUME TableInv, NEW c \in searching, NEW s \in service, Looping(c), Looping(s),
                        network = {}, ~loss, now < lastTimeNotify[s] + CACHE_DURATION_SECONDS
                 PROVE  s \in DOMAIN usnToURL[c]
      BY DEF StaysListed
    <2>1. now \in Nat /\ lastTimeNotify[s] \in Nat
      BY DEF TableInv, TypeOK, Endpoints
    <2> QED  BY <2>1 DEF TableInv, AllInformed, Informed
  <1> QED  BY TableInvariant, <1>1, PTL
===============================================================================
