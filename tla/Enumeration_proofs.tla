-------------------------- MODULE Enumeration_proofs --------------------------
(***************************************************************************)
(* Proofs about Enumeration: for any number of threads, modules and calls  *)
(* the function table leads to loaded modules only, the automatic load is  *)
(* over before a result is looked for, and every find that runs has a      *)
(* caller who waits for it, in a module that is loaded.                    *)
(***************************************************************************)
EXTENDS Enumeration, TLAPS

USE EnumerationAssumption

Status == {"deferred", "running", "ready", "failed"}
Find == [name : Names, module : Modules, status : Status]

-------------------------------------------------------------------------------
(* The registry.                                                            *)

\* The constructor of a Registry adds an entry of its own, or none.
LEMMA LoadTable ==
  ASSUME TypeOK, TableInStep, NEW m \in Modules, Load(m)
  PROVE  /\ handles' \subseteq Modules /\ handles \subseteq handles'
         /\ DOMAIN table' \subseteq Names /\ \A n \in DOMAIN table' : table'[n] \in Modules
         /\ TableInStep'
  <1>1. CASE UNCHANGED <<handles, table, named>>
    BY <1>1 DEF TypeOK, TableInStep
  <1>2. CASE handles' = handles \cup {m} /\ UNCHANGED <<table, named>>
    BY <1>2 DEF TypeOK, TableInStep
  <1>3. CASE /\ handles' = handles \cup {m} /\ Registers(m)
             /\ table' = Put(table, Driver[m], m) /\ named' = named \cup {m}
    <2>1. Driver[m] \in Names /\ Driver[m] \notin DOMAIN table
      BY <1>3 DEF Names, Registers
    <2>2. /\ DOMAIN table' = DOMAIN table \cup {Driver[m]} /\ table'[Driver[m]] = m
          /\ \A n \in DOMAIN table : table'[n] = table[n]
      BY <1>3, <2>1 DEF Put
    <2>3. {table'[n] : n \in DOMAIN table'} = {table[n] : n \in DOMAIN table} \cup {m}
      BY <2>1, <2>2
    <2> QED  BY <1>3, <2>1, <2>2, <2>3 DEF TypeOK, TableInStep
  <1> QED  BY <1>1, <1>2, <1>3 DEF Load

\* The destructors erase the entries of their own modules.
LEMMA UnloadTable ==
  ASSUME TypeOK, TableInStep, NEW ms, handles' = handles \ ms, Unregister(ms)
  PROVE  /\ handles' \subseteq Modules
         /\ DOMAIN table' \subseteq Names /\ \A n \in DOMAIN table' : table'[n] \in Modules
         /\ TableInStep'
  <1>1. /\ DOMAIN table' = DOMAIN table \ {Driver[m] : m \in ms \cap named}
        /\ \A n \in DOMAIN table' : table'[n] = table[n]
        /\ named' = named \ ms
    BY DEF Unregister, Restrict
  <1>2. \A n \in DOMAIN table : n \in DOMAIN table' <=> table[n] \notin ms
    <2> SUFFICES ASSUME NEW n \in DOMAIN table
                 PROVE  n \in {Driver[m] : m \in ms \cap named} <=> table[n] \in ms
      BY <1>1
    <2>1. table[n] \in named /\ Driver[table[n]] = n
      BY DEF TableInStep
    <2>2. ASSUME NEW m \in ms \cap named, Driver[m] = n PROVE table[n] \in ms
      BY <2>2 DEF TableInStep
    <2> QED  BY <2>1, <2>2
  <1>3. named' = {table'[n] : n \in DOMAIN table'}
    BY <1>1, <1>2 DEF TableInStep
  <1> QED  BY <1>1, <1>3, Zenon DEF TypeOK, TableInStep

\* The steps that change the function table.
RegistryStep(t) ==
  \/ LoadNext(t) \/ unloadModules(t)
  \/ \E m \in Modules : loadModule(t, m) \/ unloadModule(t, m)

\* What the others leave alone.
LEMMA RegistryFrame ==
  ASSUME [Next]_vars, ~\E t \in Threads : RegistryStep(t)
  PROVE  UNCHANGED <<handles, table, named, overlap>>
  BY ZenonT(30) DEF Next, Tick, FindStep, FindReturns, CallStep, UserStep, RegistryStep, automaticLoadModules,
         LoadModulesEnds, CleanCache, ListFindFunctions, LaunchEnds, LaunchFind, LaunchFails,
         Evaluate, Collect, enumerate, loadModules, vars, registry

\* What the steps of the registry do.
LEMMA RegistrySteps ==
  ASSUME TypeOK, NEW t \in Threads, RegistryStep(t)
  PROVE  /\ UNCHANGED <<now, enumerating, cache, finds, thrown, loaded>>
         /\ todo' = todo \/ (todo # <<>> /\ todo' = Tail(todo))
         /\ \/ overlap' = overlap /\ \E m \in Modules : Load(m)
            \/ /\ pc[t] = "idle" /\ overlap' = (overlap \/ \E u \in Threads : pc[u] # "idle")
               /\ \E ms : handles' = handles \ ms /\ Unregister(ms)
  <1>1. CASE LoadNext(t)
    <2>1. Head(todo) \in Modules
      BY <1>1 DEF TypeOK, LoadNext
    <2> QED  BY <1>1, <2>1 DEF LoadNext
  <1>2. CASE unloadModules(t)
    BY <1>2 DEF unloadModules, Unload
  <1>3. ASSUME NEW m \in Modules, loadModule(t, m)
        PROVE  /\ UNCHANGED <<now, enumerating, cache, finds, thrown, loaded, overlap, todo>>
               /\ Load(m)
    BY <1>3 DEF loadModule
  <1>4. ASSUME NEW m \in Modules, unloadModule(t, m)
        PROVE  /\ UNCHANGED <<now, enumerating, cache, finds, thrown, loaded, todo>>
               /\ pc[t] = "idle" /\ overlap' = (overlap \/ \E u \in Threads : pc[u] # "idle")
               /\ \E ms : handles' = handles \ ms /\ Unregister(ms)
    BY <1>4 DEF unloadModule, Unload
  <1> QED  BY <1>1, <1>2, <1>3, <1>4 DEF RegistryStep

\* Every step keeps the function table and the registries in step.
LEMMA NextTable ==
  ASSUME TypeOK, TableInStep, [Next]_vars
  PROVE  /\ handles' \subseteq Modules
         /\ DOMAIN table' \subseteq Names /\ \A n \in DOMAIN table' : table'[n] \in Modules
         /\ TableInStep'
  <1>1. CASE UNCHANGED <<handles, table, named>>
    BY <1>1 DEF TypeOK, TableInStep
  <1>2. ASSUME NEW t \in Threads, RegistryStep(t)
        PROVE  (\E m \in Modules : Load(m)) \/ (\E ms : handles' = handles \ ms /\ Unregister(ms))
    BY <1>2, RegistrySteps
  <1> QED  BY <1>1, <1>2, RegistryFrame, LoadTable, UnloadTable

-------------------------------------------------------------------------------
(* The types.                                                               *)

\* A find changes its status and nothing else.
LEMMA StatusOnly ==
  ASSUME finds \in Seq(Find), NEW f \in DOMAIN finds, NEW s \in Status, SetStatus(f, s)
  PROVE  /\ finds' \in Seq(Find) /\ DOMAIN finds' = DOMAIN finds
         /\ finds'[f].status = s
         /\ \A g \in DOMAIN finds : /\ finds'[g].module = finds[g].module
                                    /\ g # f => finds'[g] = finds[g]
  <1>1. finds[f] \in Find /\ f \in 1..Len(finds)
    OBVIOUS
  <1>2. [finds[f] EXCEPT !.status = s] \in Find
    BY <1>1, Zenon DEF Find
  <1>3. finds' = [finds EXCEPT ![f] = [finds[f] EXCEPT !.status = s]]
    BY DEF SetStatus
  <1>4. finds' \in Seq(Find)
    BY <1>1, <1>2, <1>3
  <1>5. [finds[f] EXCEPT !.status = s].status = s /\ [finds[f] EXCEPT !.status = s].module = finds[f].module
    BY <1>1 DEF Find
  <1> QED  BY <1>1, <1>3, <1>4, <1>5, Zenon

\* A launch takes a find from the cache, or puts a new one there.
LEMMA LaunchFacts ==
  ASSUME TypeOK, NEW t \in Threads, NEW n \in Names, LaunchFind(t, n)
  PROVE  \E f :
         /\ pc[t] = "launch" /\ n \in DOMAIN functions[t]
         /\ futures' = [futures EXCEPT ![t] = @ \cup {f}]
         /\ functions' = [functions EXCEPT ![t] = Restrict(@, DOMAIN @ \ {n})]
         /\ finds' \in Seq(Find) /\ f \in DOMAIN finds' /\ DOMAIN finds \subseteq DOMAIN finds'
         /\ \A g \in DOMAIN finds : finds'[g] = finds[g]
         /\ \/ finds' = finds /\ cache' = cache
            \/ /\ DOMAIN finds' = DOMAIN finds \cup {f} /\ f \notin DOMAIN finds
               /\ finds'[f].module = functions[t][n]
               /\ \E k : cache' = Put(cache, k, [time |-> now, find |-> f])
         /\ UNCHANGED <<now, registry, pc, args, calls, overlap, thrown>>
  <1> DEFINE k == <<n, args[t]>>
             new == [name |-> n, module |-> functions[t][n],
                     status |-> IF args[t] = AnyDriver THEN "running" ELSE "deferred"]
             f == IF Hit(k) THEN cache[k].find ELSE Len(finds) + 1
  <1>1. finds \in Seq(Find) /\ DOMAIN finds = 1..Len(finds) /\ Len(finds) \in Nat
    BY DEF TypeOK, Find, Status
  <1>2. /\ pc[t] = "launch" /\ n \in DOMAIN functions[t]
        /\ futures' = [futures EXCEPT ![t] = @ \cup {f}]
        /\ functions' = [functions EXCEPT ![t] = Restrict(@, DOMAIN @ \ {n})]
        /\ IF Hit(k) THEN UNCHANGED <<finds, cache>>
           ELSE finds' = Append(finds, new) /\ cache' = Put(cache, k, [time |-> now, find |-> f])
        /\ UNCHANGED <<now, registry, pc, args, calls, overlap, thrown>>
    BY DEF LaunchFind, Launched
  <1>3. CASE Hit(k)
    <2>1. f \in DOMAIN finds /\ finds' = finds /\ cache' = cache
      BY <1>2, <1>3, Zenon DEF Hit, TypeOK
    <2> QED  BY <1>1, <1>2, <2>1, Zenon
  <1>4. CASE ~Hit(k)
    <2>1. new \in Find /\ new.module = functions[t][n]
      BY <1>2 DEF TypeOK, Find, Status
    <2>2. finds' = Append(finds, new) /\ f = Len(finds) + 1
          /\ cache' = Put(cache, k, [time |-> now, find |-> f])
      BY <1>2, <1>4
    <2>3. finds' \in Seq(Find) /\ Len(finds') = Len(finds) + 1
      BY <1>1, <2>1, <2>2
    <2>4. finds'[f] = new /\ \A g \in DOMAIN finds : finds'[g] = finds[g]
      BY <1>1, <2>1, <2>2
    <2>5. DOMAIN finds' = 1..(Len(finds) + 1)
      BY <2>3
    <2>6. DOMAIN finds' = DOMAIN finds \cup {f} /\ f \notin DOMAIN finds
      BY <1>1, <2>2, <2>5
    <2> HIDE DEF k, new, f
    <2> QED  BY <1>2, <2>1, <2>2, <2>3, <2>4, <2>6, Zenon
  <1> QED  BY <1>3, <1>4, Zenon

\* Initially nothing is loaded and nobody calls.
LEMMA InitEnumeration == Init => EnumerationInv
  <1> SUFFICES ASSUME Init PROVE EnumerationInv
    OBVIOUS
  <1>1. finds \in Seq(Find) /\ DOMAIN finds = {} /\ todo \in Seq(Modules)
    BY DEF Init
  <1>2. DOMAIN table = {} /\ DOMAIN cache = {} /\ \A t \in Threads : DOMAIN functions[t] = {}
    BY DEF Init
  <1>3. TypeOK
    BY <1>1, <1>2 DEF Init, TypeOK, Find, Status, Args
  <1>4. TableInStep
    BY <1>2 DEF Init, TableInStep
  <1>5. LoadedFirst /\ FindsInStep
    BY <1>1, <1>2 DEF Init, LoadedFirst, FindsInStep
  <1> QED  BY <1>3, <1>4, <1>5 DEF EnumerationInv

\* The part of TypeOK that is not about the registry.
CallTypes ==
  /\ now \in 0..MaxTime /\ todo \in Seq(Modules)
  /\ pc \in [Threads -> {"idle", "auto", "loading", "loadModules", "clean", "list", "launch", "collect"}]
  /\ args \in [Threads -> Args]
  /\ DOMAIN functions = Threads /\ DOMAIN futures = Threads
  /\ finds \in Seq(Find)
  /\ \A t \in Threads : DOMAIN functions[t] \subseteq Names /\ futures[t] \subseteq DOMAIN finds
  /\ \A t \in Threads : \A n \in DOMAIN functions[t] : functions[t][n] \in Modules
  /\ \A k \in DOMAIN cache : cache[k].find \in DOMAIN finds \cup {0}

\* Every step of a call, of a find and of the clock keeps the types.
LEMMA NextTypes ==
  ASSUME EnumerationInv, [Next]_vars
  PROVE  TypeOK'
  <1> SUFFICES CallTypes'
    BY NextTable, Zenon DEF EnumerationInv, CallTypes, TypeOK, Find, Status
  <1>0. CallTypes /\ TypeOK
    BY DEF EnumerationInv, CallTypes, TypeOK, Find, Status
  <1>1. CASE UNCHANGED vars
    BY <1>0, <1>1 DEF CallTypes, vars, enumerating, registry
  <1>2. CASE Tick
    BY <1>0, <1>2 DEF CallTypes, Tick, enumerating, registry
  <1>3. ASSUME NEW f \in DOMAIN finds, NEW s \in Status, SetStatus(f, s),
               UNCHANGED <<now, todo, enumerating, cache>>
        PROVE  CallTypes'
    BY <1>0, <1>3, StatusOnly DEF CallTypes, enumerating
  <1>4. CASE FindStep
    <2>1. PICK f \in DOMAIN finds : FindReturns(f)
      BY <1>4 DEF FindStep
    <2> QED  BY <1>3, <2>1 DEF FindReturns, registry, Status
  <1>5. ASSUME NEW t \in Threads, RegistryStep(t) PROVE CallTypes'
    <2>1. todo' = todo \/ (todo # <<>> /\ todo' = Tail(todo))
      BY <1>0, <1>5, RegistrySteps
    <2>2. todo \in Seq(Modules) /\ (todo # <<>> => Tail(todo) \in Seq(Modules))
      BY <1>0 DEF CallTypes
    <2> QED  BY <1>0, <1>5, <2>1, <2>2, RegistrySteps, Zenon DEF CallTypes, enumerating
  <1>6. ASSUME NEW t \in Threads,
               LoadModulesEnds(t) \/ automaticLoadModules(t) \/ loadModules(t) \/ LaunchEnds(t)
                 \/ (\E a \in Args : enumerate(t, a))
        PROVE  CallTypes'
    <2>1. /\ UNCHANGED <<now, functions, futures, cache, finds>>
          /\ todo' \in {todo, Paths}
          /\ \E where \in {"idle", "auto", "loading", "loadModules", "clean", "collect"} : Goto(t, where)
      BY <1>6 DEF LoadModulesEnds, automaticLoadModules, loadModules, LaunchEnds, enumerate, registry
    <2>2. args' = args \/ \E a \in Args : args' = [args EXCEPT ![t] = a]
      BY <1>6 DEF LoadModulesEnds, automaticLoadModules, loadModules, LaunchEnds, enumerate, registry
    <2>3. args' \in [Threads -> Args]
      BY <1>0, <2>2, Zenon DEF CallTypes
    <2>4. todo' \in Seq(Modules)
      BY <1>0, <2>1, Zenon DEF CallTypes
    <2> QED  BY <1>0, <2>1, <2>3, <2>4, Zenon DEF CallTypes, Goto
  <1>7. ASSUME NEW t \in Threads, CleanCache(t) PROVE CallTypes'
    <2>1. \A k \in DOMAIN cache' : k \in DOMAIN cache /\ cache'[k] = cache[k]
      BY <1>7 DEF CleanCache, Restrict
    <2> QED  BY <1>0, <1>7, <2>1, Zenon DEF CallTypes, CleanCache, Goto, registry
  <1>8. ASSUME NEW t \in Threads, ListFindFunctions(t) PROVE CallTypes'
    <2>1. /\ DOMAIN functions' = Threads /\ DOMAIN functions'[t] \subseteq DOMAIN table
          /\ \A n \in DOMAIN functions'[t] : functions'[t][n] = table[n]
          /\ \A u \in Threads : u # t => functions'[u] = functions[u]
      BY <1>0, <1>8 DEF CallTypes, ListFindFunctions, Restrict
    <2> QED  BY <1>0, <1>8, <2>1, Zenon DEF CallTypes, TypeOK, ListFindFunctions, Goto, registry
  <1>9. ASSUME NEW t \in Threads, NEW n \in Names, LaunchFind(t, n) PROVE CallTypes'
    <2>1. PICK f :
         /\ futures' = [futures EXCEPT ![t] = @ \cup {f}]
         /\ functions' = [functions EXCEPT ![t] = Restrict(@, DOMAIN @ \ {n})]
         /\ finds' \in Seq(Find) /\ f \in DOMAIN finds' /\ DOMAIN finds \subseteq DOMAIN finds'
         /\ \/ finds' = finds /\ cache' = cache
            \/ \E k : cache' = Put(cache, k, [time |-> now, find |-> f])
         /\ UNCHANGED <<now, registry, pc, args, calls, overlap, thrown>>
      BY <1>0, <1>9, LaunchFacts, ZenonT(30)
    <2>2. /\ DOMAIN functions' = Threads /\ DOMAIN functions'[t] \subseteq DOMAIN functions[t]
          /\ \A m \in DOMAIN functions'[t] : functions'[t][m] = functions[t][m]
          /\ \A u \in Threads : u # t => functions'[u] = functions[u]
      BY <1>0, <2>1 DEF CallTypes, Restrict
    <2>3. \A k \in DOMAIN cache' : cache'[k].find \in DOMAIN finds' \cup {0}
      <3>1. CASE cache' = cache
        BY <1>0, <2>1, <3>1 DEF CallTypes
      <3>2. ASSUME NEW k, cache' = Put(cache, k, [time |-> now, find |-> f])
            PROVE  \A j \in DOMAIN cache' : cache'[j].find \in DOMAIN finds' \cup {0}
        <4>1. \A j \in DOMAIN cache' : cache'[j].find = f \/ (j \in DOMAIN cache /\ cache'[j] = cache[j])
          BY <3>2 DEF Put
        <4> QED  BY <1>0, <2>1, <4>1 DEF CallTypes
      <3> QED  BY <2>1, <3>1, <3>2
    <2>4. \A u \in Threads : futures'[u] \subseteq DOMAIN finds'
      BY <1>0, <2>1 DEF CallTypes
    <2>5. DOMAIN futures' = Threads
      BY <1>0, <2>1 DEF CallTypes
    <2> QED  BY <1>0, <2>1, <2>2, <2>3, <2>4, <2>5, Zenon DEF CallTypes, registry
  <1>10. ASSUME NEW t \in Threads, NEW n \in Names, LaunchFails(t, n) PROVE CallTypes'
    <2>1. \A j \in DOMAIN cache' : cache'[j].find = 0 \/ (j \in DOMAIN cache /\ cache'[j] = cache[j])
      BY <1>10 DEF LaunchFails, Put
    <2>2. DOMAIN functions'[t] = {} /\ \A u \in Threads : u # t => functions'[u] = functions[u]
      BY <1>0, <1>10 DEF LaunchFails, CallTypes
    <2>3. futures'[t] = {} /\ \A u \in Threads : u # t => futures'[u] = futures[u]
      BY <1>0, <1>10 DEF LaunchFails, CallTypes
    <2> QED  BY <1>0, <1>10, <2>1, <2>2, <2>3, Zenon DEF LaunchFails, CallTypes, Goto, registry
  <1>11. ASSUME NEW t \in Threads, Evaluate(t) PROVE CallTypes'
    <2>1. PICK f \in futures[t] : SetStatus(f, "running")
      BY <1>11 DEF Evaluate
    <2>2. f \in DOMAIN finds
      BY <1>0, Zenon DEF CallTypes
    <2> QED  BY <1>3, <1>11, <2>1, <2>2 DEF Evaluate, registry, Status
  <1>12. ASSUME NEW t \in Threads, Collect(t) PROVE CallTypes'
    BY <1>0, <1>12 DEF Collect, CallTypes, Goto, registry
  <1> QED  BY <1>1, <1>2, <1>4, <1>5, <1>6, <1>7, <1>8, <1>9, <1>10, <1>11, <1>12, Zenon
           DEF Next, CallStep, UserStep, RegistryStep

-------------------------------------------------------------------------------
(* The loading of the modules.                                              *)

\* A thread goes ahead only when the module mutex is free.
LEMMA NextLoaded ==
  ASSUME TypeOK, LoadedFirst, NotHalfLoaded, [Next]_vars
  PROVE  (LoadedFirst /\ NotHalfLoaded)'
  <1>1. CASE UNCHANGED <<pc, loaded>>
    BY <1>1 DEF LoadedFirst, NotHalfLoaded
  <1>2. ASSUME NEW t \in Threads, automaticLoadModules(t) PROVE (LoadedFirst /\ NotHalfLoaded)'
    <2>1. loaded' = TRUE /\ MutexFree /\ ((~loaded /\ Goto(t, "loading")) \/ Goto(t, "clean"))
      BY <1>2, Zenon DEF automaticLoadModules
    <2> QED  BY <2>1 DEF TypeOK, LoadedFirst, NotHalfLoaded, MutexFree, Goto
  <1>3. ASSUME NEW t \in Threads, loadModules(t) PROVE (LoadedFirst /\ NotHalfLoaded)'
    BY <1>3, Zenon DEF TypeOK, LoadedFirst, NotHalfLoaded, loadModules, MutexFree, Goto
  <1>4. ASSUME NEW t \in Threads, loaded' = loaded,
               \/ LoadModulesEnds(t) \/ CleanCache(t) \/ ListFindFunctions(t) \/ LaunchEnds(t)
               \/ (\E n \in Names : LaunchFails(t, n)) \/ Collect(t)
               \/ (\E a \in Args : enumerate(t, a))
        PROVE  (LoadedFirst /\ NotHalfLoaded)'
    <2>1. \/ Goto(t, "idle") \/ Goto(t, "auto")
          \/ /\ Goto(t, "clean") \/ Goto(t, "list") \/ Goto(t, "launch") \/ Goto(t, "collect")
             /\ pc[t] \in {"loading", "clean", "list", "launch"}
      BY <1>4, Zenon DEF LoadModulesEnds, CleanCache, ListFindFunctions, LaunchEnds, LaunchFails, Collect, enumerate
    <2> QED  BY <1>4, <2>1, ZenonT(30) DEF TypeOK, LoadedFirst, NotHalfLoaded, Goto
  <1>5. ASSUME NEW t \in Threads, CallStep(t) \/ UserStep(t)
        PROVE  \/ UNCHANGED <<pc, loaded>> \/ automaticLoadModules(t) \/ loadModules(t)
               \/ /\ loaded' = loaded
                  /\ \/ LoadModulesEnds(t) \/ CleanCache(t) \/ ListFindFunctions(t) \/ LaunchEnds(t)
                     \/ (\E n \in Names : LaunchFails(t, n)) \/ Collect(t)
                     \/ (\E a \in Args : enumerate(t, a))
    <2>1. RegistryStep(t) => UNCHANGED <<pc, loaded>>
      BY RegistrySteps DEF enumerating
    <2>2. (\E n \in Names : LaunchFind(t, n)) \/ Evaluate(t) => UNCHANGED <<pc, loaded>>
      BY Zenon DEF LaunchFind, Evaluate, enumerating, registry
    <2>3. (\/ LoadModulesEnds(t) \/ CleanCache(t) \/ ListFindFunctions(t) \/ LaunchEnds(t)
           \/ (\E n \in Names : LaunchFails(t, n)) \/ Collect(t)
           \/ (\E a \in Args : enumerate(t, a))) => loaded' = loaded
      BY Zenon DEF LoadModulesEnds, CleanCache, ListFindFunctions, LaunchEnds, LaunchFails, Collect,
             enumerate, registry
    <2> QED  BY <1>5, <2>1, <2>2, <2>3 DEF CallStep, UserStep, RegistryStep
  <1>6. Tick \/ FindStep \/ UNCHANGED vars => UNCHANGED <<pc, loaded>>
    BY DEF Tick, FindStep, FindReturns, vars, enumerating, registry
  <1> QED  BY <1>1, <1>2, <1>3, <1>4, <1>5, <1>6 DEF Next

-------------------------------------------------------------------------------
(* The finds.                                                               *)

\* A load adds modules; an unload is an overlap, or finds nobody enumerating.
LEMMA RegistryFinds ==
  ASSUME EnumerationInv, NEW t \in Threads, RegistryStep(t)
  PROVE  FindsInStep'
  <1>1. /\ UNCHANGED <<enumerating, finds, thrown>>
        /\ \/ overlap' = overlap /\ \E m \in Modules : Load(m)
           \/ overlap' = (overlap \/ \E u \in Threads : pc[u] # "idle")
    BY RegistrySteps DEF EnumerationInv
  <1>2. CASE overlap' = overlap /\ \E m \in Modules : Load(m)
    <2>1. handles \subseteq handles'
      BY <1>2, LoadTable DEF EnumerationInv
    <2> QED  BY <1>1, <1>2, <2>1 DEF EnumerationInv, FindsInStep, Live, enumerating
  <1>3. CASE overlap' = (overlap \/ \E u \in Threads : pc[u] # "idle")
    <2>1. ASSUME ~overlap' PROVE \A u \in Threads : DOMAIN functions[u] = {} /\ futures[u] = {}
      BY <1>3, <2>1, Zenon DEF EnumerationInv, FindsInStep
    <2>2. ASSUME ~overlap', ~thrown, NEW f \in DOMAIN finds PROVE ~Live(f)
      BY <2>1, <2>2 DEF EnumerationInv, FindsInStep
    <2> QED  BY <1>1, <2>1, <2>2 DEF EnumerationInv, FindsInStep, Live, enumerating
  <1> QED  BY <1>1, <1>2, <1>3

\* A find that goes on is awaited as before, and one that ends need not be.
LEMMA StatusFinds ==
  ASSUME EnumerationInv, NEW f \in DOMAIN finds, NEW s \in Status, SetStatus(f, s), Live(f),
         UNCHANGED <<registry, enumerating, overlap, thrown>>
  PROVE  FindsInStep'
  <1>1. finds \in Seq(Find)
    BY DEF EnumerationInv, TypeOK, Find, Status
  <1>2. /\ DOMAIN finds' = DOMAIN finds
        /\ \A g \in DOMAIN finds : /\ finds'[g].module = finds[g].module
                                   /\ g # f => finds'[g] = finds[g]
    BY <1>1, StatusOnly
  <1>3. \A g \in DOMAIN finds : finds'[g].status \in {"deferred", "running"} => Live(g)
    BY <1>2 DEF Live
  <1>4. UNCHANGED <<pc, functions, futures, handles, overlap, thrown>>
    BY DEF enumerating, registry
  <1> QED  BY <1>2, <1>3, <1>4 DEF EnumerationInv, FindsInStep, Live

\* The find that was launched is a future of the thread, and its module was in
\* the table when the thread listed the functions.
LEMMA LaunchFinds ==
  ASSUME EnumerationInv, NEW t \in Threads, NEW n \in Names, LaunchFind(t, n)
  PROVE  FindsInStep'
  <1>0. TypeOK /\ FindsInStep
    BY Zenon DEF EnumerationInv
  <1>1. PICK f :
         /\ pc[t] = "launch" /\ n \in DOMAIN functions[t]
         /\ futures' = [futures EXCEPT ![t] = @ \cup {f}]
         /\ functions' = [functions EXCEPT ![t] = Restrict(@, DOMAIN @ \ {n})]
         /\ \A g \in DOMAIN finds : finds'[g] = finds[g]
         /\ \/ finds' = finds /\ cache' = cache
            \/ /\ DOMAIN finds' = DOMAIN finds \cup {f} /\ f \notin DOMAIN finds
               /\ finds'[f].module = functions[t][n]
         /\ UNCHANGED <<now, registry, pc, args, calls, overlap, thrown>>
    BY <1>0, LaunchFacts, Zenon
  <1>2. /\ DOMAIN functions'[t] \subseteq DOMAIN functions[t]
        /\ \A m \in DOMAIN functions'[t] : functions'[t][m] = functions[t][m]
        /\ \A u \in Threads : u # t => functions'[u] = functions[u]
    BY <1>0, <1>1 DEF TypeOK, Restrict
  <1>3. /\ futures'[t] = futures[t] \cup {f}
        /\ \A u \in Threads : u # t => futures'[u] = futures[u]
    BY <1>0, <1>1 DEF TypeOK
  <1>4. \A g \in DOMAIN finds' : g \in DOMAIN finds \/ (g = f /\ finds'[f].module = functions[t][n])
    BY <1>1
  <1>5. \A g \in DOMAIN finds : Live(g)' = Live(g) /\ finds'[g].module = finds[g].module
    BY <1>1, Zenon DEF Live
  <1>6. UNCHANGED <<handles, pc, overlap, thrown>>
    BY <1>1, Zenon DEF registry
  <1>7. \A u \in Threads : /\ pc'[u] # "launch" => DOMAIN functions'[u] = {}
                           /\ pc'[u] \notin {"launch", "collect"} => futures'[u] = {}
    BY <1>0, <1>1, <1>2, <1>3, <1>6 DEF FindsInStep
  <1>8. ASSUME ~thrown, NEW g \in DOMAIN finds', Live(g)' PROVE \E u \in Threads : g \in futures'[u]
    <2>1. CASE g \in DOMAIN finds
      <3>1. PICK u \in Threads : g \in futures[u]
        BY <1>0, <1>5, <1>8, <2>1 DEF FindsInStep
      <3> QED  BY <1>3, <3>1
    <2>2. CASE g = f
      BY <1>3, <2>2, Zenon
    <2> QED  BY <1>4, <2>1, <2>2, Zenon
  <1>9. ~overlap => \A u \in Threads : \A m \in DOMAIN functions'[u] : functions'[u][m] \in handles
    BY <1>0, <1>2, Zenon DEF FindsInStep
  <1>10. ~overlap /\ ~thrown => \A g \in DOMAIN finds' : Live(g)' => finds'[g].module \in handles
    BY <1>0, <1>1, <1>4, <1>5 DEF FindsInStep
  <1>11. ~thrown' => \A g \in DOMAIN finds' : Live(g)' => \E u \in Threads : g \in futures'[u]
    BY <1>6, <1>8
  <1>12. ~overlap' => \A u \in Threads : \A m \in DOMAIN functions'[u] : functions'[u][m] \in handles'
    BY <1>6, <1>9
  <1>13. ~overlap' /\ ~thrown' => \A g \in DOMAIN finds' : Live(g)' => finds'[g].module \in handles'
    BY <1>6, <1>10
  <1> QED  BY <1>7, <1>11, <1>12, <1>13 DEF FindsInStep, Live

\* The other steps of a thread: it leaves with nothing, or goes on.
LEMMA CallFinds ==
  ASSUME EnumerationInv, NEW t \in Threads, finds' = finds, handles' = handles, overlap' = overlap,
         \/ enumerating' = enumerating /\ thrown' = thrown
         \/ LoadModulesEnds(t) \/ automaticLoadModules(t) \/ loadModules(t) \/ CleanCache(t)
         \/ ListFindFunctions(t) \/ LaunchEnds(t) \/ Collect(t)
         \/ (\E n \in Names : LaunchFails(t, n)) \/ (\E a \in Args : enumerate(t, a))
  PROVE  FindsInStep'
  <1>0. TypeOK /\ FindsInStep /\ TableInStep
    BY Zenon DEF EnumerationInv
  <1>1. CASE enumerating' = enumerating /\ thrown' = thrown
    BY <1>0, <1>1, Zenon DEF FindsInStep, Live, enumerating
  <1>2. CASE \/ LoadModulesEnds(t) \/ automaticLoadModules(t) \/ loadModules(t) \/ CleanCache(t)
             \/ (\E a \in Args : enumerate(t, a))
    <2>1. /\ UNCHANGED <<functions, futures, thrown>>
          /\ pc[t] \notin {"launch", "collect"}
          /\ \E where : Goto(t, where)
      BY <1>2, Zenon DEF LoadModulesEnds, automaticLoadModules, loadModules, CleanCache, enumerate
    <2> QED  BY <1>0, <2>1, Zenon DEF TypeOK, FindsInStep, Live, Goto
  <1>3. CASE ListFindFunctions(t)
    <2>1. /\ DOMAIN functions'[t] \subseteq DOMAIN table
          /\ \A n \in DOMAIN functions'[t] : functions'[t][n] = table[n]
          /\ \A u \in Threads : u # t => functions'[u] = functions[u]
      BY <1>0, <1>3, Zenon DEF TypeOK, ListFindFunctions, Restrict
    <2>2. \A n \in DOMAIN table : table[n] \in handles
      BY <1>0, Zenon DEF TableInStep
    <2>3. /\ UNCHANGED <<futures, thrown>> /\ pc[t] = "list" /\ Goto(t, "launch")
      BY <1>3, Zenon DEF ListFindFunctions
    <2> QED  BY <1>0, <2>1, <2>2, <2>3, ZenonT(30) DEF TypeOK, FindsInStep, Live, Goto
  <1>4. CASE LaunchEnds(t)
    <2>1. /\ UNCHANGED <<functions, futures, thrown>> /\ pc[t] = "launch" /\ Goto(t, "collect")
          /\ DOMAIN functions[t] = {}
      BY <1>4 DEF LaunchEnds
    <2> QED  BY <1>0, <2>1, Zenon DEF TypeOK, FindsInStep, Live, Goto
  <1>5. CASE Collect(t)
    <2>1. /\ UNCHANGED <<functions, thrown>> /\ pc[t] = "collect" /\ Goto(t, "idle")
          /\ futures'[t] = {} /\ \A u \in Threads : u # t => futures'[u] = futures[u]
      BY <1>0, <1>5, Zenon DEF TypeOK, Collect
    <2>2. \A f \in futures[t] : ~Live(f)
      BY <1>5, Zenon DEF Collect, Live
    <2>3. ~thrown => \A f \in DOMAIN finds : Live(f) => \E u \in Threads : f \in futures'[u]
      BY <1>0, <2>1, <2>2, Zenon DEF FindsInStep
    <2> QED  BY <1>0, <2>1, <2>3, Zenon DEF TypeOK, FindsInStep, Live, Goto
  <1>6. ASSUME NEW n \in Names, LaunchFails(t, n) PROVE FindsInStep'
    <2>1. /\ thrown' = TRUE /\ Goto(t, "idle")
          /\ futures'[t] = {} /\ \A u \in Threads : u # t => futures'[u] = futures[u]
          /\ DOMAIN functions'[t] = {} /\ \A u \in Threads : u # t => functions'[u] = functions[u]
      BY <1>0, <1>6 DEF TypeOK, LaunchFails
    <2> QED  BY <1>0, <2>1, Zenon DEF TypeOK, FindsInStep, Goto
  <1> QED  BY <1>1, <1>2, <1>3, <1>4, <1>5, <1>6

\* Every step keeps the finds awaited.
LEMMA NextFinds ==
  ASSUME EnumerationInv, [Next]_vars
  PROVE  FindsInStep'
  <1>1. CASE UNCHANGED vars \/ Tick
    BY <1>1 DEF EnumerationInv, FindsInStep, Live, vars, Tick, enumerating, registry
  <1>2. CASE FindStep
    <2>1. PICK f \in DOMAIN finds : FindReturns(f)
      BY <1>2 DEF FindStep
    <2>2. Live(f)
      BY <2>1 DEF Live, FindReturns
    <2> QED  BY <2>1, <2>2, StatusFinds DEF FindReturns, Status
  <1>3. ASSUME NEW t \in Threads, Evaluate(t) PROVE FindsInStep'
    <2>1. PICK f \in futures[t] : finds[f].status = "deferred" /\ SetStatus(f, "running")
      BY <1>3 DEF Evaluate
    <2>2. Live(f) /\ f \in DOMAIN finds
      BY <2>1 DEF Live, EnumerationInv, TypeOK
    <2> QED  BY <1>3, <2>1, <2>2, StatusFinds DEF Evaluate, Status
  <1>4. ASSUME NEW t \in Threads,
               \/ LoadModulesEnds(t) \/ automaticLoadModules(t) \/ loadModules(t) \/ CleanCache(t)
               \/ ListFindFunctions(t) \/ LaunchEnds(t) \/ Collect(t)
               \/ (\E n \in Names : LaunchFails(t, n)) \/ (\E a \in Args : enumerate(t, a))
        PROVE  FindsInStep'
    <2>1. finds' = finds /\ handles' = handles /\ overlap' = overlap
      BY <1>4, Zenon DEF LoadModulesEnds, automaticLoadModules, loadModules, CleanCache, ListFindFunctions,
                  LaunchEnds, Collect, LaunchFails, enumerate, registry
    <2> QED  BY <1>4, <2>1, CallFinds
  <1> QED  BY <1>1, <1>2, <1>3, <1>4, RegistryFinds, LaunchFinds
           DEF Next, CallStep, UserStep, RegistryStep

-------------------------------------------------------------------------------
\* The load and the finds in one invariant: with LoadedFirst, NotHalfLoaded is
\* inductive too.
LEMMA EnumerationInduction == Spec => [](EnumerationInv /\ NotHalfLoaded)
  <1>1. Init => NotHalfLoaded
    BY DEF Init, NotHalfLoaded
  <1>2. EnumerationInv /\ NotHalfLoaded /\ [Next]_vars => (EnumerationInv /\ NotHalfLoaded)'
    BY NextTable, NextTypes, NextLoaded, NextFinds DEF EnumerationInv
  <1> QED  BY InitEnumeration, <1>1, <1>2, PTL DEF Spec

\* enumerate, the registry and the loader stay in step, although enumerate gives
\* up its mutexes between the drivers and while it waits.
THEOREM EnumerationInvariant == Spec => []EnumerationInv
  BY EnumerationInduction, PTL

\* No enumerate looks for devices in the modules loaded so far while another
\* loads the rest: automaticLoadModules keeps its mutex for the whole load.
THEOREM NotHalfLoadedInvariant == Spec => []NotHalfLoaded
  BY EnumerationInduction, PTL

\* Unless a find could not be launched, a cached find that runs is awaited.
THEOREM CachedIsAwaitedInvariant == Spec => []CachedIsAwaited
  <1>1. EnumerationInv => CachedIsAwaited
    BY DEF EnumerationInv, TypeOK, FindsInStep, Live, CachedIsAwaited
  <1> QED  BY EnumerationInvariant, <1>1, PTL
===============================================================================
