----------------------------- MODULE Enumeration -----------------------------
(***************************************************************************)
(* Device::enumerate of SoapySDR with its cache of results (lib/Factory),  *)
(* the registry of drivers (lib/Registry) and the loading of the modules   *)
(* that register them (lib/Modules).  Threads enumerate, load and unload   *)
(* at will.  enumerate gives up its mutexes between the drivers and while  *)
(* it waits for the find functions, which run in threads of their own, or  *)
(* in the caller's when it asked for one driver only.                      *)
(*                                                                         *)
(* Each module registers one driver.  What a find function returns is left *)
(* out, but not that it may fail, and so are the null device and what the  *)
(* loader reports.  The function table changes in one step: that a         *)
(* destructor erases from it without the registry's mutex is not modelled. *)
(***************************************************************************)
EXTENDS Integers, Sequences, FiniteSets, Functions

CONSTANTS
    Threads,        \* the threads that call
    Paths,          \* the modules, in the order listModules finds them
    Driver,         \* the driver each module registers
    BadABI,         \* the modules that fail the ABI check
    CACHE_TIMEOUT,
    MaxCalls,       \* bound: calls of enumerate
    MaxChanges,     \* bound: calls that load or unload
    MaxTime         \* bound: the clock

Modules == Range(Paths)
Names == {Driver[m] : m \in Modules}
AnyDriver == "any"
Args == Names \cup {AnyDriver}

ASSUME EnumerationAssumption ==
    /\ Paths \in Seq(Modules)
    /\ DOMAIN Driver = Modules /\ BadABI \subseteq Modules /\ AnyDriver \notin Names
    /\ CACHE_TIMEOUT \in Nat /\ MaxCalls \in Nat /\ MaxChanges \in Nat /\ MaxTime \in Nat

VARIABLES
    now,            \* the clock
    handles,        \* getModuleHandles: the modules that are loaded
    table,          \* getFunctionTable: the module behind each driver
    named,          \* the loaded modules whose Registry has a _name
    loaded,         \* the automatic load has begun
    enableAutomaticLoadModules,
    todo,           \* the modules the automatic load has yet to look at
    pc, args,       \* of each thread
    functions,      \* the find functions a thread has yet to launch
    futures,        \* the finds a thread waits for
    cache,          \* the time and the find of each driver and arguments
    finds,          \* the finds that were launched
    changes,        \* loads and unloads so far
    calls,          \* calls of enumerate so far
    overlap,        \* history: a module was unloaded during an enumerate
    thrown          \* history: a find could not be launched

registry == <<handles, table, named, loaded, enableAutomaticLoadModules, todo, changes>>
enumerating == <<pc, args, functions, futures, calls>>
vars == <<now, registry, enumerating, cache, finds, overlap, thrown>>

Init ==
    /\ now = 0 /\ overlap = FALSE /\ thrown = FALSE
    /\ handles = {} /\ table = <<>> /\ named = {} /\ todo = <<>> /\ changes = 0
    /\ loaded = FALSE /\ enableAutomaticLoadModules = TRUE
    /\ pc = [t \in Threads |-> "idle"] /\ args = [t \in Threads |-> AnyDriver] /\ calls = 0
    /\ functions = [t \in Threads |-> <<>>] /\ futures = [t \in Threads |-> {}]
    /\ cache = <<>> /\ finds = <<>>

-------------------------------------------------------------------------------
(* The registry and the modules.                                            *)

\* The thread that loads all modules holds the module mutex.
MutexFree == \A t \in Threads : pc[t] \notin {"loading", "loadModules"}

Put(f, k, v) == [x \in DOMAIN f \cup {k} |-> IF x = k THEN v ELSE f[x]]

\* Mutant: no duplicate check.
Registers_Replace(m) == m \notin BadABI

\* Whether the constructor of a Registry registers: ABI and duplicate check.
Registers(m) == m \notin BadABI /\ Driver[m] \notin DOMAIN table

\* The rest of loadModule.  dlopen runs the constructor, or fails.
Load(m) ==
    \/ /\ m \notin handles
       /\ handles' = handles \cup {m}
       /\ IF Registers(m) THEN table' = Put(table, Driver[m], m) /\ named' = named \cup {m}
          ELSE UNCHANGED <<table, named>>
    \/ UNCHANGED <<handles, table, named>>

loadModule(t, m) ==
    /\ pc[t] = "idle" /\ MutexFree /\ changes < MaxChanges
    /\ enableAutomaticLoadModules' = FALSE
    /\ Load(m)
    /\ changes' = changes + 1
    /\ UNCHANGED <<now, loaded, todo, enumerating, cache, finds, overlap, thrown>>

\* The destructors of the Registries of the modules that dlclose removes.
Unregister(ms) ==
    /\ table' = Restrict(table, DOMAIN table \ {Driver[m] : m \in ms \cap named})
    /\ named' = named \ ms

\* unloadModule for each of ms; dlclose may refuse some of them.
Unload(t, ms) ==
    /\ pc[t] = "idle" /\ MutexFree /\ changes < MaxChanges
    /\ handles' = handles \ ms /\ Unregister(ms)
    /\ changes' = changes + 1
    /\ overlap' = (overlap \/ \E u \in Threads : pc[u] # "idle")
    /\ UNCHANGED <<now, loaded, enableAutomaticLoadModules, todo, enumerating, cache, finds, thrown>>

unloadModule(t, m) == m \in handles /\ Unload(t, {m})
unloadModules(t) == handles # {} /\ \E ms \in SUBSET handles : Unload(t, ms)

Goto(t, where) == pc' = [pc EXCEPT ![t] = where]

loadModules(t) ==
    /\ pc[t] = "idle" /\ MutexFree /\ changes < MaxChanges
    /\ todo' = Paths /\ Goto(t, "loadModules") /\ changes' = changes + 1
    /\ UNCHANGED <<now, handles, table, named, loaded, enableAutomaticLoadModules, args, functions,
                   futures, calls, cache, finds, overlap, thrown>>

\* One turn of its loop, under the mutex; modules loaded before are passed over.
LoadNext(t) ==
    /\ pc[t] \in {"loading", "loadModules"} /\ todo # <<>>
    /\ Load(Head(todo)) /\ todo' = Tail(todo)
    /\ enableAutomaticLoadModules' = FALSE
    /\ UNCHANGED <<now, loaded, changes, enumerating, cache, finds, overlap, thrown>>

-------------------------------------------------------------------------------
(* enumerate.                                                               *)

enumerate(t, a) ==
    /\ pc[t] = "idle" /\ calls < MaxCalls
    /\ Goto(t, "auto") /\ args' = [args EXCEPT ![t] = a] /\ calls' = calls + 1
    /\ UNCHANGED <<now, registry, functions, futures, cache, finds, overlap, thrown>>

\* Mutant: the mutex is not taken.
automaticLoadModules_NoLock(t) ==
    /\ pc[t] = "auto"
    /\ loaded' = TRUE
    /\ IF ~loaded /\ enableAutomaticLoadModules
       THEN todo' = Paths /\ Goto(t, "loading")
       ELSE Goto(t, "clean") /\ UNCHANGED todo
    /\ UNCHANGED <<now, handles, table, named, enableAutomaticLoadModules, changes, args, functions, futures,
                   calls, cache, finds, overlap, thrown>>

\* The first call loads all modules, unless one was loaded by hand.
automaticLoadModules(t) ==
    /\ pc[t] = "auto" /\ MutexFree
    /\ loaded' = TRUE
    /\ IF ~loaded /\ enableAutomaticLoadModules
       THEN todo' = Paths /\ Goto(t, "loading")
       ELSE Goto(t, "clean") /\ UNCHANGED todo
    /\ UNCHANGED <<now, handles, table, named, enableAutomaticLoadModules, changes, args, functions, futures,
                   calls, cache, finds, overlap, thrown>>

\* loadModules returns, to automaticLoadModules or to the user.
LoadModulesEnds(t) ==
    /\ pc[t] \in {"loading", "loadModules"} /\ todo = <<>>
    /\ Goto(t, IF pc[t] = "loading" THEN "clean" ELSE "idle")
    /\ UNCHANGED <<now, registry, args, functions, futures, calls, cache, finds, overlap, thrown>>

\* Clean expired entries from the cache.
CleanCache(t) ==
    /\ pc[t] = "clean"
    /\ cache' = Restrict(cache, {k \in DOMAIN cache : cache[k].time + CACHE_TIMEOUT >= now})
    /\ Goto(t, "list")
    /\ UNCHANGED <<now, registry, args, functions, futures, calls, finds, overlap, thrown>>

\* listFindFunctions, and those the arguments ask for.
ListFindFunctions(t) ==
    /\ pc[t] = "list"
    /\ functions' = [functions EXCEPT ![t] =
                        Restrict(table, {n \in DOMAIN table : args[t] \in {AnyDriver, n}})]
    /\ Goto(t, "launch")
    /\ UNCHANGED <<now, registry, args, futures, calls, cache, finds, overlap, thrown>>

Launched(t, n) ==
    functions' = [functions EXCEPT ![t] = Restrict(@, DOMAIN @ \ {n})]

\* A valid entry that is not expired.
Hit(k) == k \in DOMAIN cache /\ cache[k].find # 0 /\ cache[k].time > now

\* Search the cache, or launch a find and place it there.
LaunchFind(t, n) ==
    LET k == <<n, args[t]>>
        new == [name |-> n, module |-> functions[t][n],
                status |-> IF args[t] = AnyDriver THEN "running" ELSE "deferred"]
        f == IF Hit(k) THEN cache[k].find ELSE Len(finds) + 1
    IN /\ pc[t] = "launch" /\ n \in DOMAIN functions[t]
       /\ futures' = [futures EXCEPT ![t] = @ \cup {f}]
       /\ IF Hit(k) THEN UNCHANGED <<finds, cache>>
          ELSE finds' = Append(finds, new) /\ cache' = Put(cache, k, [time |-> now, find |-> f])
       /\ Launched(t, n)
       /\ UNCHANGED <<now, registry, pc, args, calls, overlap, thrown>>

\* std::async cannot start a thread and throws, with an empty entry in the cache.
LaunchFails(t, n) ==
    /\ pc[t] = "launch" /\ n \in DOMAIN functions[t] /\ args[t] = AnyDriver
    /\ cache' = IF <<n, AnyDriver>> \in DOMAIN cache THEN cache
                ELSE Put(cache, <<n, AnyDriver>>, [time |-> 0, find |-> 0])
    /\ functions' = [functions EXCEPT ![t] = <<>>] /\ futures' = [futures EXCEPT ![t] = {}]
    /\ Goto(t, "idle") /\ thrown' = TRUE
    /\ UNCHANGED <<now, registry, args, calls, finds, overlap>>

LaunchEnds(t) ==
    /\ pc[t] = "launch" /\ functions[t] = <<>>
    /\ Goto(t, "collect")
    /\ UNCHANGED <<now, registry, args, functions, futures, calls, cache, finds, overlap, thrown>>

SetStatus(f, status) == finds' = [finds EXCEPT ![f].status = status]

\* get runs a deferred find in the caller's thread...
Evaluate(t) ==
    /\ pc[t] = "collect"
    /\ \E f \in futures[t] : finds[f].status = "deferred" /\ SetStatus(f, "running")
    /\ UNCHANGED <<now, registry, enumerating, cache, overlap, thrown>>

\* The find function returns, or throws.
FindReturns(f) ==
    /\ finds[f].status = "running"
    /\ SetStatus(f, "ready") \/ SetStatus(f, "failed")
    /\ UNCHANGED <<now, registry, enumerating, cache, overlap, thrown>>

\* Mutant: an exception from one find ends the collection.
Collect_Throws(t) ==
    /\ pc[t] = "collect"
    /\ \/ \A f \in futures[t] : finds[f].status \in {"ready", "failed"}
       \/ \E f \in futures[t] : finds[f].status = "failed"
    /\ futures' = [futures EXCEPT ![t] = {}]
    /\ Goto(t, "idle")
    /\ UNCHANGED <<now, registry, args, functions, calls, cache, finds, overlap, thrown>>

\* ... and waits for the others; those that failed are logged.
Collect(t) ==
    /\ pc[t] = "collect"
    /\ \A f \in futures[t] : finds[f].status \in {"ready", "failed"}
    /\ futures' = [futures EXCEPT ![t] = {}]
    /\ Goto(t, "idle")
    /\ UNCHANGED <<now, registry, args, functions, calls, cache, finds, overlap, thrown>>

Tick ==
    /\ now < MaxTime
    /\ now' = now + 1
    /\ UNCHANGED <<registry, enumerating, cache, finds, overlap, thrown>>

-------------------------------------------------------------------------------
CallStep(t) ==
    \/ LoadNext(t) \/ automaticLoadModules(t) \/ LoadModulesEnds(t)
    \/ CleanCache(t) \/ ListFindFunctions(t) \/ LaunchEnds(t)
    \/ \E n \in Names : LaunchFind(t, n) \/ LaunchFails(t, n)
    \/ Evaluate(t) \/ Collect(t)

UserStep(t) ==
    \/ \E a \in Args : enumerate(t, a)
    \/ \E m \in Modules : loadModule(t, m) \/ unloadModule(t, m)
    \/ loadModules(t) \/ unloadModules(t)

FindStep == \E f \in DOMAIN finds : FindReturns(f)

Next == Tick \/ FindStep \/ \E t \in Threads : CallStep(t) \/ UserStep(t)

Spec == Init /\ [][Next]_vars

-------------------------------------------------------------------------------
TypeOK ==
    /\ now \in 0..MaxTime /\ handles \subseteq Modules /\ todo \in Seq(Modules)
    /\ DOMAIN table \subseteq Names /\ \A n \in DOMAIN table : table[n] \in Modules
    /\ pc \in [Threads -> {"idle", "auto", "loading", "loadModules", "clean", "list", "launch", "collect"}]
    /\ args \in [Threads -> Args]
    /\ DOMAIN functions = Threads /\ DOMAIN futures = Threads
    /\ finds \in Seq([name : Names, module : Modules,
                      status : {"deferred", "running", "ready", "failed"}])
    /\ \A t \in Threads : DOMAIN functions[t] \subseteq Names /\ futures[t] \subseteq DOMAIN finds
    /\ \A t \in Threads : \A n \in DOMAIN functions[t] : functions[t][n] \in Modules
    /\ \A k \in DOMAIN cache : cache[k].find \in DOMAIN finds \cup {0}

\* The function table leads only to modules that are loaded, and a Registry's
\* destructor erases the entry that it made and no other's, although several
\* modules register the same driver and are unloaded in any order.
TableInStep ==
    /\ named \subseteq handles /\ named = {table[n] : n \in DOMAIN table}
    /\ \A n \in DOMAIN table : Driver[table[n]] = n

\* One thread loads at a time, and those that came past the automatic load
\* found it done.
LoadedFirst ==
    /\ \A t, u \in Threads :
          pc[t] \in {"loading", "loadModules"} /\ pc[u] \in {"loading", "loadModules"} => t = u
    /\ \A t \in Threads : pc[t] \in {"loading", "clean", "list", "launch", "collect"} => loaded

Live(f) == finds[f].status \in {"deferred", "running"}

\* A thread has functions and futures only while it enumerates, every find that
\* is not over is the future of a thread, and neither the find nor a function
\* that is about to be called belongs to a module that was unloaded.
FindsInStep ==
    /\ \A t \in Threads : /\ pc[t] # "launch" => DOMAIN functions[t] = {}
                          /\ pc[t] \notin {"launch", "collect"} => futures[t] = {}
    /\ ~thrown => \A f \in DOMAIN finds : Live(f) => \E t \in Threads : f \in futures[t]
    /\ ~overlap => \A t \in Threads : \A n \in DOMAIN functions[t] : functions[t][n] \in handles
    /\ ~overlap /\ ~thrown => \A f \in DOMAIN finds : Live(f) => finds[f].module \in handles

\* The registry, the loading of the modules and the finds are in step.
EnumerationInv == TypeOK /\ TableInStep /\ LoadedFirst /\ FindsInStep

\* No enumerate goes ahead with the modules that are loaded so far while
\* another loads the rest.
NotHalfLoaded ==
    \A t, u \in Threads : pc[t] \in {"clean", "list", "launch", "collect"} => pc[u] # "loading"

\* A find in the cache that is not over has a caller who waits for it, so that
\* nobody who drops it from the cache waits for it with the mutex held; unless
\* a caller left because a find could not be launched.
CachedIsAwaited ==
    ~thrown => \A k \in DOMAIN cache :
       cache[k].find # 0 /\ finds[cache[k].find].status \in {"deferred", "running"}
          => \E t \in Threads : cache[k].find \in futures[t]

\* "the cache allows the enumerate results to persist for some time across
\* multiple concurrent callers or subsequent sequential calls": no find is
\* launched for a driver and arguments that were asked for within CACHE_TIMEOUT.
FindsShared ==
    [][\A k \in DOMAIN cache \cap DOMAIN cache' :
          cache[k].find # 0 /\ cache'[k].find # cache[k].find
             => cache[k].time + CACHE_TIMEOUT < now]_vars
===============================================================================
