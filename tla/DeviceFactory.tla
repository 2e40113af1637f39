---------------------------- MODULE DeviceFactory ----------------------------
(***************************************************************************)
(* Device::make and Device::unmake of SoapySDR (SoapySDR/lib/Factory.cpp): *)
(* a table from the arguments of an enumeration result to a device, and a  *)
(* number of users per device, under one mutex that is given up while      *)
(* devices are enumerated, constructed and destroyed.  What a call does    *)
(* between taking and giving up the mutex is one step.                     *)
(*                                                                         *)
(* A thread makes a device, uses it and unmakes it.  The threads of Batch  *)
(* do so on behalf of the parallel make and unmake of a list.  Devices are *)
(* addresses, which the allocator hands out again once they are free.      *)
(***************************************************************************)
EXTENDS Naturals, Sequences, FiniteSets

CONSTANTS
    Threads,          \* the calling threads
    Inputs, Found,    \* arguments of make; first enumeration result for each
    Addrs,            \* addresses of devices
    Null, Empty,      \* nullptr; the empty Kwargs, which no device is looked up by
    Modes             \* which threads are those of make(argsList), in its order,
                      \*   and whether calls of several threads may overlap

ASSUME FactoryAssumption ==
    /\ IsFiniteSet(Threads) /\ Modes \subseteq [batch : Seq(Threads), overlap : BOOLEAN]
    /\ Found \in [Inputs -> Inputs \cup {Empty}]
    /\ Null \notin Addrs /\ Empty \notin Inputs

VARIABLES
    table,     \* getDeviceTable(): arguments -> device, or nullptr
    counts,    \* getDeviceCounts(): device -> number of users
    live,      \* the devices that are allocated
    pc,        \* where each thread is
    input,     \* the arguments of its call to make
    device,    \* the device its call deals with, or the one it holds
    argsList,  \* the table entries its unmake has nullified
    failed,    \* position in Batch of the call whose exception make(argsList) saw
    mode       \* how this behaviour uses its threads

shared == <<table, counts, live>>
local == <<pc, input, device, argsList>>
vars == <<shared, local, failed, mode>>

Batch == mode.batch
Overlap == mode.overlap

Init ==
    /\ table = <<>> /\ counts = <<>> /\ live = {}
    /\ pc = [t \in Threads |-> "idle"]
    /\ input \in [Threads -> Inputs]
    /\ device = [t \in Threads |-> Null]
    /\ argsList = [t \in Threads |-> {}]
    /\ failed = 0
    /\ mode \in Modes

\* The maps: an entry is added, replaced or erased.
Put(map, k, v) == [x \in DOMAIN map \cup {k} |-> IF x = k THEN v ELSE map[x]]
Erase(map, ks) == [x \in DOMAIN map \ ks |-> map[x]]

Count(d) == IF d \in DOMAIN counts THEN counts[d] ELSE 0

\* May a call begin?
MayCall ==
    Overlap \/ \A t \in Threads : pc[t] \in {"idle", "holds", "thrown", "done"}

\* A call returns: t holds d, or has thrown.
Return(t, d) == pc' = [pc EXCEPT ![t] = "holds"] /\ device' = [device EXCEPT ![t] = d]
Throw(t) == pc' = [pc EXCEPT ![t] = "thrown"] /\ device' = [device EXCEPT ![t] = Null]

-------------------------------------------------------------------------------
(* make.                                                                    *)

\* Mutant: a device found in the table is not counted.
Lookup_NoCount(t, args, next) ==
    IF args \in DOMAIN table \ {Empty}
    THEN (IF table[args] = Null THEN Throw(t) ELSE Return(t, table[args])) /\ UNCHANGED counts
    ELSE pc' = [pc EXCEPT ![t] = next] /\ UNCHANGED <<counts, device>>

\* getDeviceFromTable: a device, a device that is being deleted, or nothing,
\* in which case t goes on at next.
Lookup(t, args, next) ==
    IF args \in DOMAIN table \ {Empty}
    THEN IF table[args] = Null
         THEN Throw(t) /\ UNCHANGED counts
         ELSE Return(t, table[args]) /\ counts' = Put(counts, table[args], Count(table[args]) + 1)
    ELSE pc' = [pc EXCEPT ![t] = next] /\ UNCHANGED <<counts, device>>

\* The arguments may have been used to open a device.
Make(t) ==
    /\ pc[t] = "idle" /\ MayCall
    /\ Lookup(t, input[t], "enumerate")
    /\ UNCHANGED <<table, live, input, argsList, failed, mode>>

\* So may the arguments that enumerate finds for them.
MakeDiscovered(t) ==
    /\ pc[t] = "enumerate"
    /\ Lookup(t, Found[input[t]], "construct")
    /\ UNCHANGED <<table, live, input, argsList, failed, mode>>

\* No driver is specified, or none matches.
MakeNoMatch(t) ==
    /\ pc[t] = "enumerate" /\ Found[input[t]] = Empty
    /\ Throw(t)
    /\ UNCHANGED <<shared, input, argsList, failed, mode>>

\* The driver's make function, outside the mutex: a device or an exception.
Construct(t) ==
    /\ pc[t] = "construct"
    /\ \E d \in Addrs \ live :
          /\ live' = live \cup {d}
          /\ device' = [device EXCEPT ![t] = d]
    /\ pc' = [pc EXCEPT ![t] = "store"]
    /\ UNCHANGED <<table, counts, input, argsList, failed, mode>>

ConstructFails(t) ==
    /\ pc[t] = "construct"
    /\ Throw(t)
    /\ UNCHANGED <<shared, input, argsList, failed, mode>>

\* Mutant: the device is stored under the arguments of the caller.
MakeStore_Input(t) ==
    /\ pc[t] = "store"
    /\ table' = Put(table, input[t], device[t])
    /\ counts' = Put(counts, device[t], Count(device[t]) + 1)
    /\ Return(t, device[t])
    /\ UNCHANGED <<live, input, argsList, failed, mode>>

\* Mutant: make returns the device that is in the table by now.
MakeStore_Keep(t) ==
    /\ pc[t] = "store"
    /\ IF Found[input[t]] \in DOMAIN table /\ table[Found[input[t]]] # Null
       THEN /\ UNCHANGED table
            /\ counts' = Put(counts, table[Found[input[t]]], Count(table[Found[input[t]]]) + 1)
            /\ Return(t, table[Found[input[t]]])
       ELSE /\ table' = Put(table, Found[input[t]], device[t])
            /\ counts' = Put(counts, device[t], Count(device[t]) + 1)
            /\ Return(t, device[t])
    /\ UNCHANGED <<live, input, argsList, failed, mode>>

\* Store into the table.
MakeStore(t) ==
    /\ pc[t] = "store"
    /\ table' = Put(table, Found[input[t]], device[t])
    /\ counts' = Put(counts, device[t], Count(device[t]) + 1)
    /\ Return(t, device[t])
    /\ UNCHANGED <<live, input, argsList, failed, mode>>

-------------------------------------------------------------------------------
(* unmake.                                                                  *)

\* make(argsList) calls unmake for the devices it collected before the call
\* that threw; its users, for all of a list that was made.
MayUnmake(t) ==
    \A i \in DOMAIN Batch :
       t = Batch[i] => \/ i < failed
                       \/ \A j \in DOMAIN Batch : pc[Batch[j]] \in {"holds", "delete", "erase", "done"}

Entries(d) == {k \in DOMAIN table : table[k] = d}
Nullified(d) == [k \in DOMAIN table |-> IF table[k] = d THEN Null ELSE table[k]]

\* The last user of d nullifies the entries of the table.
LastUser(t, d) ==
    /\ counts' = Erase(counts, {d})
    /\ argsList' = [argsList EXCEPT ![t] = Entries(d)]
    /\ table' = Nullified(d)

Unmake(t) ==
    /\ pc[t] = "holds" /\ MayCall /\ MayUnmake(t)
    /\ LET d == device[t]
       IN \/ /\ Count(d) > 1
             /\ counts' = Put(counts, d, Count(d) - 1)
             /\ pc' = [pc EXCEPT ![t] = "done"]
             /\ device' = [device EXCEPT ![t] = Null]
             /\ UNCHANGED <<table, argsList>>
          \/ /\ Count(d) = 1
             /\ LastUser(t, d)
             /\ pc' = [pc EXCEPT ![t] = "delete"]
             /\ UNCHANGED device
    /\ UNCHANGED <<live, input, failed, mode>>

\* The destructor, outside the mutex.
Delete(t) ==
    /\ pc[t] = "delete"
    /\ live' = live \ {device[t]}
    /\ device' = [device EXCEPT ![t] = Null]
    /\ pc' = [pc EXCEPT ![t] = "erase"]
    /\ UNCHANGED <<table, counts, input, argsList, failed, mode>>

\* Clean the table to signal that deletion is complete.
UnmakeErase(t) ==
    /\ pc[t] = "erase"
    /\ table' = Erase(table, argsList[t])
    /\ argsList' = [argsList EXCEPT ![t] = {}]
    /\ pc' = [pc EXCEPT ![t] = "done"]
    /\ UNCHANGED <<counts, live, input, device, failed, mode>>

-------------------------------------------------------------------------------
(* make(argsList): the results are collected in order.                      *)

\* The first exception ends the collection.
CollectException(i) ==
    /\ failed = 0 /\ pc[Batch[i]] = "thrown"
    /\ \A j \in 1..(i - 1) : pc[Batch[j]] = "holds"
    /\ failed' = i
    /\ UNCHANGED <<shared, local, mode>>

\* The result of a call that was not collected goes with its future.
Discard(i) ==
    /\ failed # 0 /\ i > failed /\ pc[Batch[i]] = "holds"
    /\ pc' = [pc EXCEPT ![Batch[i]] = "done"]
    /\ device' = [device EXCEPT ![Batch[i]] = Null]
    /\ UNCHANGED <<shared, input, argsList, failed, mode>>

\* A thread that is not part of the list starts over.
Again(t) ==
    /\ pc[t] \in {"done", "thrown"} /\ \A i \in DOMAIN Batch : t # Batch[i]
    /\ pc' = [pc EXCEPT ![t] = "idle"]
    /\ \E a \in Inputs : input' = [input EXCEPT ![t] = a]
    /\ UNCHANGED <<shared, device, argsList, failed, mode>>

-------------------------------------------------------------------------------
Step(t) ==
    \/ Make(t) \/ MakeDiscovered(t) \/ MakeNoMatch(t)
    \/ Construct(t) \/ ConstructFails(t) \/ MakeStore(t)
    \/ Unmake(t) \/ Delete(t) \/ UnmakeErase(t) \/ Again(t)

Next ==
    \/ \E t \in Threads : Step(t)
    \/ \E i \in DOMAIN Batch : CollectException(i) \/ Discard(i)

Spec == Init /\ [][Next]_vars

-------------------------------------------------------------------------------
Holders(d) == {t \in Threads : pc[t] = "holds" /\ device[t] = d}

Keys == Inputs \cup {Empty}

TypeOK ==
    /\ DOMAIN table \subseteq Keys /\ table \in [DOMAIN table -> Addrs \cup {Null}]
    /\ DOMAIN counts \subseteq Addrs /\ counts \in [DOMAIN counts -> Nat \ {0}]
    /\ live \subseteq Addrs
    /\ pc \in [Threads -> {"idle", "enumerate", "construct", "store", "holds", "thrown",
                          "delete", "erase", "done"}]
    /\ input \in [Threads -> Inputs]
    /\ device \in [Threads -> Addrs \cup {Null}]
    /\ argsList \in [Threads -> SUBSET Keys]
    /\ mode \in Modes

\* A device between its constructor and the table, or between the table and
\* its destructor, is dealt with by one call only.
Private(t) == pc[t] \in {"store", "delete"}
OneOwner ==
    /\ \A t \in Threads : Private(t) => device[t] \in live \ DOMAIN counts
    /\ \A s, t \in Threads : Private(s) /\ Private(t) /\ device[s] = device[t] => s = t

\* Every user is counted, so that unmake knows each device that make returned
\* and only its last user's call deletes it; what is counted was not deleted.
UsersCounted ==
    /\ DOMAIN counts \subseteq live
    /\ \A t \in Threads : pc[t] = "holds" => device[t] \in Addrs
    /\ \A d \in Addrs : Cardinality(Holders(d)) <= Count(d)

\* No user has a device that was deleted, although addresses are used again and
\* several threads make and unmake the same arguments at once.
HeldIsLive == \A d \in Addrs : Holders(d) # {} => d \in live

\* The table never leads make to a deleted device: every entry is a live device
\* with a user, or the nullptr of a deletion in progress.
TableIsLive ==
    \A k \in DOMAIN table :
       IF table[k] = Null
       THEN \E t \in Threads : pc[t] \in {"delete", "erase"} /\ k \in argsList[t]
       ELSE table[k] \in live /\ table[k] \in DOMAIN counts

\* make and unmake keep the table, the counts, their users and the devices that
\* exist in step.
FactoryInv == TypeOK /\ OneOwner /\ UsersCounted /\ TableIsLive

\* A device lives only while somebody holds, constructs or deletes it, as long
\* as no make(argsList) has dropped the results after the one that failed.
NoLeak ==
    failed = 0 => \A d \in live : \E t \in Threads : device[t] = d

\* The same arguments, or arguments for which enumerate finds the same ones.
SameArgs(s, t) ==
    \/ input[s] = input[t]
    \/ Found[input[s]] = Found[input[t]] /\ Found[input[s]] # Empty

\* "subsequent calls with the same arguments will produce the same device": users
\* that made theirs by the same arguments share one device.
SameDevice ==
    \A s, t \in Threads :
       pc[s] = "holds" /\ pc[t] = "holds" /\ SameArgs(s, t) => device[s] = device[t]

\* enumerate, asked for what it found, finds it again.
Idempotent == \A a \in Inputs : Found[a] # Empty => Found[Found[a]] = Found[a]

\* They do share it when calls of make and unmake do not overlap and enumerate
\* finds something for the arguments of each, and finds that again.
SameDeviceInTurn ==
    ~Overlap /\ Idempotent /\ (\A t \in Threads : Found[input[t]] # Empty) => SameDevice
===============================================================================
