------------------------- MODULE DeviceFactory_proofs -------------------------
(***************************************************************************)
(* Proofs about DeviceFactory: for any number of threads, arguments and    *)
(* addresses, no thread is left with a deleted device.                     *)
(***************************************************************************)
EXTENDS DeviceFactory, FiniteSetTheorems, TLAPS

-------------------------------------------------------------------------------
(* The users of a device, and how a step of one thread changes them.        *)

\* A device has finitely many users.
LEMMA HoldersFinite ==
  ASSUME NEW d
  PROVE  IsFiniteSet(Holders(d)) /\ Cardinality(Holders(d)) \in Nat
  <1>1. IsFiniteSet(Holders(d))
    BY FactoryAssumption, FS_Subset DEF Holders
  <1> QED  BY <1>1, FS_CardinalityType

\* A step of t makes it a user of d, or of no device.
LEMMA HoldersStep ==
  ASSUME TypeOK, NEW t \in Threads, NEW p, NEW d,
         pc' = [pc EXCEPT ![t] = p], device' = [device EXCEPT ![t] = d]
  PROVE  \A x : Holders(x)' = IF p = "holds" /\ x = d THEN Holders(x) \cup {t} ELSE Holders(x) \ {t}
  <1>1. pc \in [Threads -> {"idle", "enumerate", "construct", "store", "holds", "thrown",
                            "delete", "erase", "done"}]
    BY DEF TypeOK
  <1>2. device \in [Threads -> Addrs \cup {Null}]
    BY DEF TypeOK
  <1> QED  BY <1>1, <1>2 DEF Holders

\* A user that leaves is one less.
LEMMA HoldersFewer ==
  ASSUME NEW x, NEW t
  PROVE  /\ Cardinality(Holders(x) \ {t}) \in Nat
         /\ Cardinality(Holders(x) \ {t}) <= Cardinality(Holders(x))
         /\ t \in Holders(x) => Cardinality(Holders(x) \ {t}) = Cardinality(Holders(x)) - 1
  <1>1. IsFiniteSet(Holders(x)) /\ Cardinality(Holders(x)) \in Nat
    BY HoldersFinite
  <1>2. /\ IsFiniteSet(Holders(x) \ {t})
        /\ Cardinality(Holders(x) \ {t})
              = IF t \in Holders(x) THEN Cardinality(Holders(x)) - 1 ELSE Cardinality(Holders(x))
    BY <1>1, FS_RemoveElement
  <1>3. Cardinality(Holders(x) \ {t}) \in Nat
    BY <1>2, FS_CardinalityType
  <1> QED  BY <1>1, <1>2, <1>3

\* A user that comes is at most one more.
LEMMA HoldersMore ==
  ASSUME NEW x, NEW t
  PROVE  /\ Cardinality(Holders(x) \cup {t}) \in Nat
         /\ Cardinality(Holders(x) \cup {t}) <= Cardinality(Holders(x)) + 1
  BY HoldersFinite, FS_AddElement, FS_CardinalityType, SMTT(30)

\* A device that has a user is counted.
LEMMA HolderCounted ==
  ASSUME FactoryInv, NEW t \in Threads, pc[t] = "holds"
  PROVE  /\ device[t] \in DOMAIN counts /\ device[t] \in live /\ device[t] \in Addrs
         /\ t \in Holders(device[t])
         /\ Cardinality(Holders(device[t])) <= counts[device[t]]
         /\ Cardinality(Holders(device[t])) # 0
         /\ counts[device[t]] \in Nat \ {0}
  <1>1. device[t] \in Addrs /\ t \in Holders(device[t])
    BY DEF FactoryInv, UsersCounted, Holders
  <1>2. Cardinality(Holders(device[t])) # 0
    BY <1>1, HoldersFinite, FS_EmptySet
  <1>3. Cardinality(Holders(device[t])) <= Count(device[t])
    BY <1>1 DEF FactoryInv, UsersCounted
  <1>4. device[t] \in DOMAIN counts
    BY <1>2, <1>3, HoldersFinite DEF Count
  <1> QED  BY <1>1, <1>2, <1>3, <1>4 DEF Count, FactoryInv, UsersCounted, TypeOK

-------------------------------------------------------------------------------
(* The steps.                                                               *)

\* Initially no device is made.
LEMMA InitFactory == Init => FactoryInv
  <1> SUFFICES ASSUME Init PROVE FactoryInv
    OBVIOUS
  <1>1. TypeOK
    BY DEF Init, TypeOK
  <1>2. OneOwner
    BY DEF Init, OneOwner, Private
  <1>3. UsersCounted
    <2>1. \A d : Holders(d) = {}
      BY DEF Init, Holders
    <2>2. \A d : Cardinality(Holders(d)) = 0
      BY <2>1, HoldersFinite, FS_EmptySet
    <2>3. DOMAIN counts = {}
      BY DEF Init
    <2> QED  BY <2>2, <2>3 DEF Init, UsersCounted, Count
  <1>4. TableIsLive
    BY DEF Init, TableIsLive
  <1> QED  BY <1>1, <1>2, <1>3, <1>4 DEF FactoryInv

\* A step that changes neither the tables nor the devices, of a thread that
\* does not clean the table, and after which it has no device.
LEMMA QuietStep ==
  ASSUME FactoryInv, NEW t \in Threads, NEW p, NEW d \in Addrs \cup {Null},
         UNCHANGED <<table, counts, live, argsList, mode>>,
         input' \in [Threads -> Inputs],
         p \in {"idle", "enumerate", "construct", "thrown", "done"},
         pc[t] \notin {"delete", "erase"},
         pc' = [pc EXCEPT ![t] = p], device' = [device EXCEPT ![t] = d]
  PROVE  FactoryInv'
  <1>a. TypeOK /\ OneOwner /\ UsersCounted /\ TableIsLive
    BY DEF FactoryInv
  <1>1. TypeOK'
    BY <1>a DEF TypeOK
  <1>2. OneOwner'
    BY <1>a DEF TypeOK, OneOwner, Private
  <1>3. UsersCounted'
    <2>1. \A x : Holders(x)' = Holders(x) \ {t}
      BY <1>a, HoldersStep, Zenon
    <2>2. ASSUME NEW x \in Addrs PROVE Cardinality(Holders(x)') <= Count(x)'
      <3>1. Cardinality(Holders(x)) <= Count(x) /\ Count(x) \in Nat /\ Count(x)' = Count(x)
        BY <1>a DEF UsersCounted, Count, TypeOK
      <3>2. Holders(x)' = Holders(x) \ {t}
        BY <2>1
      <3>3. /\ Cardinality(Holders(x) \ {t}) \in Nat /\ Cardinality(Holders(x)) \in Nat
            /\ Cardinality(Holders(x) \ {t}) <= Cardinality(Holders(x))
        BY HoldersFewer, HoldersFinite
      <3> QED  BY <3>1, <3>2, <3>3
    <2> QED  BY <1>a, <2>2 DEF UsersCounted, TypeOK
  <1>4. TableIsLive'
    BY <1>a DEF TableIsLive, TypeOK
  <1> QED  BY <1>1, <1>2, <1>3, <1>4 DEF FactoryInv

\* t becomes a user of d, which is live, counted as often as it was and once
\* more, and nobody else's to store or delete.
LEMMA UserStep ==
  ASSUME FactoryInv, NEW t \in Threads, NEW d \in Addrs,
         UNCHANGED <<live, argsList, input, mode>>,
         d \in live, pc[t] \notin {"delete", "erase"},
         \A s \in Threads \ {t} : Private(s) => device[s] # d,
         counts' = Put(counts, d, Count(d) + 1),
         \/ table' = table
         \/ \E k \in Keys : table' = Put(table, k, d),
         pc' = [pc EXCEPT ![t] = "holds"], device' = [device EXCEPT ![t] = d]
  PROVE  FactoryInv'
  <1>a. TypeOK /\ OneOwner /\ UsersCounted /\ TableIsLive
    BY DEF FactoryInv
  <1>b. Count(d) \in Nat
    BY <1>a DEF TypeOK, Count
  <1>c. /\ DOMAIN counts' = DOMAIN counts \cup {d}
        /\ \A x \in DOMAIN counts' : counts'[x] = IF x = d THEN Count(d) + 1 ELSE counts[x]
    BY DEF Put
  <1>1. TypeOK'
    <2>1. DOMAIN table' \subseteq Keys /\ table' \in [DOMAIN table' -> Addrs \cup {Null}]
      BY <1>a, Zenon DEF TypeOK, Put
    <2>2. DOMAIN counts' \subseteq Addrs /\ counts' \in [DOMAIN counts' -> Nat \ {0}]
      BY <1>a, <1>b DEF TypeOK, Put
    <2> QED  BY <1>a, <2>1, <2>2 DEF TypeOK
  <1>2. OneOwner'
    <2>1. \A s \in Threads : Private(s)' => s # t /\ Private(s) /\ device'[s] = device[s]
      BY <1>a DEF TypeOK, Private
    <2> QED  BY <1>a, <1>c, <2>1 DEF OneOwner
  <1>3. UsersCounted'
    <2>1. ASSUME NEW x \in Addrs PROVE Cardinality(Holders(x)') <= Count(x)'
      <3>1. Cardinality(Holders(x)) <= Count(x) /\ Count(x) \in Nat
        BY <1>a DEF UsersCounted, Count, TypeOK
      <3>2. Holders(x)' = IF x = d THEN Holders(x) \cup {t} ELSE Holders(x) \ {t}
        BY <1>a, HoldersStep, Zenon
      <3>3. Count(x)' = IF x = d THEN Count(x) + 1 ELSE Count(x)
        BY <1>c DEF Count
      <3>4. /\ Cardinality(Holders(x)) \in Nat
            /\ Cardinality(Holders(x) \ {t}) \in Nat /\ Cardinality(Holders(x) \cup {t}) \in Nat
            /\ Cardinality(Holders(x) \ {t}) <= Cardinality(Holders(x))
            /\ Cardinality(Holders(x) \cup {t}) <= Cardinality(Holders(x)) + 1
        BY HoldersFewer, HoldersMore, HoldersFinite, Zenon
      <3> QED  BY <3>1, <3>2, <3>3, <3>4
    <2> QED  BY <1>a, <1>c, <2>1 DEF UsersCounted, TypeOK
  <1>4. TableIsLive'
    <2>1. ASSUME NEW k \in DOMAIN table' PROVE table'[k] = d \/ (k \in DOMAIN table /\ table'[k] = table[k])
      BY Zenon DEF Put
    <2>2. \A s \in Threads : pc[s] \in {"delete", "erase"} => pc'[s] = pc[s] /\ argsList'[s] = argsList[s]
      BY <1>a DEF TypeOK
    <2>3. d # Null
      BY FactoryAssumption
    <2> QED  BY <1>a, <1>c, <2>1, <2>2, <2>3 DEF TableIsLive
  <1> QED  BY <1>1, <1>2, <1>3, <1>4 DEF FactoryInv

\* The steps of make.
LEMMA MakeFactory ==
  ASSUME FactoryInv, NEW t \in Threads,
         \/ Make(t) \/ MakeDiscovered(t) \/ MakeNoMatch(t) \/ Construct(t) \/ ConstructFails(t)
         \/ MakeStore(t)
  PROVE  FactoryInv'
  <1>a. TypeOK /\ OneOwner /\ UsersCounted /\ TableIsLive
    BY DEF FactoryInv
  <1>b. /\ Null \in Addrs \cup {Null} /\ device[t] \in Addrs \cup {Null}
        /\ device = [device EXCEPT ![t] = device[t]] /\ input \in [Threads -> Inputs]
    BY <1>a DEF TypeOK
  <1>1. ASSUME NEW args, NEW next \in {"enumerate", "construct"}, Lookup(t, args, next),
               pc[t] \in {"idle", "enumerate"}, UNCHANGED <<table, live, input, argsList, mode>>
        PROVE  FactoryInv'
    <2>1. CASE args \notin DOMAIN table \ {Empty}
      <3>1. pc' = [pc EXCEPT ![t] = next] /\ UNCHANGED <<counts, device>>
        BY <1>1, <2>1 DEF Lookup
      <3> QED  BY <1>b, <1>1, <3>1, QuietStep, Zenon
    <2>2. CASE args \in DOMAIN table \ {Empty} /\ table[args] = Null
      <3>1. /\ pc' = [pc EXCEPT ![t] = "thrown"] /\ device' = [device EXCEPT ![t] = Null]
            /\ UNCHANGED counts
        BY <1>1, <2>2 DEF Lookup, Throw
      <3> QED  BY <1>b, <1>1, <3>1, QuietStep, Zenon
    <2>3. CASE args \in DOMAIN table \ {Empty} /\ table[args] # Null
      <3> DEFINE d == table[args]
      <3>1. /\ pc' = [pc EXCEPT ![t] = "holds"] /\ device' = [device EXCEPT ![t] = d]
            /\ counts' = Put(counts, d, Count(d) + 1)
        BY <1>1, <2>3 DEF Lookup, Return
      <3>2. d \in live /\ d \in DOMAIN counts /\ d \in Addrs
        BY <1>a, <2>3 DEF TableIsLive, TypeOK
      <3>3. \A s \in Threads \ {t} : Private(s) => device[s] # d
        BY <1>a, <3>2 DEF OneOwner
      <3> HIDE DEF d
      <3> QED  BY <1>1, <3>1, <3>2, <3>3, UserStep, Zenon
    <2> QED  BY <2>1, <2>2, <2>3
  <1>2. CASE Make(t)
    BY <1>1, <1>2 DEF Make
  <1>3. CASE MakeDiscovered(t)
    BY <1>1, <1>3 DEF MakeDiscovered
  <1>4. CASE MakeNoMatch(t) \/ ConstructFails(t)
    <2>1. /\ UNCHANGED <<table, counts, live, argsList, input, mode>> /\ pc[t] \in {"enumerate", "construct"}
          /\ pc' = [pc EXCEPT ![t] = "thrown"] /\ device' = [device EXCEPT ![t] = Null]
      BY <1>4 DEF MakeNoMatch, ConstructFails, Throw, shared
    <2> QED  BY <1>b, <2>1, QuietStep, Zenon
  <1>5. CASE MakeStore(t)
    <2>1. /\ table' = Put(table, Found[input[t]], device[t]) /\ Found[input[t]] \in Keys
          /\ counts' = Put(counts, device[t], Count(device[t]) + 1)
          /\ pc[t] = "store" /\ pc' = [pc EXCEPT ![t] = "holds"]
          /\ device' = [device EXCEPT ![t] = device[t]]
          /\ UNCHANGED <<live, argsList, input, mode>>
      BY <1>b, <1>5, FactoryAssumption DEF MakeStore, Return, Keys
    <2>2. /\ device[t] \in live /\ device[t] \in Addrs
          /\ \A s \in Threads \ {t} : Private(s) => device[s] # device[t]
      BY <1>a, <2>1 DEF OneOwner, Private, TypeOK
    <2> QED  BY <2>1, <2>2, UserStep, Zenon
  <1>6. CASE Construct(t)
    <2>1. PICK d \in Addrs \ live : live' = live \cup {d} /\ device' = [device EXCEPT ![t] = d]
      BY <1>6, Zenon DEF Construct
    <2>2. /\ pc[t] = "construct" /\ pc' = [pc EXCEPT ![t] = "store"]
          /\ UNCHANGED <<table, counts, input, argsList, mode>>
      BY <1>6 DEF Construct
    <2>3. TypeOK'
      BY <1>a, <2>1, <2>2 DEF TypeOK
    <2>4. OneOwner'
      <3>1. \A s \in Threads \ {t} : (Private(s)' <=> Private(s)) /\ device'[s] = device[s]
        BY <1>a, <2>1, <2>2 DEF TypeOK, Private
      <3>2. device'[t] = d /\ d \notin DOMAIN counts
        BY <1>a, <2>1 DEF TypeOK, UsersCounted
      <3> QED  BY <1>a, <2>1, <2>2, <3>1, <3>2 DEF OneOwner
    <2>5. UsersCounted'
      <3>1. ASSUME NEW x \in Addrs PROVE Cardinality(Holders(x)') <= Count(x)'
        <4>1. Cardinality(Holders(x)) <= Count(x) /\ Count(x) \in Nat /\ Count(x)' = Count(x)
          BY <1>a, <2>2 DEF UsersCounted, Count, TypeOK
        <4>2. Holders(x)' = Holders(x) \ {t}
          BY <1>a, <2>1, <2>2, HoldersStep, ZenonT(30)
        <4>3. /\ Cardinality(Holders(x) \ {t}) \in Nat /\ Cardinality(Holders(x)) \in Nat
              /\ Cardinality(Holders(x) \ {t}) <= Cardinality(Holders(x))
          BY HoldersFewer, HoldersFinite
        <4> QED  BY <4>1, <4>2, <4>3
      <3> QED  BY <1>a, <2>1, <2>2, <3>1 DEF UsersCounted, TypeOK
    <2>6. TableIsLive'
      BY <1>a, <2>1, <2>2 DEF TableIsLive, TypeOK
    <2> QED  BY <2>3, <2>4, <2>5, <2>6 DEF FactoryInv
  <1> QED  BY <1>2, <1>3, <1>4, <1>5, <1>6

\* The steps of unmake.
LEMMA UnmakeFactory ==
  ASSUME FactoryInv, NEW t \in Threads, Unmake(t)
  PROVE  FactoryInv'
  <1>a. TypeOK /\ OneOwner /\ UsersCounted /\ TableIsLive
    BY DEF FactoryInv
  <1> DEFINE d == device[t]
  <1>b. /\ d \in DOMAIN counts /\ d \in live /\ d \in Addrs /\ t \in Holders(d)
        /\ Count(d) = counts[d] /\ Count(d) \in Nat /\ pc[t] = "holds"
        /\ UNCHANGED <<live, input, mode>>
    BY HolderCounted DEF Unmake, Count
  <1>c. \A x : Cardinality(Holders(x) \ {t}) \in Nat /\ Cardinality(Holders(x)) \in Nat
    BY HoldersFewer, HoldersFinite, Zenon
  <1>d. \A x \in Addrs : Cardinality(Holders(x)) <= Count(x) /\ Count(x) \in Nat
    BY <1>a DEF UsersCounted, Count, TypeOK
  <1>e. /\ Cardinality(Holders(d) \ {t}) = Cardinality(Holders(d)) - 1
        /\ \A x : Cardinality(Holders(x) \ {t}) <= Cardinality(Holders(x))
    BY <1>b, HoldersFewer, Zenon
  <1>1. CASE Count(d) > 1
    <2>1. /\ counts' = Put(counts, d, Count(d) - 1) /\ pc' = [pc EXCEPT ![t] = "done"]
          /\ device' = [device EXCEPT ![t] = Null] /\ UNCHANGED <<table, argsList, mode>>
      BY <1>1 DEF Unmake
    <2>2. /\ DOMAIN counts' = DOMAIN counts
          /\ \A x \in DOMAIN counts' : counts'[x] = IF x = d THEN Count(d) - 1 ELSE counts[x]
      BY <1>b, <2>1, Zenon DEF Put
    <2>3. TypeOK'
      <3>1. DOMAIN counts' \subseteq Addrs /\ counts' \in [DOMAIN counts' -> Nat \ {0}]
        BY <1>a, <1>b, <1>1, <2>1 DEF TypeOK, Put
      <3> QED  BY <1>a, <1>b, <2>1, <3>1 DEF TypeOK
    <2>4. OneOwner'
      BY <1>a, <1>b, <2>1, <2>2, Zenon DEF TypeOK, OneOwner, Private
    <2>5. UsersCounted'
      <3>1. ASSUME NEW x \in Addrs PROVE Cardinality(Holders(x)') <= Count(x)'
        <4>1. Holders(x)' = Holders(x) \ {t}
          BY <1>a, <2>1, HoldersStep, Zenon
        <4>2. Count(x)' = IF x = d THEN Count(x) - 1 ELSE Count(x)
          BY <1>b, <2>2 DEF Count
        <4> QED  BY <1>c, <1>d, <1>e, <4>1, <4>2
      <3> QED  BY <1>a, <1>b, <2>1, <2>2, <3>1, Zenon DEF UsersCounted, TypeOK
    <2>6. TableIsLive'
      BY <1>a, <1>b, <2>1, <2>2 DEF TableIsLive, TypeOK
    <2> QED  BY <2>3, <2>4, <2>5, <2>6 DEF FactoryInv
  <1>2. CASE Count(d) = 1
    <2>1. /\ counts' = Erase(counts, {d}) /\ argsList' = [argsList EXCEPT ![t] = Entries(d)]
          /\ table' = Nullified(d)
          /\ pc' = [pc EXCEPT ![t] = "delete"] /\ device' = device
      BY <1>2 DEF Unmake, LastUser
    <2>2. /\ DOMAIN counts' = DOMAIN counts \ {d}
          /\ \A x \in DOMAIN counts' : counts'[x] = counts[x]
      BY <2>1 DEF Erase
    <2>3. /\ DOMAIN table' = DOMAIN table
          /\ \A k \in DOMAIN table : table'[k] = IF table[k] = d THEN Null ELSE table[k]
      BY <2>1 DEF Nullified
    <2>5. TypeOK'
      <3>1. DOMAIN counts' \subseteq Addrs /\ counts' \in [DOMAIN counts' -> Nat \ {0}]
        BY <1>a, <2>1 DEF TypeOK, Erase
      <3>2. DOMAIN table' \subseteq Keys /\ table' \in [DOMAIN table' -> Addrs \cup {Null}]
        BY <1>a, <2>1 DEF TypeOK, Nullified
      <3>3. Entries(d) \subseteq Keys
        BY <1>a DEF TypeOK, Entries
      <3> QED  BY <1>a, <1>b, <2>1, <3>1, <3>2, <3>3, Zenon DEF TypeOK
    <2>6. OneOwner'
      <3>1. \A s \in Threads \ {t} : (Private(s)' <=> Private(s)) /\ device'[s] = device[s]
        BY <1>a, <2>1 DEF TypeOK, Private
      <3>2. device'[t] = d
        BY <2>1, Zenon
      <3> QED  BY <1>a, <1>b, <2>2, <3>1, <3>2 DEF OneOwner
    <2>7. UsersCounted'
      <3>1. ASSUME NEW x \in Addrs PROVE Cardinality(Holders(x)') <= Count(x)'
        <4>1. Holders(x)' = Holders(x) \ {t}
          BY <1>a, <2>1 DEF Holders, TypeOK
        <4>2. Count(x)' = IF x = d THEN Count(x) - 1 ELSE Count(x)
          BY <1>2, <2>2 DEF Count
        <4> QED  BY <1>c, <1>d, <1>e, <4>1, <4>2
      <3> QED  BY <1>a, <1>b, <2>1, <2>2, <3>1, Zenon DEF UsersCounted, TypeOK
    <2>8. TableIsLive'
      <3> SUFFICES ASSUME NEW k \in DOMAIN table
                   PROVE  IF table'[k] = Null
                          THEN \E s \in Threads : pc'[s] \in {"delete", "erase"} /\ k \in argsList'[s]
                          ELSE table'[k] \in live' /\ table'[k] \in DOMAIN counts'
        BY <2>3 DEF TableIsLive
      <3>1. CASE table[k] = d
        <4>1. pc'[t] = "delete" /\ k \in argsList'[t]
          BY <1>a, <2>1, <3>1 DEF TypeOK, Entries
        <4> QED  BY <2>3, <3>1, <4>1, Zenon
      <3>2. CASE table[k] = Null
        <4>1. PICK s \in Threads : pc[s] \in {"delete", "erase"} /\ k \in argsList[s]
          BY <1>a, <3>2, Zenon DEF TableIsLive
        <4>2. pc'[s] = pc[s] /\ argsList'[s] = argsList[s]
          BY <1>a, <1>b, <2>1, <4>1 DEF TypeOK
        <4>3. table'[k] = Null
          BY <2>3, <3>2, Zenon
        <4> QED  BY <4>1, <4>2, <4>3, Zenon
      <3>3. CASE table[k] \notin {d, Null}
        BY <1>a, <1>b, <2>2, <2>3, <3>3, Zenon DEF TableIsLive
      <3> QED  BY <3>1, <3>2, <3>3, Zenon
    <2> QED  BY <2>5, <2>6, <2>7, <2>8 DEF FactoryInv
  <1> QED  BY <1>1, <1>2 DEF Unmake

\* unmake deletes a device that is no longer counted and nobody holds.
LEMMA DeleteFactory ==
  ASSUME FactoryInv, NEW t \in Threads, Delete(t)
  PROVE  FactoryInv'
  <1>a. TypeOK /\ OneOwner /\ UsersCounted /\ TableIsLive
    BY DEF FactoryInv
  <1>1. /\ pc[t] = "delete" /\ pc' = [pc EXCEPT ![t] = "erase"]
        /\ live' = live \ {device[t]} /\ device' = [device EXCEPT ![t] = Null]
        /\ UNCHANGED <<table, counts, input, argsList, mode>>
    BY DEF Delete
  <1>2. device[t] \in live \ DOMAIN counts
    BY <1>a, <1>1 DEF OneOwner, Private
  <1>3. TypeOK'
    BY <1>a, <1>1 DEF TypeOK
  <1>4. OneOwner'
    <2>1. \A s \in Threads : Private(s)' => s # t /\ Private(s) /\ device'[s] = device[s]
      BY <1>a, <1>1 DEF TypeOK, Private
    <2>2. Private(t)
      BY <1>1 DEF Private
    <2> QED  BY <1>a, <1>1, <2>1, <2>2 DEF OneOwner
  <1>5. UsersCounted'
    <2>1. \A x : Holders(x)' = Holders(x)
      BY <1>a, <1>1 DEF Holders, TypeOK
    <2> QED  BY <1>a, <1>1, <1>2, <2>1, Zenon DEF UsersCounted, Count, TypeOK
  <1>6. TableIsLive'
    BY <1>a, <1>1, <1>2, Zenon DEF TableIsLive, TypeOK
  <1> QED  BY <1>3, <1>4, <1>5, <1>6 DEF FactoryInv

\* unmake erases entries from the table and leaves devices and counts alone.
LEMMA EraseFactory ==
  ASSUME FactoryInv, NEW t \in Threads, UnmakeErase(t)
  PROVE  FactoryInv'
  <1>a. TypeOK /\ OneOwner /\ UsersCounted /\ TableIsLive
    BY DEF FactoryInv
  <1>1. /\ pc[t] = "erase" /\ pc' = [pc EXCEPT ![t] = "done"]
        /\ table' = Erase(table, argsList[t]) /\ argsList' = [argsList EXCEPT ![t] = {}]
        /\ UNCHANGED <<counts, live, input, device, mode>>
    BY DEF UnmakeErase
  <1>2. /\ DOMAIN table' = DOMAIN table \ argsList[t]
        /\ \A k \in DOMAIN table' : table'[k] = table[k]
    BY <1>1 DEF Erase
  <1>3. TypeOK'
    <2>1. DOMAIN table' \subseteq Keys /\ table' \in [DOMAIN table' -> Addrs \cup {Null}]
      BY <1>a, <1>1 DEF TypeOK, Erase
    <2> QED  BY <1>a, <1>1, <2>1, Zenon DEF TypeOK
  <1>4. OneOwner'
    BY <1>a, <1>1 DEF OneOwner, Private, TypeOK
  <1>5. UsersCounted'
    <2>1. \A x : Holders(x)' = Holders(x)
      BY <1>a, <1>1, Zenon DEF Holders, TypeOK
    <2> QED  BY <1>a, <1>1, <2>1 DEF UsersCounted, Count, TypeOK
  <1>6. TableIsLive'
    <2>1. ASSUME NEW k \in DOMAIN table', table[k] = Null
          PROVE  \E s \in Threads : pc'[s] \in {"delete", "erase"} /\ k \in argsList'[s]
      <3>1. PICK s \in Threads : pc[s] \in {"delete", "erase"} /\ k \in argsList[s]
        BY <1>a, <1>2, <2>1 DEF TableIsLive
      <3>2. s # t
        BY <1>2, <2>1, <3>1
      <3> QED  BY <1>a, <1>1, <3>1, <3>2 DEF TypeOK
    <2> QED  BY <1>a, <1>1, <1>2, <2>1 DEF TableIsLive
  <1> QED  BY <1>3, <1>4, <1>5, <1>6 DEF FactoryInv

\* make(argsList), and a thread that starts over.
LEMMA ListFactory ==
  ASSUME FactoryInv,
         \/ \E i \in DOMAIN Batch : CollectException(i) \/ Discard(i)
         \/ \E t \in Threads : Again(t)
         \/ UNCHANGED vars
  PROVE  FactoryInv'
  <1>a. TypeOK
    BY DEF FactoryInv
  <1>1. ASSUME NEW i \in DOMAIN Batch, Discard(i) PROVE FactoryInv'
    <2>1. Batch[i] \in Threads
      <3>1. Batch \in Seq(Threads)
        BY <1>a, FactoryAssumption DEF Batch, TypeOK
      <3> QED  BY <3>1
    <2>2. /\ UNCHANGED <<table, counts, live, argsList, input, mode>> /\ pc[Batch[i]] = "holds"
          /\ pc' = [pc EXCEPT ![Batch[i]] = "done"] /\ device' = [device EXCEPT ![Batch[i]] = Null]
      BY <1>1 DEF Discard, shared
    <2>3. input' \in [Threads -> Inputs]
      BY <1>a, <2>2 DEF TypeOK
    <2> QED  BY <2>1, <2>2, <2>3, QuietStep, Zenon
  <1>2. ASSUME NEW t \in Threads, Again(t) PROVE FactoryInv'
    <2>1. /\ UNCHANGED <<table, counts, live, argsList, mode>> /\ pc[t] \in {"done", "thrown"}
          /\ pc' = [pc EXCEPT ![t] = "idle"] /\ device' = [device EXCEPT ![t] = device[t]]
          /\ device[t] \in Addrs \cup {Null} /\ input' \in [Threads -> Inputs]
      BY <1>a, <1>2 DEF Again, shared, TypeOK
    <2> QED  BY <2>1, QuietStep, Zenon
  <1>3. CASE (\E i \in DOMAIN Batch : CollectException(i)) \/ UNCHANGED vars
    <2>1. UNCHANGED <<table, counts, live, pc, input, device, argsList, mode>>
      BY <1>3 DEF CollectException, vars, shared, local
    <2> QED  BY <2>1, SMTT(30) DEF FactoryInv, TypeOK, OneOwner, Private, UsersCounted, Count, Holders,
                         TableIsLive
  <1> QED  BY <1>1, <1>2, <1>3

-------------------------------------------------------------------------------
\* make and unmake keep the table, the counts, the users and the devices in
\* step, for any number of threads and whatever way their calls overlap.
THEOREM FactoryInvariant == Spec => []FactoryInv
  <1>1. Init => FactoryInv
    BY InitFactory
  <1>2. FactoryInv /\ [Next]_vars => FactoryInv'
    BY MakeFactory, UnmakeFactory, DeleteFactory, EraseFactory, ListFactory DEF Next, Step
  <1> QED  BY <1>1, <1>2, PTL DEF Spec

\* No user is left with a device that was deleted.
THEOREM HeldIsLiveInvariant == Spec => []HeldIsLive
  <1>1. FactoryInv => HeldIsLive
    <2> SUFFICES ASSUME FactoryInv, NEW d \in Addrs, NEW t \in Holders(d) PROVE d \in live
      BY DEF HeldIsLive
    <2>1. t \in Threads /\ pc[t] = "holds" /\ device[t] = d
      BY DEF Holders
    <2> QED  BY <2>1, HolderCounted
  <1> QED  BY <1>1, FactoryInvariant, PTL

\* The table never leads make to a deleted device.
THEOREM TableIsLiveInvariant == Spec => []TableIsLive
  <1>1. FactoryInv => TableIsLive
    BY DEF FactoryInv
  <1> QED  BY <1>1, FactoryInvariant, PTL

-------------------------------------------------------------------------------
(* No device is lost.  As long as no list has failed, the counts are exact  *)
(* and a device that is not counted is somebody's to store or delete.       *)

ExactCounts ==
    failed = 0 =>
       /\ \A d \in Addrs : Count(d) = Cardinality(Holders(d))
       /\ \A d \in live : d \in DOMAIN counts \/ \E t \in Threads : Private(t) /\ device[t] = d

\* Initially no device is counted.
LEMMA InitExact == Init => ExactCounts
  <1> SUFFICES ASSUME Init PROVE ExactCounts
    OBVIOUS
  <1>1. \A d : Holders(d) = {}
    BY DEF Init, Holders
  <1>2. \A d : Cardinality(Holders(d)) = 0
    BY <1>1, FS_EmptySet
  <1> QED  BY <1>2 DEF Init, ExactCounts, Count

\* A step of a thread that was no user and becomes none, and neither had nor
\* gets a device of its own.
LEMMA QuietExact ==
  ASSUME TypeOK, ExactCounts, NEW t \in Threads, NEW p, NEW d,
         UNCHANGED <<counts, live, failed>>,
         pc[t] \notin {"store", "holds", "delete"}, p \notin {"store", "holds", "delete"},
         pc' = [pc EXCEPT ![t] = p], device' = [device EXCEPT ![t] = d]
  PROVE  ExactCounts'
  <1>1. \A x : Holders(x)' = Holders(x)
    BY DEF Holders, TypeOK
  <1>2. \A s \in Threads : Private(s) => Private(s)' /\ device'[s] = device[s]
    BY Zenon DEF Private, TypeOK
  <1> QED  BY <1>1, <1>2 DEF ExactCounts, Count

\* t becomes a user of d, by the table or by storing it.
LEMMA UserExact ==
  ASSUME TypeOK, ExactCounts, NEW t \in Threads, NEW d \in Addrs,
         UNCHANGED <<live, failed>>, pc[t] \notin {"holds", "delete"},
         pc[t] = "store" => device[t] = d,
         counts' = Put(counts, d, Count(d) + 1),
         pc' = [pc EXCEPT ![t] = "holds"], device' = [device EXCEPT ![t] = d]
  PROVE  ExactCounts'
  <1>1. \A x : Holders(x)' = IF x = d THEN Holders(x) \cup {t} ELSE Holders(x)
    BY DEF Holders, TypeOK
  <1>2. t \notin Holders(d)
    BY DEF Holders
  <1>3. Cardinality(Holders(d) \cup {t}) = Cardinality(Holders(d)) + 1
    BY <1>2, HoldersFinite, FS_AddElement, Zenon
  <1>4. /\ DOMAIN counts' = DOMAIN counts \cup {d}
        /\ \A x \in Addrs : Count(x)' = IF x = d THEN Count(d) + 1 ELSE Count(x)
    BY DEF Put, Count
  <1>5. \A s \in Threads : Private(s) => device[s] = d \/ (Private(s)' /\ device'[s] = device[s])
    BY DEF Private, TypeOK
  <1> QED  BY <1>1, <1>3, <1>4, <1>5, Zenon DEF ExactCounts

\* unmake counts down for the user that leaves.
LEMMA UnmakeExact ==
  ASSUME FactoryInv, ExactCounts, NEW t \in Threads, Unmake(t)
  PROVE  ExactCounts'
  <1> DEFINE d == device[t]
  <1>a. TypeOK
    BY DEF FactoryInv
  <1>1. /\ d \in DOMAIN counts /\ d \in Addrs /\ t \in Holders(d) /\ Count(d) = counts[d]
        /\ pc[t] = "holds" /\ UNCHANGED <<live, failed>>
    BY HolderCounted DEF Unmake, Count
  <1>2. Cardinality(Holders(d) \ {t}) = Cardinality(Holders(d)) - 1
    BY <1>1, HoldersFewer
  <1>3. \A x \in Addrs : Holders(x)' = IF x = d THEN Holders(x) \ {t} ELSE Holders(x)
    <2>1. \/ pc' = [pc EXCEPT ![t] = "done"] /\ device' = [device EXCEPT ![t] = Null]
          \/ pc' = [pc EXCEPT ![t] = "delete"] /\ device' = device
      BY DEF Unmake
    <2> QED  BY <1>a, <2>1 DEF Holders, TypeOK
  <1>4. CASE Count(d) > 1
    <2>1. /\ counts' = Put(counts, d, Count(d) - 1) /\ pc' = [pc EXCEPT ![t] = "done"]
          /\ device' = [device EXCEPT ![t] = Null]
      BY <1>4 DEF Unmake
    <2>2. /\ DOMAIN counts' = DOMAIN counts
          /\ \A x \in Addrs : Count(x)' = IF x = d THEN Count(d) - 1 ELSE Count(x)
      BY <1>1, <2>1, Zenon DEF Put, Count
    <2>3. \A s \in Threads : Private(s) => Private(s)' /\ device'[s] = device[s]
      BY <1>a, <1>1, <2>1, Zenon DEF Private, TypeOK
    <2> QED  BY <1>1, <1>2, <1>3, <2>2, <2>3 DEF ExactCounts
  <1>5. CASE Count(d) = 1
    <2>1. counts' = Erase(counts, {d}) /\ pc' = [pc EXCEPT ![t] = "delete"] /\ device' = device
      BY <1>5 DEF Unmake, LastUser
    <2>2. /\ DOMAIN counts' = DOMAIN counts \ {d}
          /\ \A x \in Addrs : Count(x)' = IF x = d THEN Count(d) - 1 ELSE Count(x)
      BY <1>5, <2>1 DEF Erase, Count
    <2>3. /\ \A s \in Threads : Private(s) => Private(s)' /\ device'[s] = device[s]
          /\ Private(t)' /\ device'[t] = d
      BY <1>a, <1>1, <2>1, Zenon DEF Private, TypeOK
    <2> QED  BY <1>1, <1>2, <1>3, <2>2, <2>3, Zenon DEF ExactCounts
  <1> QED  BY <1>4, <1>5 DEF Unmake

\* Every step keeps the counts exact, as long as no call fails.
LEMMA NextExact ==
  ASSUME FactoryInv, ExactCounts, [Next]_vars
  PROVE  ExactCounts'
  <1>a. TypeOK /\ OneOwner /\ TableIsLive
    BY DEF FactoryInv
  <1>b. \A t \in Threads : device = [device EXCEPT ![t] = device[t]]
    BY <1>a DEF TypeOK
  <1>1. ASSUME NEW t \in Threads, NEW args, NEW next \in {"enumerate", "construct"},
               Lookup(t, args, next), pc[t] \in {"idle", "enumerate"}, UNCHANGED <<live, failed>>
        PROVE  ExactCounts'
    <2>1. CASE args \in DOMAIN table \ {Empty} /\ table[args] # Null
      <3>1. /\ pc' = [pc EXCEPT ![t] = "holds"] /\ device' = [device EXCEPT ![t] = table[args]]
            /\ counts' = Put(counts, table[args], Count(table[args]) + 1)
        BY <1>1, <2>1 DEF Lookup, Return
      <3>2. table[args] \in Addrs
        BY <1>a, <2>1 DEF TypeOK
      <3> QED  BY <1>a, <1>1, <3>1, <3>2, UserExact, Zenon
    <2>2. CASE args \notin DOMAIN table \ {Empty} \/ table[args] = Null
      <3>1. /\ UNCHANGED counts
            /\ \/ pc' = [pc EXCEPT ![t] = next] /\ device' = [device EXCEPT ![t] = device[t]]
               \/ pc' = [pc EXCEPT ![t] = "thrown"] /\ device' = [device EXCEPT ![t] = Null]
        BY <1>b, <1>1, <2>2 DEF Lookup, Throw
      <3> QED  BY <1>a, <1>1, <3>1, QuietExact
    <2> QED  BY <2>1, <2>2
  <1>2. ASSUME NEW t \in Threads, Make(t) \/ MakeDiscovered(t) PROVE ExactCounts'
    BY <1>1, <1>2 DEF Make, MakeDiscovered
  <1>3. ASSUME NEW t \in Threads, MakeNoMatch(t) \/ ConstructFails(t) \/ Again(t)
        PROVE  ExactCounts'
    <2>1. /\ UNCHANGED <<counts, live, failed>>
          /\ pc[t] \in {"enumerate", "construct", "done", "thrown"}
          /\ \/ pc' = [pc EXCEPT ![t] = "thrown"] /\ device' = [device EXCEPT ![t] = Null]
             \/ pc' = [pc EXCEPT ![t] = "idle"] /\ device' = [device EXCEPT ![t] = device[t]]
      BY <1>b, <1>3 DEF MakeNoMatch, ConstructFails, Again, Throw, shared
    <2> QED  BY <1>a, <2>1, QuietExact
  <1>4. ASSUME NEW t \in Threads, Construct(t) PROVE ExactCounts'
    <2>1. PICK d \in Addrs \ live : live' = live \cup {d} /\ device' = [device EXCEPT ![t] = d]
      BY <1>4, Zenon DEF Construct
    <2>2. pc[t] = "construct" /\ pc' = [pc EXCEPT ![t] = "store"] /\ UNCHANGED <<counts, failed>>
      BY <1>4 DEF Construct
    <2>3. \A x : Holders(x)' = Holders(x)
      BY <1>a, <2>1, <2>2 DEF Holders, TypeOK
    <2>4. /\ \A s \in Threads : Private(s) => Private(s)' /\ device'[s] = device[s]
          /\ Private(t)' /\ device'[t] = d
      BY <1>a, <2>1, <2>2 DEF Private, TypeOK
    <2> QED  BY <2>1, <2>2, <2>3, <2>4 DEF ExactCounts, Count
  <1>5. ASSUME NEW t \in Threads, MakeStore(t) PROVE ExactCounts'
    <2>1. /\ counts' = Put(counts, device[t], Count(device[t]) + 1) /\ pc[t] = "store"
          /\ pc' = [pc EXCEPT ![t] = "holds"] /\ device' = [device EXCEPT ![t] = device[t]]
          /\ UNCHANGED <<live, failed>>
      BY <1>5 DEF MakeStore, Return
    <2>2. device[t] \in Addrs
      BY <1>a, <2>1 DEF OneOwner, Private, TypeOK
    <2> QED  BY <1>a, <2>1, <2>2, UserExact, Zenon
  <1>6. ASSUME NEW t \in Threads, Delete(t) PROVE ExactCounts'
    <2>1. /\ pc[t] = "delete" /\ pc' = [pc EXCEPT ![t] = "erase"] /\ live' = live \ {device[t]}
          /\ device' = [device EXCEPT ![t] = Null] /\ UNCHANGED <<counts, failed>>
      BY <1>6 DEF Delete
    <2>2. \A x : Holders(x)' = Holders(x)
      BY <1>a, <2>1 DEF Holders, TypeOK
    <2>3. \A s \in Threads : Private(s) => s = t \/ (Private(s)' /\ device'[s] = device[s])
      BY <1>a, <2>1 DEF Private, TypeOK
    <2> QED  BY <2>1, <2>2, <2>3 DEF ExactCounts, Count
  <1>7. ASSUME NEW t \in Threads, UnmakeErase(t) PROVE ExactCounts'
    <2>1. /\ pc[t] = "erase" /\ pc' = [pc EXCEPT ![t] = "done"]
          /\ device' = [device EXCEPT ![t] = device[t]] /\ UNCHANGED <<counts, live, failed>>
      BY <1>b, <1>7 DEF UnmakeErase
    <2> QED  BY <1>a, <2>1, QuietExact, Zenon
  <1>8. ASSUME NEW i \in DOMAIN Batch, CollectException(i) \/ Discard(i) PROVE ExactCounts'
    <2>1. Batch \in Seq(Threads)
      BY <1>a, FactoryAssumption DEF Batch, TypeOK
    <2>2. failed' # 0
      BY <1>8, <2>1 DEF CollectException, Discard
    <2> QED  BY <2>2 DEF ExactCounts
  <1>9. CASE UNCHANGED vars
    BY <1>9 DEF vars, shared, local, ExactCounts, Count, Holders, Private
  <1> QED  BY <1>2, <1>3, <1>4, <1>5, <1>6, <1>7, <1>8, <1>9, UnmakeExact, Zenon DEF Next, Step

\* Every device that exists is held, constructed or deleted by some call of make
\* or unmake, as long as no list has failed.
THEOREM NoLeakInvariant == Spec => []NoLeak
  <1>1. FactoryInv /\ ExactCounts => NoLeak
    <2> SUFFICES ASSUME FactoryInv, ExactCounts, failed = 0, NEW d \in live
                 PROVE  \E t \in Threads : device[t] = d
      BY DEF NoLeak
    <2>1. CASE d \in DOMAIN counts
      <3>1. d \in Addrs /\ Count(d) # 0
        BY <2>1 DEF FactoryInv, TypeOK, Count
      <3>2. Cardinality(Holders(d)) # 0
        BY <3>1 DEF ExactCounts
      <3>3. Holders(d) # {}
        BY <3>2, FS_EmptySet
      <3> QED  BY <3>3 DEF Holders
    <2>2. CASE d \notin DOMAIN counts
      BY <2>2 DEF ExactCounts
    <2> QED  BY <2>1, <2>2
  <1>2. FactoryInv /\ ExactCounts /\ [Next]_vars => ExactCounts'
    BY NextExact, Zenon
  <1> QED  BY <1>1, <1>2, InitExact, FactoryInvariant, PTL DEF Spec

-------------------------------------------------------------------------------
(* Calls in turn.  With one call at a time the table cannot change between  *)
(* a lookup and the store that follows it, nor between the nullifying of an *)
(* entry and its removal.                                                   *)

Active(t) == pc[t] \in {"enumerate", "construct", "store", "delete", "erase"}

\* A user finds its device in the table.
Stored(t) ==
    Found[input[t]] # Empty =>
       Found[input[t]] \in DOMAIN table /\ table[Found[input[t]]] = device[t]

InTurn ==
    /\ DOMAIN table \subseteq {Found[a] : a \in Inputs}
    /\ ~Overlap =>
          /\ \A s, t \in Threads : Active(s) /\ Active(t) => s = t
          /\ \A t \in Threads : pc[t] \in {"construct", "store"} =>
                Found[input[t]] \notin DOMAIN table \ {Empty}
          /\ \A t \in Threads : pc[t] \in {"delete", "erase"} =>
                \A k \in argsList[t] \cap DOMAIN table : table[k] = Null
          /\ Idempotent => \A t \in Threads : pc[t] = "holds" => Stored(t)

\* The steps of make.
LEMMA MakeInTurn ==
  ASSUME FactoryInv, InTurn, NEW t \in Threads,
         \/ Make(t) \/ MakeDiscovered(t) \/ MakeNoMatch(t) \/ Construct(t) \/ ConstructFails(t)
  PROVE  InTurn'
  <1>a. TypeOK
    BY Zenon DEF FactoryInv
  <1>1. /\ UNCHANGED <<table, input, argsList, mode>>
        /\ \A s \in Threads \ {t} : pc'[s] = pc[s] /\ device'[s] = device[s]
        /\ pc[t] \in {"idle", "enumerate", "construct"}
        /\ pc'[t] \in {"enumerate", "construct", "store", "holds", "thrown"}
    BY <1>a, Zenon DEF TypeOK, Make, MakeDiscovered, MakeNoMatch, Construct, ConstructFails, Lookup,
                Return, Throw, shared
  <1>2. Overlap' = Overlap
    BY <1>1, Zenon DEF Overlap
  <1> SUFFICES ASSUME ~Overlap
               PROVE  /\ \A s, u \in Threads : Active(s)' /\ Active(u)' => s = u
                      /\ pc'[t] \in {"construct", "store"} =>
                            Found[input[t]] \notin DOMAIN table \ {Empty}
                      /\ Idempotent /\ pc'[t] = "holds" => Stored(t)'
    BY <1>1, <1>2, ZenonT(30) DEF InTurn, Idempotent, Stored
  <1>3. \A s \in Threads \ {t} : ~Active(s)
    BY <1>a, Zenon DEF TypeOK, InTurn, Active, Make, MakeDiscovered, MakeNoMatch, Construct,
                ConstructFails, MayCall
  <1>4. \A s, u \in Threads : Active(s)' /\ Active(u)' => s = u
    BY <1>1, <1>3, Zenon DEF Active
  <1>5. pc'[t] \in {"construct", "store"} => Found[input[t]] \notin DOMAIN table \ {Empty}
    <2>1. CASE Make(t) \/ MakeNoMatch(t) \/ ConstructFails(t)
      BY <1>a, <2>1, Zenon DEF TypeOK, Make, MakeNoMatch, ConstructFails, Lookup, Return, Throw
    <2>2. CASE MakeDiscovered(t)
      BY <1>a, <2>2, Zenon DEF TypeOK, MakeDiscovered, Lookup, Return, Throw
    <2>3. CASE Construct(t)
      BY <2>3 DEF InTurn, Construct
    <2> QED  BY <2>1, <2>2, <2>3, Zenon
  <1>6. ASSUME Idempotent, pc'[t] = "holds" PROVE Stored(t)'
    <2>1. CASE Make(t)
      <3>1. /\ input[t] \in DOMAIN table \ {Empty} /\ device'[t] = table[input[t]]
        BY <1>a, <1>6, <2>1, Zenon DEF TypeOK, Make, Lookup, Return, Throw
      <3>2. Found[input[t]] = input[t]
        BY <1>6, <3>1, ZenonT(30) DEF InTurn, Idempotent
      <3> QED  BY <1>1, <3>1, <3>2, Zenon DEF Stored
    <2>2. CASE MakeDiscovered(t)
      <3>1. Found[input[t]] \in DOMAIN table /\ device'[t] = table[Found[input[t]]]
        BY <1>a, <1>6, <2>2, Zenon DEF TypeOK, MakeDiscovered, Lookup, Return, Throw
      <3> QED  BY <1>1, <3>1, Zenon DEF Stored
    <2>3. CASE MakeNoMatch(t) \/ ConstructFails(t) \/ Construct(t)
      BY <1>a, <1>6, <2>3, Zenon DEF TypeOK, MakeNoMatch, ConstructFails, Construct, Throw
    <2> QED  BY <2>1, <2>2, <2>3, Zenon
  <1> QED  BY <1>4, <1>5, <1>6

\* The end of make leaves the device in the table for the next call.
LEMMA StoreInTurn ==
  ASSUME FactoryInv, InTurn, NEW t \in Threads, MakeStore(t)
  PROVE  InTurn'
  <1>a. TypeOK
    BY DEF FactoryInv
  <1> DEFINE k == Found[input[t]]
  <1>1. /\ UNCHANGED <<input, argsList, mode, device>>
        /\ \A s \in Threads \ {t} : pc'[s] = pc[s]
        /\ pc[t] = "store" /\ pc'[t] = "holds"
    BY <1>a, Zenon DEF TypeOK, MakeStore, Return
  <1>2. /\ DOMAIN table' = DOMAIN table \cup {k} /\ table'[k] = device[t]
        /\ \A x \in DOMAIN table \ {k} : table'[x] = table[x]
    BY DEF MakeStore, Put
  <1>3. k \in {Found[a] : a \in Inputs}
    BY <1>a DEF TypeOK
  <1>4. Overlap' = Overlap
    BY <1>1, Zenon DEF Overlap
  <1>5. ~Overlap => /\ \A s \in Threads \ {t} : ~Active(s)
                    /\ k \notin DOMAIN table \ {Empty}
    BY <1>1, Zenon DEF InTurn, Active
  <1>6. ~Overlap /\ Idempotent => \A s \in Threads : pc'[s] = "holds" => Stored(s)'
    BY <1>1, <1>2, <1>5, Zenon DEF InTurn, Stored
  <1> QED  BY <1>1, <1>2, <1>3, <1>4, <1>5, <1>6 DEF InTurn, Active, Idempotent

\* The steps of unmake.
LEMMA UnmakeInTurn ==
  ASSUME FactoryInv, InTurn, NEW t \in Threads, Unmake(t)
  PROVE  InTurn'
  <1>a. TypeOK
    BY DEF FactoryInv
  <1> DEFINE d == device[t]
  <1>1. /\ UNCHANGED <<input, mode>> /\ pc[t] = "holds" /\ pc'[t] \in {"done", "delete"}
        /\ \A s \in Threads \ {t} : pc'[s] = pc[s] /\ device'[s] = device[s]
                                     /\ argsList'[s] = argsList[s]
    BY <1>a, Zenon DEF TypeOK, Unmake, LastUser
  <1>2. Overlap' = Overlap
    BY <1>1, Zenon DEF Overlap
  <1>3. ~Overlap => \A s \in Threads : ~Active(s)
    BY <1>a, Zenon DEF Unmake, MayCall, Active, TypeOK
  <1>4. CASE Count(d) > 1
    <2>1. table' = table /\ pc'[t] = "done"
      BY <1>a, <1>4 DEF TypeOK, Unmake
    <2> QED  BY <1>1, <1>2, <1>3, <2>1, ZenonT(30) DEF InTurn, Active, Stored, Idempotent
  <1>5. CASE Count(d) = 1
    <2>1. /\ table' = Nullified(d) /\ argsList'[t] = Entries(d) /\ pc'[t] = "delete"
      BY <1>a, <1>5 DEF TypeOK, Unmake, LastUser
    <2>2. /\ DOMAIN table' = DOMAIN table
          /\ \A k \in DOMAIN table : table'[k] = IF table[k] = d THEN Null ELSE table[k]
      BY <2>1, Zenon DEF Nullified
    <2>3. \A k \in argsList'[t] : k \in DOMAIN table /\ table'[k] = Null
      BY <2>1, <2>2, Zenon DEF Entries
    <2>4. \A s \in Threads \ {t} : pc[s] = "holds" => device[s] # d
      <3> SUFFICES ASSUME NEW s \in Threads \ {t}, pc[s] = "holds", device[s] = d
                   PROVE  FALSE
        BY Zenon
      <3>1. s \in Holders(d) \ {t} /\ t \in Holders(d)
        BY <1>1, Zenon DEF Holders
      <3>2. Cardinality(Holders(d)) <= 1 /\ Cardinality(Holders(d)) \in Nat
        BY <1>1, <1>5, HolderCounted, HoldersFinite, Zenon DEF Count
      <3>3. Cardinality(Holders(d) \ {t}) = 0
        BY <3>1, <3>2, HoldersFewer
      <3>4. IsFiniteSet(Holders(d) \ {t})
        BY HoldersFinite, FS_Subset, Zenon
      <3> QED  BY <3>1, <3>3, <3>4, FS_EmptySet, Zenon
    <2>5. ~Overlap /\ Idempotent => \A s \in Threads : pc'[s] = "holds" => Stored(s)'
      BY <1>1, <2>1, <2>2, <2>4 DEF InTurn, Stored
    <2> QED  BY <1>1, <1>2, <1>3, <2>1, <2>2, <2>3, <2>5, ZenonT(30) DEF InTurn, Active, Idempotent
  <1> QED  BY <1>4, <1>5 DEF Unmake

\* The end of unmake takes no device in use from the table.
LEMMA EraseInTurn ==
  ASSUME FactoryInv, InTurn, NEW t \in Threads, Delete(t) \/ UnmakeErase(t)
  PROVE  InTurn'
  <1>a. TypeOK
    BY Zenon DEF FactoryInv
  <1>1. /\ UNCHANGED <<input, mode>> /\ pc[t] \in {"delete", "erase"}
        /\ pc'[t] \in {"erase", "done"}
        /\ \A s \in Threads \ {t} : pc'[s] = pc[s] /\ device'[s] = device[s]
                                     /\ argsList'[s] = argsList[s]
    BY <1>a DEF TypeOK, Delete, UnmakeErase
  <1>2. Overlap' = Overlap
    BY <1>1, Zenon DEF Overlap
  <1>3. ~Overlap => \A s \in Threads \ {t} : ~Active(s)
    BY <1>1, Zenon DEF InTurn, Active
  <1>4. CASE Delete(t)
    <2>1. UNCHANGED <<table, argsList>>
      BY <1>4, Zenon DEF Delete
    <2> QED  BY <1>1, <1>2, <1>3, <2>1, ZenonT(30) DEF InTurn, Active, Stored, Idempotent
  <1>5. CASE UnmakeErase(t)
    <2>1. /\ DOMAIN table' = DOMAIN table \ argsList[t] /\ pc'[t] = "done"
          /\ \A k \in DOMAIN table' : table'[k] = table[k]
      BY <1>a, <1>5, Zenon DEF UnmakeErase, Erase, TypeOK
    <2>2. \A s \in Threads : pc[s] = "holds" => device[s] # Null
      BY FactoryAssumption, Zenon DEF FactoryInv, UsersCounted
    <2>3. ~Overlap => \A k \in argsList[t] \cap DOMAIN table : table[k] = Null
      BY <1>1, Zenon DEF InTurn
    <2>4. ~Overlap /\ Idempotent => \A s \in Threads : pc'[s] = "holds" => Stored(s)'
      BY <1>1, <2>1, <2>2, <2>3, ZenonT(30) DEF InTurn, Stored
    <2> QED  BY <1>1, <1>2, <1>3, <2>1, <2>4, ZenonT(30) DEF InTurn, Active, Idempotent
  <1> QED  BY <1>4, <1>5

\* make(argsList), and a thread that starts over.
LEMMA ListInTurn ==
  ASSUME FactoryInv, InTurn,
         \/ \E i \in DOMAIN Batch : CollectException(i) \/ Discard(i)
         \/ \E t \in Threads : Again(t)
         \/ UNCHANGED vars
  PROVE  InTurn'
  <1>a. TypeOK
    BY DEF FactoryInv
  <1>b. Batch \in Seq(Threads)
    BY <1>a, FactoryAssumption, Zenon DEF Batch, TypeOK
  <1>1. /\ UNCHANGED <<table, argsList, mode>>
        /\ \A s \in Threads : \/ pc'[s] = pc[s] /\ device'[s] = device[s] /\ input'[s] = input[s]
                              \/ pc'[s] \in {"done", "idle"}
    <2>1. CASE \E i \in DOMAIN Batch : Discard(i)
      BY <1>a, <1>b, <2>1, Zenon DEF TypeOK, Discard, shared
    <2>2. CASE \E t \in Threads : Again(t)
      BY <1>a, <2>2, Zenon DEF TypeOK, Again, shared
    <2>3. CASE (\E i \in DOMAIN Batch : CollectException(i)) \/ UNCHANGED vars
      BY <2>3 DEF CollectException, vars, shared, local
    <2> QED  BY <2>1, <2>2, <2>3, Zenon
  <1>2. Overlap' = Overlap
    BY <1>1 DEF Overlap
  <1> QED  BY <1>1, <1>2 DEF InTurn, Active, Stored, Idempotent

\* What calls in turn keep, on top of the invariant of all calls.
LEMMA InTurnInvariant == Spec => [](FactoryInv /\ InTurn)
  <1>1. Init => InTurn
    BY DEF Init, InTurn, Active
  <1>2. FactoryInv /\ InTurn /\ [Next]_vars => InTurn'
    BY MakeInTurn, StoreInTurn, UnmakeInTurn, EraseInTurn, ListInTurn DEF Next, Step
  <1> QED  BY <1>1, <1>2, FactoryInvariant, PTL DEF Spec

\* Calls of make in turn, with the same arguments, give the same device, if
\* enumerate finds something for them and finds that again.
THEOREM SameDeviceInvariant == Spec => []SameDeviceInTurn
  <1>1. InTurn => SameDeviceInTurn
    <2> SUFFICES ASSUME InTurn, ~Overlap, Idempotent, \A t \in Threads : Found[input[t]] # Empty,
                        NEW s \in Threads, NEW t \in Threads,
                        pc[s] = "holds", pc[t] = "holds", SameArgs(s, t)
                 PROVE  device[s] = device[t]
      BY Zenon DEF SameDeviceInTurn, SameDevice
    <2>1. Stored(s) /\ Stored(t)
      BY Zenon DEF InTurn
    <2>2. Found[input[s]] = Found[input[t]]
      BY DEF SameArgs
    <2> QED  BY <2>1, <2>2, Zenon DEF Stored
  <1> QED  BY <1>1, InTurnInvariant, PTL
===============================================================================
