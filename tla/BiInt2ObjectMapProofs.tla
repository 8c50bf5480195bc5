------------------------ MODULE BiInt2ObjectMapProofs ------------------------
(***************************************************************************)
(* Proofs about the hash table of BiInt2ObjectMap and about the loop that  *)
(* MapForEach runs over it, for every set of keys, every hash function,    *)
(* every legal load factor and every capacity, and whatever the consumer   *)
(* of the loop calls while it runs.                                        *)
(***************************************************************************)
EXTENDS MapForEach, FiniteSetTheorems, TLAPS

(* A home slot is a slot.  (Hashing.hash masks its result.)                *)
LEMMA HomeIsSlot ==
  ASSUME NEW k \in Keys, NEW n \in Nat \ {0}
  PROVE  Home(k, n) \in Slots(n)
<1>1. HashOf[k] \in Nat
  BY KeysAssumption
<1>2. \A h \in Nat : h % n \in 0 .. n - 1
  OBVIOUS
<1>3. QED
  BY <1>1, <1>2 DEF Home, Slots

(* The next slot of a probe is a slot.                                     *)
LEMMA NextSlotIsSlot ==
  ASSUME NEW n \in Nat \ {0}, NEW i \in Slots(n)
  PROVE  NextSlot(i, n) \in Slots(n)
BY DEF NextSlot, Slots

(* The resize threshold is an int.                                         *)
LEMMA ThresholdIsInt ==
  ASSUME NEW n \in Int
  PROVE  ThresholdFor(n) \in Int
<1>1. \A x \in Nat : x \div LoadDen \in Nat
  BY LoadFactorAssumption
<1>2. \A x \in Nat : x * LoadNum \in Nat
  BY LoadFactorAssumption
<1>3. QED
  BY <1>1, <1>2 DEF ThresholdFor

(* The initial state has the declared shapes.                              *)
LEMMA InitTypeOK == Init => TypeOK
<1> SUFFICES ASSUME Init PROVE TypeOK
  OBVIOUS
<1>1. capacity \in Nat \ {0} /\ ThresholdFor(capacity) \in Int
  BY ThresholdIsInt, CapacityAssumption DEF Init, PowersOfTwo
<1>2. <<>> \in [Slots(0) -> Keys] /\ <<>> \in [Slots(0) -> Values \cup {NULL}]
  BY DEF Slots
<1>3. QED
  BY <1>1, <1>2, KeysAssumption, CapacityAssumption, NullAssumption
  DEF Init, TypeOK, Slots, NoCall, Pcs, Ops

(* Returning clears every local, so it keeps the shapes whenever the table *)
(* itself and the result have them.                                        *)
LEMMA ReturnTypeOK ==
  ASSUME TypeOK, NEW r \in Values \cup {NULL, EXCEPTION}, ReturnWith(r),
         capacity' = capacity, resizeThreshold' \in Int, size' \in Int,
         keys' \in [Slots(capacity) -> Keys],
         values' \in [Slots(capacity) -> Values \cup {NULL}],
         computing' \in Keys \cup {NULL}
  PROVE  TypeOK'
<1>1. tempKeys' \in [Slots(newCapacity') -> Keys]
      /\ tempValues' \in [Slots(newCapacity') -> Values \cup {NULL}]
  BY DEF ReturnWith, Slots
<1>2. QED
  BY <1>1 DEF TypeOK, ReturnWith, NoCall, Pcs, Ops, Slots

(* So does entering rehash, whether it allocates or throws.                *)
LEMMA BeginRehashTypeOK ==
  ASSUME TypeOK, NEW n \in Int, NEW r \in Values \cup {NULL, EXCEPTION},
         BeginRehash(n, r), size' \in Int,
         keys' \in [Slots(capacity) -> Keys],
         values' \in [Slots(capacity) -> Values \cup {NULL}],
         computing' \in Keys \cup {NULL}
  PROVE  TypeOK'
<1>1. resizeThreshold' \in Int /\ capacity' = capacity
  BY ThresholdIsInt DEF BeginRehash
<1>2. CASE ReturnWith(EXCEPTION)
  BY <1>1, <1>2, ReturnTypeOK
<1>3. CASE n > 0 /\ ~ReturnWith(EXCEPTION)
  <2>1. /\ result' = r /\ pc' = "rehash" /\ call' = NoCall
        /\ index' = 0 /\ newCapacity' = n /\ newHash' = 0
        /\ tempKeys' = [i \in Slots(n) |-> ZeroKey]
        /\ tempValues' = [i \in Slots(n) |-> NULL]
        /\ deleteIndex' = deleteIndex
    BY <1>3 DEF BeginRehash
  <2>2. n \in Nat \ {0}
    BY <1>3
  <2>3. tempKeys' \in [Slots(newCapacity') -> Keys]
        /\ tempValues' \in [Slots(newCapacity') -> Values \cup {NULL}]
    BY <2>1, KeysAssumption
  <2>4. QED
    BY <1>1, <2>1, <2>2, <2>3 DEF TypeOK, NoCall, Pcs, Ops
<1>4. QED
  BY <1>2, <1>3 DEF BeginRehash

(* And so does storing an entry.                                           *)
LEMMA StoreTypeOK ==
  ASSUME TypeOK, pc = "probe", call.value \in Values \cup {NULL},
         NEW r \in Values \cup {NULL, EXCEPTION}, Store(r),
         computing' \in Keys \cup {NULL}
  PROVE  TypeOK'
<1>1. index \in Slots(capacity) /\ call.key \in Keys
  BY DEF TypeOK, Slots
<1>2. size' \in Int
  BY DEF Store, TypeOK
<1>3. keys' \in [Slots(capacity) -> Keys]
  BY <1>1 DEF Store, KeysAfterStore, TypeOK
<1>4. values' \in [Slots(capacity) -> Values \cup {NULL}]
  BY <1>1 DEF Store, TypeOK
<1>5. CASE ReturnWith(r) /\ UNCHANGED <<capacity, resizeThreshold>>
  BY <1>2, <1>3, <1>4, <1>5, ReturnTypeOK DEF TypeOK
<1>6. CASE ReturnWith(EXCEPTION) /\ UNCHANGED <<capacity, resizeThreshold>>
  BY <1>2, <1>3, <1>4, <1>6, ReturnTypeOK DEF TypeOK
<1>7. CASE BeginRehash(2 * capacity, r)
  <2>1. 2 * capacity \in Int
    BY DEF TypeOK
  <2>2. QED
    BY <1>2, <1>3, <1>4, <1>7, <2>1, BeginRehashTypeOK
<1>8. QED
  BY <1>5, <1>6, <1>7 DEF Store

(* A probe of a key starts in the table.                                   *)
LEMMA BeginTypeOK ==
  ASSUME TypeOK, NEW op \in Ops \ {"none"}, NEW k \in Keys,
         NEW v \in Values \cup {NULL}, op = "put" => v \in Puttable,
         op = "computeIfAbsent" => computing \in {k, NULL},
         Begin(op, k, v)
  PROVE  TypeOK'
<1>1. index' \in Slots(capacity)
  BY HomeIsSlot DEF Begin, TypeOK
<1>2. call' = [op |-> op, key |-> k, value |-> v] /\ pc' = "probe"
  BY DEF Begin
<1>3. UNCHANGED <<table, deleteIndex, scratch, computing, result>>
  BY DEF Begin
<1>4. QED
  BY <1>1, <1>2, <1>3 DEF TypeOK, table, scratch, Slots, Pcs, Ops

(* Every step keeps the shapes.                                            *)
LEMMA NextTypeOK == TypeOK /\ [Next]_vars => TypeOK'
<1> SUFFICES ASSUME TypeOK, [Next]_vars PROVE TypeOK'
  OBVIOUS
<1>1. CASE BeginPut
  <2>1. PICK k \in Keys, v \in Puttable : Begin("put", k, v)
    BY <1>1 DEF BeginPut
  <2>2. QED
    BY <2>1, BeginTypeOK, NullAssumption DEF Ops
<1>2. CASE BeginGet
  <2>1. PICK k \in Keys : Begin("get", k, NULL)
    BY <1>2 DEF BeginGet
  <2>2. QED
    BY <2>1, BeginTypeOK DEF Ops
<1>3. CASE BeginRemove
  <2>1. PICK k \in Keys : Begin("remove", k, NULL)
    BY <1>3 DEF BeginRemove
  <2>2. QED
    BY <2>1, BeginTypeOK DEF Ops
<1>4. CASE BeginComputeIfAbsent
  <2>1. PICK k \in Keys : Begin("computeIfAbsent", k, NULL)
    BY <1>4 DEF BeginComputeIfAbsent
  <2>2. computing = NULL
    BY <1>4 DEF BeginComputeIfAbsent
  <2>3. QED
    BY <2>1, <2>2, BeginTypeOK DEF Ops
<1>5. CASE MappedToValue
  <2>1. PICK v \in Values : Begin("computeIfAbsent", computing, v)
    BY <1>5 DEF MappedToValue, Begin
  <2>2. computing \in Keys
    BY <1>5 DEF MappedToValue, TypeOK
  <2>3. QED
    BY <2>1, <2>2, BeginTypeOK DEF Ops
<1>6. CASE MappedToNothing
  <2>1. PICK r \in {NULL, EXCEPTION} : ReturnWith(r)
    BY <1>6 DEF MappedToNothing
  <2>2. QED
    BY <1>6, <2>1, ReturnTypeOK DEF MappedToNothing, table, TypeOK
<1>7. CASE Clear
  BY <1>7, ReturnTypeOK DEF Clear, TypeOK
<1>8. CASE Compact
  <2>1. PICK n \in PowersOfTwo \cup {-(2 * MaxCapacity)} : BeginRehash(n, NULL)
    BY <1>8 DEF Compact
  <2>2. n \in Int
    BY CapacityAssumption DEF PowersOfTwo
  <2>3. QED
    BY <1>8, <2>1, <2>2, BeginRehashTypeOK DEF Compact, TypeOK
<1>9. CASE ProbeNext
  <2>1. index' \in Slots(capacity)
    BY <1>9, NextSlotIsSlot DEF ProbeNext, TypeOK, Slots
  <2>2. QED
    BY <1>9, <2>1 DEF ProbeNext, TypeOK, table, scratch, Slots
<1>10. CASE Get \/ RemoveMiss \/ FindPresent
  <2>1. values[index] \in Values \cup {NULL}
    BY <1>10 DEF Get, RemoveMiss, FindPresent, TypeOK, Slots
  <2>2. QED
    BY <1>10, <2>1, ReturnTypeOK
    DEF Get, RemoveMiss, FindPresent, table, TypeOK
<1>11. CASE Put
  <2>1. values[index] \in Values \cup {NULL} /\ call.value \in Values \cup {NULL}
    BY <1>11 DEF Put, TypeOK, Slots
  <2>2. QED
    BY <1>11, <2>1, StoreTypeOK DEF Put, TypeOK
<1>12. CASE RemoveHit
  <2>1. index \in Slots(capacity)
    BY <1>12 DEF RemoveHit, TypeOK, Slots
  <2>2. QED
    BY <1>12, <2>1 DEF RemoveHit, TypeOK, scratch, NoCall, Pcs, Ops, Slots
<1>13. CASE FindAbsent
  <2>1. ReturnWith(result) /\ computing' = call.key /\ call.key \in Keys
    BY <1>13 DEF FindAbsent, TypeOK
  <2>2. QED
    BY <1>13, <2>1, ReturnTypeOK DEF FindAbsent, table, TypeOK
<1>14. CASE StoreComputed
  <2>1. call.value \in Values
    BY <1>14 DEF StoreComputed, TypeOK
  <2>2. QED
    BY <1>14, <2>1, StoreTypeOK DEF StoreComputed
<1>15. CASE ChainEnd
  BY <1>15, ReturnTypeOK DEF ChainEnd, table, TypeOK
<1>16. CASE ChainNext
  <2> DEFINE next == NextSlot(index, capacity)
  <2>1. next \in Slots(capacity)
    BY <1>16, NextSlotIsSlot DEF ChainNext, TypeOK, Slots
  <2>2. /\ index' = next
        /\ UNCHANGED <<capacity, resizeThreshold, size, pc, call, scratch,
                       computing, result>>
    BY <1>16 DEF ChainNext
  <2>3. /\ keys' \in [Slots(capacity) -> Keys]
        /\ values' \in [Slots(capacity) -> Values \cup {NULL}]
        /\ deleteIndex' \in Slots(capacity)
    BY <1>16, <2>1 DEF ChainNext, MoveIntoHole, TypeOK
  <2>4. QED
    BY <1>16, <2>1, <2>2, <2>3 DEF ChainNext, TypeOK, scratch, Slots
<1>17. CASE RehashSkip
  BY <1>17 DEF RehashSkip, TypeOK, table, scratch
<1>18. CASE RehashEntry
  <2>1. keys[index] \in Keys
    BY <1>18 DEF RehashEntry, TypeOK, Slots
  <2>2. newHash' \in Slots(newCapacity)
    BY <1>18, <2>1, HomeIsSlot DEF RehashEntry, TypeOK
  <2>3. QED
    BY <1>18, <2>2 DEF RehashEntry, TypeOK, table, Slots, Pcs
<1>19. CASE InsertNext
  <2>1. newHash' \in Slots(newCapacity)
    BY <1>19, NextSlotIsSlot DEF InsertNext, TypeOK, Slots
  <2>2. QED
    BY <1>19, <2>1 DEF InsertNext, TypeOK, table, Slots
<1>20. CASE Insert
  <2>1. index \in Slots(capacity) /\ newHash \in Slots(newCapacity)
    BY <1>20 DEF Insert, TypeOK, Slots
  <2>2. /\ tempKeys' \in [Slots(newCapacity) -> Keys]
        /\ tempValues' \in [Slots(newCapacity) -> Values \cup {NULL}]
    BY <1>20, <2>1 DEF Insert, TypeOK
  <2>3. QED
    BY <1>20, <2>2 DEF Insert, TypeOK, table, Slots, Pcs
<1>21. CASE RehashEnd
  <2>1. /\ capacity' = newCapacity /\ newCapacity \in Nat \ {0}
        /\ keys' \in [Slots(capacity') -> Keys]
        /\ values' \in [Slots(capacity') -> Values \cup {NULL}]
    BY <1>21 DEF RehashEnd, TypeOK
  <2>2. tempKeys' \in [Slots(newCapacity') -> Keys]
        /\ tempValues' \in [Slots(newCapacity') -> Values \cup {NULL}]
    BY <1>21 DEF RehashEnd, ReturnWith, Slots
  <2>3. QED
    BY <1>21, <2>1, <2>2
    DEF RehashEnd, ReturnWith, TypeOK, NoCall, Pcs, Ops, Slots
<1>22. CASE UNCHANGED vars
  BY <1>22 DEF vars, table, scratch, TypeOK
<1>23. QED
  BY <1>1, <1>2, <1>3, <1>4, <1>5, <1>6, <1>7, <1>8, <1>9, <1>10, <1>11,
     <1>12, <1>13, <1>14, <1>15, <1>16, <1>17, <1>18, <1>19, <1>20, <1>21,
     <1>22
  DEF Next, Call, Step

(* Every reachable state has the declared shapes: each loop indexes inside *)
(* the array it walks, so no call throws ArrayIndexOutOfBoundsException.   *)
THEOREM TypeCorrect == Spec => []TypeOK
BY InitTypeOK, NextTypeOK, PTL DEF Spec
-----------------------------------------------------------------------------
(* Cyclic distances.  All the reasoning about compactChain rests on these. *)

(* A distance is less than the length of the table.                        *)
LEMMA DistanceRange ==
  ASSUME NEW n \in Nat \ {0}, NEW a \in Slots(n), NEW b \in Slots(n)
  PROVE  Distance(a, b, n) \in Nat /\ Distance(a, b, n) < n
BY DEF Distance, Slots

(* No two slots are equally far along the probe sequence.                  *)
LEMMA DistanceInjective ==
  ASSUME NEW n \in Nat \ {0}, NEW a \in Slots(n), NEW b \in Slots(n),
         NEW c \in Slots(n), Distance(a, b, n) = Distance(a, c, n)
  PROVE  b = c
BY DEF Distance, Slots

(* Only a slot itself is no step away.                                     *)
LEMMA DistanceZero ==
  ASSUME NEW n \in Nat \ {0}, NEW a \in Slots(n), NEW b \in Slots(n)
  PROVE  Distance(a, b, n) = 0 <=> a = b
BY DEF Distance, Slots

(* One more step of a probe adds one to the distance, unless it is back    *)
(* where it started.                                                       *)
LEMMA DistanceNext ==
  ASSUME NEW n \in Nat \ {0}, NEW a \in Slots(n), NEW b \in Slots(n)
  PROVE  Distance(a, NextSlot(b, n), n)
           = IF NextSlot(b, n) = a THEN 0 ELSE Distance(a, b, n) + 1
BY DEF Distance, Slots, NextSlot

(* Distances along one probe sequence add up.                              *)
LEMMA DistanceSum ==
  ASSUME NEW n \in Nat \ {0}, NEW a \in Slots(n), NEW b \in Slots(n),
         NEW c \in Slots(n), Distance(a, b, n) <= Distance(a, c, n)
  PROVE  Distance(a, c, n) = Distance(a, b, n) + Distance(b, c, n)
BY DEF Distance, Slots

(* The condition of compactChain (BiInt2ObjectMap.java:300-301) says just  *)
(* this: a probe from the entry's home meets the hole before the entry.    *)
LEMMA BelongsInHoleMeaning ==
  ASSUME NEW n \in Nat \ {0}, NEW i \in Slots(n), NEW h \in Slots(n),
         NEW d \in Slots(n), i # d
  PROVE  BelongsInHole(i, h, d) <=> Distance(h, d, n) < Distance(h, i, n)
BY DEF BelongsInHole, Distance, Slots
-----------------------------------------------------------------------------
(* The inductive invariant, action by action.  Sound(K, V, n): in a table  *)
(* of n slots every entry is reachable from its home and no key is twice.  *)
Sound(K, V, n) ==
  /\ \A i, j \in Slots(n) :
        V[i] # NULL /\ OnPath(j, K[i], i, n) => V[j] # NULL
  /\ \A i, j \in Slots(n) :
        V[i] # NULL /\ V[j] # NULL /\ K[i] = K[j] => i = j

(* Outside compactChain the invariant makes the table sound, ...           *)
LEMMA TableSound ==
  ASSUME IndInv, pc # "compactChain"
  PROVE  Sound(keys, values, capacity)
BY DEF IndInv, Sound, Reachable, UniqueKeys, Occupied

(* ... and a call that returns with a sound table keeps the invariant.     *)
LEMMA ReturnKeeps ==
  ASSUME TypeOK', pc' = "idle", Sound(keys', values', capacity')
  PROVE  IndInv'
BY DEF IndInv, Sound, Reachable, UniqueKeys, Occupied, ProbeSoFar,
       HoleIsEmpty, InsertSoFar, NewTable

(* So does a call that enters rehash, whose new table is still empty.      *)
LEMMA BeginRehashKeeps ==
  ASSUME TypeOK', NEW n, NEW r, BeginRehash(n, r),
         Sound(keys', values', capacity')
  PROVE  IndInv'
<1>1. CASE pc' = "idle"
  BY <1>1, ReturnKeeps
<1>2. CASE pc' # "idle"
  <2>1. /\ pc' = "rehash" /\ newCapacity' = n
        /\ tempValues' = [i \in Slots(n) |-> NULL]
    BY <1>2 DEF BeginRehash, ReturnWith
  <2>2. NewOccupied' = {}
    BY <2>1 DEF NewOccupied
  <2>3. NewTable' /\ Reachable' /\ UniqueKeys'
    BY <2>1, <2>2 DEF NewTable, Sound, Reachable, UniqueKeys, Occupied
  <2>4. QED
    BY <2>1, <2>3 DEF IndInv, ProbeSoFar, HoleIsEmpty, InsertSoFar
<1>3. QED
  BY <1>1, <1>2

(* Starting a probe: nothing lies before the home slot.                    *)
LEMMA BeginKeeps ==
  ASSUME IndInv, TypeOK', pc = "idle", NEW op, NEW k \in Keys, NEW v,
         Begin(op, k, v)
  PROVE  IndInv'
<1>1. /\ pc' = "probe" /\ call'.key = k /\ index' = Home(k, capacity)
      /\ UNCHANGED <<capacity, keys, values>>
  BY DEF Begin, table
<1>2. \A j \in Slots(capacity) : ~OnPath(j, k, index', capacity)
  <2> SUFFICES ASSUME NEW j \in Slots(capacity)
               PROVE  ~OnPath(j, k, index', capacity)
    OBVIOUS
  <2>1. index' \in Slots(capacity) /\ capacity \in Nat \ {0}
    BY <1>1, HomeIsSlot DEF IndInv, TypeOK
  <2>2. QED
    BY <1>1, <2>1, DistanceZero, DistanceRange DEF OnPath
<1>3. Sound(keys', values', capacity')
  BY <1>1, TableSound
<1>4. ProbeSoFar'
  BY <1>1, <1>2 DEF ProbeSoFar
<1>5. QED
  BY <1>1, <1>3, <1>4
  DEF IndInv, Sound, Reachable, UniqueKeys, Occupied, HoleIsEmpty,
      InsertSoFar, NewTable

(* A probe moves past a slot that holds another key.                       *)
LEMMA ProbeNextKeeps ==
  ASSUME IndInv, TypeOK', ProbeNext
  PROVE  IndInv'
<1> DEFINE home == Home(call.key, capacity)
<1>1. /\ capacity \in Nat \ {0} /\ index \in Slots(capacity)
      /\ home \in Slots(capacity)
  BY HomeIsSlot DEF IndInv, TypeOK, ProbeNext, Slots
<1>2. /\ pc' = "probe" /\ pc = "probe" /\ call' = call
      /\ index' = NextSlot(index, capacity)
      /\ UNCHANGED <<capacity, keys, values>>
      /\ values[index] # NULL /\ keys[index] # call.key
  BY DEF ProbeNext, table, Hit, Miss
<1>3. \A j \in Slots(capacity) :
        OnPath(j, call.key, index', capacity) =>
           values[j] # NULL /\ keys[j] # call.key
  <2> SUFFICES ASSUME NEW j \in Slots(capacity),
                      OnPath(j, call.key, index', capacity)
               PROVE  values[j] # NULL /\ keys[j] # call.key
    OBVIOUS
  <2>1. Distance(home, j, capacity) < Distance(home, index', capacity)
    BY DEF OnPath
  <2>2. /\ Distance(home, j, capacity) \in Nat
        /\ Distance(home, index, capacity) \in Nat
    BY <1>1, DistanceRange
  <2>3. Distance(home, j, capacity) <= Distance(home, index, capacity)
    BY <1>1, <1>2, <2>1, <2>2, DistanceNext
  <2>4. CASE Distance(home, j, capacity) = Distance(home, index, capacity)
    BY <1>1, <1>2, <2>4, DistanceInjective
  <2>5. CASE Distance(home, j, capacity) < Distance(home, index, capacity)
    BY <1>2, <2>5 DEF OnPath, IndInv, ProbeSoFar
  <2>6. QED
    BY <2>2, <2>3, <2>4, <2>5
<1>4. ProbeSoFar'
  BY <1>2, <1>3 DEF ProbeSoFar
<1>5. Sound(keys', values', capacity')
  BY <1>2, TableSound
<1>6. QED
  BY <1>2, <1>4, <1>5
  DEF IndInv, Sound, Reachable, UniqueKeys, Occupied, HoleIsEmpty,
      InsertSoFar, NewTable

(* An entry placed in the first empty slot of its probe, under a key that  *)
(* is not in the table, leaves the table sound.                            *)
LEMMA AddEntrySound ==
  ASSUME NEW n \in Nat \ {0}, NEW K \in [Slots(n) -> Keys], NEW V,
         V \in [Slots(n) -> Values \cup {NULL}], Sound(K, V, n),
         NEW x \in Slots(n), NEW k \in Keys, NEW v \in Values,
         V[x] = NULL,
         \A j \in Slots(n) : OnPath(j, k, x, n) => V[j] # NULL,
         \A j \in Slots(n) : V[j] # NULL => K[j] # k
  PROVE  Sound([K EXCEPT ![x] = k], [V EXCEPT ![x] = v], n)
<1> DEFINE K2 == [K EXCEPT ![x] = k]
           V2 == [V EXCEPT ![x] = v]
<1>1. /\ K2[x] = k /\ V2[x] = v /\ v # NULL
      /\ \A j \in Slots(n) : j # x => K2[j] = K[j] /\ V2[j] = V[j]
  BY NullAssumption
<1> HIDE DEF K2, V2
<1>2. \A i, j \in Slots(n) : V2[i] # NULL /\ OnPath(j, K2[i], i, n) => V2[j] # NULL
  BY <1>1 DEF Sound
<1>3. \A i, j \in Slots(n) : V2[i] # NULL /\ V2[j] # NULL /\ K2[i] = K2[j] => i = j
  BY <1>1 DEF Sound
<1>4. Sound(K2, V2, n)
  BY <1>2, <1>3 DEF Sound
<1>5. QED
  BY <1>4 DEF K2, V2

(* A storing probe that ends in a null slot has not overlooked its key.    *)
LEMMA MissMeansAbsent ==
  ASSUME IndInv, pc = "probe", Miss
  PROVE  \A j \in Slots(capacity) : values[j] # NULL => keys[j] # call.key
<1> SUFFICES ASSUME NEW j \in Slots(capacity), values[j] # NULL,
                    keys[j] = call.key
             PROVE  FALSE
  OBVIOUS
<1> DEFINE home == Home(call.key, capacity)
<1>1. /\ capacity \in Nat \ {0} /\ index \in Slots(capacity)
      /\ home \in Slots(capacity) /\ values[index] = NULL
  BY HomeIsSlot DEF IndInv, TypeOK, Slots, Miss
<1>2. /\ Distance(home, j, capacity) \in Nat
      /\ Distance(home, index, capacity) \in Nat
  BY <1>1, DistanceRange
<1>3. CASE Distance(home, j, capacity) < Distance(home, index, capacity)
  BY <1>3 DEF IndInv, ProbeSoFar, OnPath
<1>4. CASE Distance(home, index, capacity) < Distance(home, j, capacity)
  BY <1>1, <1>4, TableSound DEF Sound, OnPath
<1>5. CASE Distance(home, index, capacity) = Distance(home, j, capacity)
  BY <1>1, <1>5, DistanceInjective
<1>6. QED
  BY <1>2, <1>3, <1>4, <1>5

(* put, and the put of computeIfAbsent.                                    *)
LEMMA StoreKeeps ==
  ASSUME IndInv, TypeOK', pc = "probe", call.value \in Values, NEW r,
         Hit \/ Miss, Store(r)
  PROVE  IndInv'
<1>1. /\ capacity \in Nat \ {0} /\ index \in Slots(capacity)
      /\ call.key \in Keys
      /\ keys \in [Slots(capacity) -> Keys]
      /\ values \in [Slots(capacity) -> Values \cup {NULL}]
      /\ Sound(keys, values, capacity)
  BY TableSound DEF IndInv, TypeOK, Slots
<1>2. /\ capacity' = capacity
      /\ keys' = KeysAfterStore
      /\ values' = [values EXCEPT ![index] = call.value]
  BY DEF Store, BeginRehash
<1>3. Sound(keys', values', capacity')
  <2>1. CASE Hit
    <3>1. /\ keys' = keys /\ values'[index] # NULL /\ values[index] # NULL
          /\ \A j \in Slots(capacity) : j # index => values'[j] = values[j]
      BY <1>1, <1>2, <2>1, NullAssumption DEF Hit, Miss, KeysAfterStore
    <3>2. QED
      BY <1>1, <1>2, <3>1 DEF Sound
  <2>2. CASE Miss
    <3>1. keys' = [keys EXCEPT ![index] = call.key]
      BY <1>2, <2>2 DEF KeysAfterStore
    <3>2. \A j \in Slots(capacity) :
             OnPath(j, call.key, index, capacity) => values[j] # NULL
      BY DEF IndInv, ProbeSoFar
    <3>3. \A j \in Slots(capacity) : values[j] # NULL => keys[j] # call.key
      BY <2>2, MissMeansAbsent
    <3>4. values[index] = NULL
      BY <2>2 DEF Miss
    <3>5. Sound([keys EXCEPT ![index] = call.key],
                [values EXCEPT ![index] = call.value], capacity)
      BY <1>1, <3>2, <3>3, <3>4, AddEntrySound
    <3>6. QED
      BY <1>2, <3>1, <3>5
  <2>3. QED
    BY <2>1, <2>2
<1>4. CASE pc' = "idle"
  BY <1>3, <1>4, ReturnKeeps
<1>5. CASE BeginRehash(2 * capacity, r)
  BY <1>3, <1>5, BeginRehashKeeps
<1>6. QED
  BY <1>4, <1>5 DEF Store, ReturnWith

(* remove opens a hole; every other entry is still ahead of the loop.      *)
LEMMA RemoveHitKeeps ==
  ASSUME IndInv, TypeOK', RemoveHit
  PROVE  IndInv'
<1>1. /\ capacity \in Nat \ {0} /\ index \in Slots(capacity)
      /\ values \in [Slots(capacity) -> Values \cup {NULL}]
      /\ Sound(keys, values, capacity)
  BY TableSound DEF IndInv, TypeOK, RemoveHit, Slots
<1>2. /\ pc' = "compactChain" /\ deleteIndex' = index /\ index' = index
      /\ UNCHANGED <<capacity, keys>>
      /\ values' = [values EXCEPT ![index] = NULL]
  BY DEF RemoveHit
<1>3. \A j \in Slots(capacity) : values'[j] = IF j = index THEN NULL ELSE values[j]
  BY <1>1, <1>2
<1>4. \A i \in Slots(capacity) : i # index =>
         Distance(index, i, capacity) > Distance(index, index, capacity)
  BY <1>1, DistanceZero, DistanceRange
<1>5. Reachable'
  BY <1>1, <1>2, <1>3, <1>4 DEF Reachable, Occupied, Sound
<1>6. UniqueKeys' /\ HoleIsEmpty'
  BY <1>1, <1>2, <1>3 DEF UniqueKeys, Occupied, HoleIsEmpty, Sound
<1>7. QED
  BY <1>2, <1>5, <1>6 DEF IndInv, ProbeSoFar, InsertSoFar, NewTable

(* Where the loop of compactChain stands.                                  *)
LEMMA ChainFacts ==
  ASSUME IndInv, pc = "compactChain"
  PROVE  /\ capacity \in Nat \ {0}
         /\ index \in Slots(capacity) /\ deleteIndex \in Slots(capacity)
         /\ NextSlot(index, capacity) \in Slots(capacity)
         /\ keys \in [Slots(capacity) -> Keys]
         /\ values \in [Slots(capacity) -> Values \cup {NULL}]
         /\ values[deleteIndex] = NULL
         /\ \A i \in Slots(capacity) : Home(keys[i], capacity) \in Slots(capacity)
         /\ \A i, j \in Slots(capacity) :
               /\ values[i] # NULL /\ values[j] = NULL
               /\ OnPath(j, keys[i], i, capacity)
               => /\ j = deleteIndex
                  /\ Distance(deleteIndex, i, capacity)
                       > Distance(deleteIndex, index, capacity)
<1>1. /\ capacity \in Nat \ {0}
      /\ index \in Slots(capacity) /\ deleteIndex \in Slots(capacity)
      /\ keys \in [Slots(capacity) -> Keys]
      /\ values \in [Slots(capacity) -> Values \cup {NULL}]
  BY DEF IndInv, TypeOK, Slots
<1>2. values[deleteIndex] = NULL
  BY DEF IndInv, HoleIsEmpty
<1>3. \A i, j \in Slots(capacity) :
         /\ values[i] # NULL /\ values[j] = NULL
         /\ OnPath(j, keys[i], i, capacity)
         => /\ j = deleteIndex
            /\ Distance(deleteIndex, i, capacity)
                 > Distance(deleteIndex, index, capacity)
  BY DEF IndInv, Reachable, Occupied
<1>4. QED
  BY <1>1, <1>2, <1>3, HomeIsSlot, NextSlotIsSlot

(* When the loop meets an empty slot, the hole is on nobody's path: an     *)
(* entry beyond it would have that empty slot on its path too.             *)
LEMMA ChainEndKeeps ==
  ASSUME IndInv, TypeOK', ChainEnd
  PROVE  IndInv'
<1> DEFINE next == NextSlot(index, capacity)
           d == deleteIndex
<1>1. pc = "compactChain" /\ values[next] = NULL
  BY DEF ChainEnd
<1>2. \A i, j \in Slots(capacity) :
         values[i] # NULL /\ OnPath(j, keys[i], i, capacity) => values[j] # NULL
  <2> SUFFICES ASSUME NEW i \in Slots(capacity), NEW j \in Slots(capacity),
                      values[i] # NULL, OnPath(j, keys[i], i, capacity),
                      values[j] = NULL
               PROVE  FALSE
    OBVIOUS
  <2> DEFINE h == Home(keys[i], capacity)
             D(a, b) == Distance(a, b, capacity)
  <2>1. j = d /\ D(d, i) > D(d, index) /\ D(h, d) < D(h, i)
    BY <1>1, ChainFacts DEF OnPath
  <2>2. /\ h \in Slots(capacity) /\ next \in Slots(capacity)
        /\ d \in Slots(capacity) /\ index \in Slots(capacity)
        /\ capacity \in Nat \ {0}
    BY <1>1, ChainFacts
  <2>3. /\ D(d, i) \in Nat /\ D(d, index) \in Nat /\ D(h, d) \in Nat
        /\ D(h, i) \in Nat /\ D(d, next) \in Nat /\ D(h, next) \in Nat
        /\ D(d, i) < capacity
    BY <2>2, DistanceRange
  <2>4. D(h, i) = D(h, d) + D(d, i)
    BY <2>1, <2>2, <2>3, DistanceSum
  <2>5. i # next
    BY <1>1
  <2>6. next # d
    <3> SUFFICES ASSUME next = d PROVE FALSE
      OBVIOUS
    <3>1. D(d, index) = capacity - 1
      BY <2>2 DEF Distance, Slots, NextSlot
    <3>2. QED
      BY <2>1, <2>2, <2>3, <3>1
  <2>7. D(d, next) = D(d, index) + 1
    BY <2>2, <2>6, DistanceNext
  <2>8. D(d, next) < D(d, i)
    BY <2>1, <2>2, <2>3, <2>5, <2>7, DistanceInjective
  <2>9. D(h, next) < D(h, i)
    BY <2>1, <2>2, <2>8 DEF Distance, Slots
  <2>10. QED
    BY <1>1, <2>2, <2>6, <2>9, ChainFacts DEF OnPath
<1>3. Sound(keys', values', capacity')
  <2>1. UNCHANGED <<keys, values, capacity>>
    BY DEF ChainEnd, table
  <2>2. QED
    BY <1>2, <2>1 DEF Sound, IndInv, UniqueKeys, Occupied
<1>4. QED
  BY <1>3, ReturnKeeps DEF ChainEnd, ReturnWith

(* One iteration of compactChain.                                          *)
LEMMA ChainNextKeeps ==
  ASSUME IndInv, TypeOK', ChainNext
  PROVE  IndInv'
<1> DEFINE next == NextSlot(index, capacity)
           d == deleteIndex
           h == Home(keys[next], capacity)
           D(a, b) == Distance(a, b, capacity)
<1>1. /\ pc = "compactChain" /\ pc' = "compactChain"
      /\ values[next] # NULL /\ index' = next /\ capacity' = capacity
  BY DEF ChainNext
<1>2. /\ capacity \in Nat \ {0}
      /\ index \in Slots(capacity) /\ d \in Slots(capacity)
      /\ next \in Slots(capacity) /\ h \in Slots(capacity)
      /\ values[d] = NULL /\ next # d
  BY <1>1, ChainFacts
<1>3. D(d, next) = D(d, index) + 1
  BY <1>2, DistanceNext
<1>4. \A a, b \in Slots(capacity) : D(a, b) \in Nat
  BY <1>2, DistanceRange
<1>5. CASE BelongsInHole(next, h, d)
  <2>1. deleteIndex' = next
    BY <1>5 DEF ChainNext, MoveIntoHole
  <2>2. /\ keys' = [keys EXCEPT ![d] = keys[next]]
        /\ values' = [values EXCEPT ![d] = values[next], ![next] = NULL]
    BY <1>5 DEF ChainNext, MoveIntoHole
  <2>3. \A j \in Slots(capacity) :
           /\ keys'[j] = IF j = d THEN keys[next] ELSE keys[j]
           /\ values'[j] = IF j = next THEN NULL
                           ELSE IF j = d THEN values[next] ELSE values[j]
    BY <1>1, <1>2, <2>2, ChainFacts
  <2>4. D(h, d) < D(h, next)
    BY <1>2, <1>5, BelongsInHoleMeaning
  <2>5. D(next, next) = 0
    BY <1>2, DistanceZero
  <2>6. Reachable'
    <3> SUFFICES ASSUME NEW i \in Slots(capacity), NEW j \in Slots(capacity),
                        values'[i] # NULL, values'[j] = NULL,
                        OnPath(j, keys'[i], i, capacity)
                 PROVE  j = next /\ D(next, i) > D(next, next)
      BY <1>1, <2>1 DEF Reachable, Occupied
    <3>1. i # next /\ D(next, i) > 0
      BY <1>2, <1>4, <2>3, DistanceZero
    <3>2. CASE i = d
      <4>1. D(h, j) < D(h, d)
        BY <1>2, <2>3, <3>2 DEF OnPath
      <4>2. j # d /\ D(h, j) < D(h, next)
        BY <1>2, <1>4, <2>4, <4>1
      <4>3. values[j] # NULL
        BY <1>1, <1>2, <4>2, ChainFacts DEF OnPath
      <4>4. QED
        BY <2>3, <2>5, <3>1, <4>2, <4>3
    <3>3. CASE i # d
      <4>1. /\ values[i] # NULL /\ keys'[i] = keys[i]
            /\ j # d
        BY <1>1, <1>2, <2>3, <3>1, <3>3
      <4>2. j # next => values[j] = NULL
        BY <2>3, <4>1
      <4>3. QED
        BY <1>1, <2>5, <3>1, <4>1, <4>2, ChainFacts
    <3>4. QED
      BY <3>2, <3>3
  <2>7. UniqueKeys'
    BY <1>1, <1>2, <2>3 DEF UniqueKeys, Occupied, IndInv
  <2>8. HoleIsEmpty'
    BY <1>2, <2>1, <2>3 DEF HoleIsEmpty
  <2>9. QED
    BY <1>1, <2>6, <2>7, <2>8 DEF IndInv, ProbeSoFar, InsertSoFar, NewTable
<1>6. CASE ~BelongsInHole(next, h, d)
  <2>1. UNCHANGED <<keys, values, deleteIndex>>
    BY <1>6 DEF ChainNext
  <2>2. D(h, next) <= D(h, d)
    BY <1>2, <1>4, <1>6, BelongsInHoleMeaning
  <2>3. Reachable'
    <3> SUFFICES ASSUME NEW i \in Slots(capacity), NEW j \in Slots(capacity),
                        values[i] # NULL, values[j] = NULL,
                        OnPath(j, keys[i], i, capacity)
                 PROVE  j = d /\ D(d, i) > D(d, next)
      BY <1>1, <2>1 DEF Reachable, Occupied
    <3>1. j = d /\ D(d, i) > D(d, index)
      BY <1>1, ChainFacts
    <3>2. i # next
      BY <1>2, <1>4, <2>2, <3>1 DEF OnPath
    <3>3. D(d, i) # D(d, next)
      BY <1>2, <3>2, DistanceInjective
    <3>4. QED
      BY <1>2, <1>3, <1>4, <3>1, <3>3
  <2>4. UniqueKeys' /\ HoleIsEmpty'
    BY <1>1, <1>2, <2>1 DEF UniqueKeys, Occupied, HoleIsEmpty, IndInv
  <2>5. QED
    BY <1>1, <2>3, <2>4 DEF IndInv, ProbeSoFar, InsertSoFar, NewTable
<1>7. QED
  BY <1>5, <1>6

(* While rehash runs, the table in use does not change and the new table   *)
(* is sound.                                                               *)
LEMMA RehashFacts ==
  ASSUME IndInv, pc \in {"rehash", "insert"}
  PROVE  /\ capacity \in Nat \ {0} /\ newCapacity \in Nat \ {0}
         /\ Sound(keys, values, capacity)
         /\ Sound(tempKeys, tempValues, newCapacity)
         /\ \A i \in Slots(newCapacity) : tempValues[i] # NULL =>
               \E j \in Slots(capacity) :
                  values[j] # NULL /\ j < index /\ keys[j] = tempKeys[i]
<1>1. capacity \in Nat \ {0} /\ newCapacity \in Nat \ {0}
  BY DEF IndInv, TypeOK
<1>2. Sound(keys, values, capacity)
  BY TableSound
<1>3. NewTable
  BY DEF IndInv
<1>4. QED
  BY <1>1, <1>2, <1>3 DEF NewTable, NewOccupied, Occupied, Sound

(* Steps of rehash that leave both tables alone.                           *)
LEMMA RehashLoopKeeps ==
  ASSUME IndInv, TypeOK', pc \in {"rehash", "insert"}, pc' = "rehash",
         UNCHANGED <<capacity, keys, values, newCapacity, tempKeys, tempValues>>,
         index' >= index
  PROVE  IndInv'
<1>1. index \in Int /\ index' \in Int
  BY DEF IndInv, TypeOK
<1>2. NewOccupied' = NewOccupied /\ Occupied' = Occupied
  BY DEF NewOccupied, Occupied
<1>3. Occupied \subseteq Int
  BY DEF Occupied, Slots, IndInv, TypeOK
<1>4. NewTable'
  BY <1>1, <1>2, <1>3 DEF NewTable, IndInv
<1>5. Sound(keys', values', capacity')
  BY RehashFacts
<1>6. QED
  BY <1>4, <1>5 DEF IndInv, Sound, Reachable, UniqueKeys, Occupied,
     ProbeSoFar, HoleIsEmpty, InsertSoFar

(* The inner loop starts at the entry's home in the new table.             *)
LEMMA RehashEntryKeeps ==
  ASSUME IndInv, TypeOK', RehashEntry
  PROVE  IndInv'
<1>1. /\ pc = "rehash" /\ pc' = "insert" /\ index' = index
      /\ values[index] # NULL /\ index \in Slots(capacity)
      /\ newHash' = Home(keys[index], newCapacity)
      /\ UNCHANGED <<capacity, keys, values, newCapacity, tempKeys, tempValues>>
  BY DEF RehashEntry, table, IndInv, TypeOK, Slots
<1>2. newHash' \in Slots(newCapacity) /\ newCapacity \in Nat \ {0}
  BY <1>1 DEF TypeOK, Slots
<1>3. \A j \in Slots(newCapacity) :
         ~OnPath(j, keys[index], newHash', newCapacity)
  BY <1>1, <1>2, DistanceZero, DistanceRange DEF OnPath
<1>4. InsertSoFar'
  BY <1>1, <1>3 DEF InsertSoFar
<1>5. Sound(keys', values', capacity')
  BY <1>1, RehashFacts
<1>6. NewOccupied' = NewOccupied /\ Occupied' = Occupied
  BY <1>1 DEF NewOccupied, Occupied
<1>7. NewTable'
  BY <1>1, <1>6 DEF NewTable, IndInv
<1>8. QED
  BY <1>1, <1>4, <1>5, <1>7 DEF IndInv, Sound, Reachable, UniqueKeys,
     Occupied, ProbeSoFar, HoleIsEmpty

(* The inner loop moves past an occupied slot of the new table.            *)
LEMMA InsertNextKeeps ==
  ASSUME IndInv, TypeOK', InsertNext
  PROVE  IndInv'
<1> DEFINE h == Home(keys[index], newCapacity)
           D(a, b) == Distance(a, b, newCapacity)
<1>1. /\ pc = "insert" /\ pc' = "insert" /\ index' = index
      /\ newHash' = NextSlot(newHash, newCapacity)
      /\ tempValues[newHash] # NULL
      /\ UNCHANGED <<capacity, keys, values, newCapacity, tempKeys, tempValues>>
  BY DEF InsertNext, table
<1>2. /\ newCapacity \in Nat \ {0} /\ newHash \in Slots(newCapacity)
      /\ newHash' \in Slots(newCapacity) /\ keys[index] \in Keys
  BY <1>1 DEF IndInv, TypeOK, Slots
<1>3. h \in Slots(newCapacity)
  BY <1>2, HomeIsSlot
<1>4. \A j \in Slots(newCapacity) :
         OnPath(j, keys[index], newHash', newCapacity) => tempValues[j] # NULL
  <2> SUFFICES ASSUME NEW j \in Slots(newCapacity), D(h, j) < D(h, newHash')
               PROVE  tempValues[j] # NULL
    BY DEF OnPath
  <2>1. D(h, j) \in Nat /\ D(h, newHash) \in Nat
    BY <1>2, <1>3, DistanceRange
  <2>2. D(h, j) <= D(h, newHash)
    BY <1>1, <1>2, <1>3, <2>1, DistanceNext
  <2>3. CASE D(h, j) = D(h, newHash)
    BY <1>1, <1>2, <1>3, <2>3, DistanceInjective
  <2>4. CASE D(h, j) < D(h, newHash)
    BY <1>1, <2>4 DEF OnPath, IndInv, InsertSoFar
  <2>5. QED
    BY <2>1, <2>2, <2>3, <2>4
<1>5. InsertSoFar'
  BY <1>1, <1>4 DEF InsertSoFar, IndInv
<1>6. Sound(keys', values', capacity')
  BY <1>1, RehashFacts
<1>7. NewOccupied' = NewOccupied /\ Occupied' = Occupied
  BY <1>1 DEF NewOccupied, Occupied
<1>8. NewTable'
  BY <1>1, <1>7 DEF NewTable, IndInv
<1>9. QED
  BY <1>1, <1>5, <1>6, <1>8 DEF IndInv, Sound, Reachable, UniqueKeys,
     Occupied, ProbeSoFar, HoleIsEmpty

(* The entry goes into the first empty slot.  Its key is new there because *)
(* the table in use holds it only at index.                                *)
LEMMA InsertKeeps ==
  ASSUME IndInv, TypeOK', Insert
  PROVE  IndInv'
<1>1. /\ pc = "insert" /\ pc' = "rehash" /\ index' = index + 1
      /\ tempValues[newHash] = NULL
      /\ tempKeys' = [tempKeys EXCEPT ![newHash] = keys[index]]
      /\ tempValues' = [tempValues EXCEPT ![newHash] = values[index]]
      /\ UNCHANGED <<capacity, keys, values, newCapacity>>
  BY DEF Insert, table
<1>2. /\ newCapacity \in Nat \ {0} /\ newHash \in Slots(newCapacity)
      /\ index \in Slots(capacity) /\ keys[index] \in Keys
      /\ values[index] \in Values
      /\ tempKeys \in [Slots(newCapacity) -> Keys]
      /\ tempValues \in [Slots(newCapacity) -> Values \cup {NULL}]
  BY <1>1 DEF IndInv, TypeOK, Slots, InsertSoFar
<1>3. \A j \in Slots(newCapacity) :
         tempValues[j] # NULL => tempKeys[j] # keys[index]
  <2> SUFFICES ASSUME NEW j \in Slots(newCapacity), tempValues[j] # NULL,
                      tempKeys[j] = keys[index]
               PROVE  FALSE
    OBVIOUS
  <2>1. PICK i \in Slots(capacity) :
           values[i] # NULL /\ i < index /\ keys[i] = tempKeys[j]
    BY <1>1, RehashFacts
  <2>2. values[index] # NULL
    BY <1>2, NullAssumption
  <2>3. i = index
    BY <1>1, <1>2, <2>1, <2>2, RehashFacts DEF Sound
  <2>4. QED
    BY <1>2, <2>1, <2>3 DEF Slots
<1>4. \A j \in Slots(newCapacity) :
         OnPath(j, keys[index], newHash, newCapacity) => tempValues[j] # NULL
  BY <1>1 DEF IndInv, InsertSoFar
<1>5. Sound(tempKeys, tempValues, newCapacity)
  BY <1>1, RehashFacts
<1>6. Sound(tempKeys', tempValues', newCapacity)
  <2>1. Sound([tempKeys EXCEPT ![newHash] = keys[index]],
              [tempValues EXCEPT ![newHash] = values[index]], newCapacity)
    BY <1>1, <1>2, <1>3, <1>4, <1>5, AddEntrySound
  <2>2. QED
    BY <1>1, <2>1
<1>7. \A i \in NewOccupied' : \E j \in Occupied' : j < index' /\ keys'[j] = tempKeys'[i]
  <2> SUFFICES ASSUME NEW i \in NewOccupied'
               PROVE  \E j \in Occupied : j < index + 1 /\ keys[j] = tempKeys'[i]
    BY <1>1 DEF Occupied
  <2>1. i \in Slots(newCapacity) /\ tempValues'[i] # NULL
    BY <1>1 DEF NewOccupied
  <2>2. CASE i = newHash
    <3>1. index \in Occupied /\ index < index + 1 /\ tempKeys'[i] = keys[index]
      BY <1>1, <1>2, <2>2, NullAssumption DEF Occupied, Slots
    <3>2. QED
      BY <3>1
  <2>3. CASE i # newHash
    <3>1. tempValues[i] # NULL /\ tempKeys'[i] = tempKeys[i]
      BY <1>1, <1>2, <2>1, <2>3
    <3>2. PICK j \in Slots(capacity) :
             values[j] # NULL /\ j < index /\ keys[j] = tempKeys[i]
      BY <1>1, <2>1, <3>1, RehashFacts
    <3>3. QED
      BY <1>2, <3>1, <3>2 DEF Occupied, Slots
  <2>4. QED
    BY <2>2, <2>3
<1>8. NewTable'
  BY <1>1, <1>6, <1>7 DEF NewTable, NewOccupied, Sound
<1>9. Sound(keys', values', capacity')
  BY <1>1, RehashFacts
<1>10. QED
  BY <1>1, <1>8, <1>9 DEF IndInv, Sound, Reachable, UniqueKeys, Occupied,
     ProbeSoFar, HoleIsEmpty, InsertSoFar

(* The new table replaces the old one.                                     *)
LEMMA RehashEndKeeps ==
  ASSUME IndInv, TypeOK', RehashEnd
  PROVE  IndInv'
BY RehashFacts, ReturnKeeps DEF RehashEnd, ReturnWith

(* The invariant holds initially: the table is empty.                      *)
LEMMA InitIndInv == Init => IndInv
<1> SUFFICES ASSUME Init PROVE IndInv
  OBVIOUS
<1>1. TypeOK
  BY InitTypeOK
<1>2. Occupied = {} /\ pc = "idle"
  BY DEF Occupied, Init
<1>3. QED
  BY <1>1, <1>2 DEF IndInv, Reachable, UniqueKeys, ProbeSoFar, HoleIsEmpty,
     InsertSoFar, NewTable

(* Every step keeps the invariant, if nobody puts a null: storing one in   *)
(* an occupied slot would break the chains that run over it.               *)
LEMMA NextIndInv ==
  ASSUME NULL \notin Puttable, IndInv, [Next]_vars
  PROVE  IndInv'
<1>1. TypeOK'
  BY NextTypeOK DEF IndInv
<1>2. CASE BeginPut \/ BeginGet \/ BeginRemove \/ BeginComputeIfAbsent
  BY <1>1, <1>2, BeginKeeps
  DEF BeginPut, BeginGet, BeginRemove, BeginComputeIfAbsent
<1>3. CASE MappedToValue
  <2>1. PICK v \in Values : Begin("computeIfAbsent", computing, v)
    BY <1>3 DEF MappedToValue, Begin
  <2>2. computing \in Keys /\ pc = "idle"
    BY <1>3 DEF MappedToValue, IndInv, TypeOK
  <2>3. QED
    BY <1>1, <2>1, <2>2, BeginKeeps
<1>4. CASE MappedToNothing \/ Get \/ RemoveMiss \/ FindPresent \/ FindAbsent
  <2>1. pc' = "idle" /\ pc # "compactChain" /\ UNCHANGED table
    BY <1>4 DEF MappedToNothing, Get, RemoveMiss, FindPresent, FindAbsent,
       ReturnWith
  <2>2. QED
    BY <1>1, <2>1, TableSound, ReturnKeeps DEF table
<1>5. CASE Clear
  <2>1. /\ pc' = "idle" /\ capacity' = capacity
        /\ values' = [i \in Slots(capacity) |-> NULL]
    BY <1>5 DEF Clear, ReturnWith
  <2>2. Sound(keys', values', capacity')
    BY <2>1 DEF Sound
  <2>3. QED
    BY <1>1, <2>1, <2>2, ReturnKeeps
<1>6. CASE Compact
  <2>1. PICK n \in PowersOfTwo \cup {-(2 * MaxCapacity)} : BeginRehash(n, NULL)
    BY <1>6 DEF Compact
  <2>2. UNCHANGED <<capacity, keys, values>> /\ pc = "idle"
    BY <1>6, <2>1 DEF Compact, BeginRehash
  <2>3. QED
    BY <1>1, <2>1, <2>2, TableSound, BeginRehashKeeps
<1>7. CASE ProbeNext
  BY <1>1, <1>7, ProbeNextKeeps
<1>8. CASE Put
  <2>1. call.value \in Values
    BY <1>8, NullAssumption DEF Put, IndInv, TypeOK
  <2>2. QED
    BY <1>1, <1>8, <2>1, StoreKeeps DEF Put
<1>9. CASE StoreComputed
  BY <1>1, <1>9, StoreKeeps DEF StoreComputed, IndInv, TypeOK
<1>10. CASE RemoveHit
  BY <1>1, <1>10, RemoveHitKeeps
<1>11. CASE ChainEnd
  BY <1>1, <1>11, ChainEndKeeps
<1>12. CASE ChainNext
  BY <1>1, <1>12, ChainNextKeeps
<1>13. CASE RehashSkip
  BY <1>1, <1>13, RehashLoopKeeps
  DEF RehashSkip, table, scratch, IndInv, TypeOK
<1>14. CASE RehashEntry
  BY <1>1, <1>14, RehashEntryKeeps
<1>15. CASE InsertNext
  BY <1>1, <1>15, InsertNextKeeps
<1>16. CASE Insert
  BY <1>1, <1>16, InsertKeeps
<1>17. CASE RehashEnd
  BY <1>1, <1>17, RehashEndKeeps
<1>18. CASE UNCHANGED vars
  BY <1>1, <1>18
  DEF vars, table, scratch, IndInv, Reachable, UniqueKeys, Occupied,
      ProbeSoFar, HoleIsEmpty, InsertSoFar, NewTable, NewOccupied
<1>19. QED
  BY <1>2, <1>3, <1>4, <1>5, <1>6, <1>7, <1>8, <1>9, <1>10, <1>11, <1>12,
     <1>13, <1>14, <1>15, <1>16, <1>17, <1>18
  DEF Next, Call, Step

(* The inductive invariant holds in every reachable state.                 *)
THEOREM IndInvariant ==
  ASSUME NULL \notin Puttable PROVE Spec => []IndInv
<1>1. IndInv /\ [Next]_vars => IndInv'
  BY NextIndInv
<1>2. QED
  BY <1>1, InitIndInv, PTL DEF Spec

(* No call sequence loses an entry: whatever was put, removed, compacted   *)
(* or rehashed, and also when growing threw, every entry is found by the   *)
(* probe for its key.                                                      *)
THEOREM AlwaysReachable ==
  ASSUME NULL \notin Puttable PROVE Spec => []Reachable
<1>1. IndInv => Reachable
  BY DEF IndInv
<1>2. QED
  BY <1>1, IndInvariant, PTL

(* No call sequence stores a key twice.                                    *)
THEOREM AlwaysUniqueKeys ==
  ASSUME NULL \notin Puttable PROVE Spec => []UniqueKeys
<1>1. IndInv => UniqueKeys
  BY DEF IndInv
<1>2. QED
  BY <1>1, IndInvariant, PTL
-----------------------------------------------------------------------------
(* Counting.  The entries in the first n slots of an array, their number,  *)
(* and the pairs of keys and values at them.                               *)
Entries(V, n)  == {i \in Slots(n) : V[i] # NULL}
Number(V, n)   == Cardinality(Entries(V, n))
Pairs(K, V, n) == {<<K[i], V[i]>> : i \in Entries(V, n)}

(* There are finitely many entries.                                        *)
LEMMA NumberType ==
  ASSUME NEW V, NEW n \in Nat
  PROVE  IsFiniteSet(Entries(V, n)) /\ Number(V, n) \in Nat
<1>1. IsFiniteSet(Slots(n))
  BY FS_Interval DEF Slots
<1>2. Entries(V, n) \in SUBSET Slots(n)
  BY DEF Entries
<1>3. QED
  BY <1>1, <1>2, FS_Subset, FS_CardinalityType DEF Number

(* W is V but for slot i.                                                  *)
Differs(V, W, n, i) == \A j \in Slots(n) : j # i => W[j] = V[j]

One(v) == IF v = NULL THEN 0 ELSE 1

(* Changing a slot changes the number by what is in it before and after.   *)
LEMMA NumberAfterChange ==
  ASSUME NEW n \in Nat, NEW i \in Slots(n), NEW V, NEW W, Differs(V, W, n, i)
  PROVE  Number(W, n) = Number(V, n) + One(W[i]) - One(V[i])
<1>1. IsFiniteSet(Entries(V, n)) /\ Number(V, n) \in Nat
  BY NumberType
<1>2. CASE V[i] = NULL /\ W[i] # NULL
  <2>1. Entries(W, n) = Entries(V, n) \cup {i} /\ i \notin Entries(V, n)
    BY <1>2 DEF Differs, Entries
  <2>2. Cardinality(Entries(V, n) \cup {i}) = Cardinality(Entries(V, n)) + 1
    BY <1>1, <2>1, FS_AddElement
  <2>3. One(V[i]) = 0 /\ One(W[i]) = 1
    BY <1>2 DEF One
  <2>4. QED
    BY <1>1, <2>1, <2>2, <2>3 DEF Number
<1>3. CASE V[i] # NULL /\ W[i] = NULL
  <2>1. Entries(W, n) = Entries(V, n) \ {i} /\ i \in Entries(V, n)
    BY <1>3 DEF Differs, Entries
  <2>2. Cardinality(Entries(V, n) \ {i}) = Cardinality(Entries(V, n)) - 1
    BY <1>1, <2>1, FS_RemoveElement
  <2>3. One(V[i]) = 1 /\ One(W[i]) = 0
    BY <1>3 DEF One
  <2>4. QED
    BY <1>1, <2>1, <2>2, <2>3 DEF Number
<1>4. CASE V[i] = NULL <=> W[i] = NULL
  <2>1. Entries(W, n) = Entries(V, n)
    BY <1>4 DEF Differs, Entries
  <2>2. One(V[i]) = One(W[i]) /\ One(V[i]) \in {0, 1}
    BY <1>4 DEF One
  <2>3. QED
    BY <1>1, <2>1, <2>2 DEF Number
<1>5. QED
  BY <1>2, <1>3, <1>4

(* One slot more.                                                          *)
LEMMA NumberOfMore ==
  ASSUME NEW V, NEW n \in Nat
  PROVE  Number(V, n + 1) = Number(V, n) + One(V[n])
<1>1. IsFiniteSet(Entries(V, n)) /\ Number(V, n) \in Nat
  BY NumberType
<1>2. n \notin Entries(V, n)
  BY DEF Entries, Slots
<1>3. CASE V[n] = NULL
  <2>1. Entries(V, n + 1) = Entries(V, n)
    BY <1>3 DEF Entries, Slots
  <2>2. QED
    BY <1>1, <1>3, <2>1 DEF Number, One
<1>4. CASE V[n] # NULL
  <2>1. Entries(V, n + 1) = Entries(V, n) \cup {n}
    BY <1>4 DEF Entries, Slots
  <2>2. Cardinality(Entries(V, n) \cup {n}) = Cardinality(Entries(V, n)) + 1
    BY <1>1, <1>2, FS_AddElement
  <2>3. QED
    BY <1>1, <1>4, <2>1, <2>2 DEF Number, One
<1>5. QED
  BY <1>3, <1>4

(* Slots that are all empty.                                               *)
LEMMA NumberOfNone ==
  ASSUME NEW V, NEW n, \A i \in Slots(n) : V[i] = NULL
  PROVE  Number(V, n) = 0 /\ \A K : Pairs(K, V, n) = {}
<1>1. Entries(V, n) = {}
  BY DEF Entries
<1>2. QED
  BY <1>1, FS_EmptySet DEF Number, Pairs

(* size() counts the entries, and rehash has copied those it walked over.  *)
CountInv ==
  /\ size = Number(values, capacity)
  /\ pc \in {"rehash", "insert"} =>
       /\ Number(tempValues, newCapacity) = Number(values, index)
       /\ Pairs(tempKeys, tempValues, newCapacity) = Pairs(keys, values, index)

(* What it says of size and of the table under construction.               *)
LEMMA CountInvMeaning ==
  ASSUME TypeOK, CountInv
  PROVE  SizeIsEntries /\ RehashedSoFar
<1>1. Occupied = Entries(values, capacity)
  BY DEF Occupied, Entries
<1>2. {i \in Occupied : i < index} = Entries(values, index)
  BY DEF TypeOK, Occupied, Entries, Slots
<1>3. {i \in Slots(newCapacity) : tempValues[i] # NULL}
        = Entries(tempValues, newCapacity)
  BY DEF Entries
<1>4. SizeIsEntries
  BY <1>1 DEF CountInv, SizeIsEntries, Number
<1>5. RehashedSoFar
  BY <1>2, <1>3 DEF CountInv, RehashedSoFar, Number, Pairs
<1>6. QED
  BY <1>4, <1>5

(* Entering rehash, or failing to: the new table is empty.                 *)
LEMMA BeginRehashCounts ==
  ASSUME TypeOK, NEW n, NEW r, BeginRehash(n, r),
         size' = Number(values', capacity')
  PROVE  CountInv'
<1>1. CASE pc' = "idle"
  BY <1>1 DEF CountInv
<1>2. CASE pc' # "idle"
  <2>1. /\ newCapacity' = n /\ index' = 0
        /\ \A i \in Slots(n) : tempValues'[i] = NULL
    BY <1>2 DEF BeginRehash, ReturnWith
  <2>2. \A i \in Slots(0) : values'[i] = NULL
    BY DEF Slots
  <2>3. QED
    BY <2>1, <2>2, NumberOfNone DEF CountInv
<1>3. QED
  BY <1>1, <1>2

(* Storing adds an entry where the slot was empty.                         *)
LEMMA StoreCounts ==
  ASSUME TypeOK, CountInv, pc = "probe", call.value \in Values,
         NEW r, Store(r)
  PROVE  CountInv'
<1>1. index \in Slots(capacity) /\ capacity \in Nat
  BY DEF TypeOK, Slots
<1>2. Differs(values, values', capacity, index) /\ values'[index] = call.value
  BY <1>1 DEF Store, TypeOK, Differs
<1>3. Number(values', capacity)
        = Number(values, capacity) + One(call.value) - One(values[index])
  BY <1>1, <1>2, NumberAfterChange
<1>4. One(call.value) = 1
  BY NullAssumption DEF One
<1>5. size' = Number(values', capacity)
  <2>1. size \in Int /\ size = Number(values, capacity)
    BY DEF TypeOK, CountInv
  <2>2. size' = IF values[index] = NULL THEN size + 1 ELSE size
    BY DEF Store, Miss
  <2>3. QED
    BY <1>3, <1>4, <2>1, <2>2 DEF One
<1>6. capacity' = capacity
  BY DEF Store, BeginRehash
<1>7. CASE pc' = "idle"
  BY <1>5, <1>6, <1>7 DEF CountInv
<1>8. CASE BeginRehash(2 * capacity, r)
  BY <1>5, <1>6, <1>8, BeginRehashCounts
<1>9. QED
  BY <1>7, <1>8 DEF Store, ReturnWith

(* remove empties one slot, and compactChain moves entries without losing  *)
(* or doubling one.                                                        *)
LEMMA RemoveHitCounts ==
  ASSUME TypeOK, CountInv, RemoveHit
  PROVE  CountInv'
<1>1. index \in Slots(capacity) /\ capacity \in Nat
  BY DEF RemoveHit, TypeOK, Slots
<1>2. Differs(values, values', capacity, index) /\ values'[index] = NULL
  BY <1>1 DEF RemoveHit, TypeOK, Differs
<1>3. values[index] # NULL /\ size' = size - 1 /\ capacity' = capacity
  BY DEF RemoveHit, Hit
<1>4. Number(values', capacity)
        = Number(values, capacity) + One(NULL) - One(values[index])
  BY <1>1, <1>2, NumberAfterChange
<1>5. Number(values, capacity) \in Nat
  BY <1>1, NumberType
<1>6. size' = Number(values', capacity')
  BY <1>3, <1>4, <1>5 DEF One, CountInv
<1>7. QED
  BY <1>6 DEF RemoveHit, CountInv

(* A turn of compactChain moves an entry into the hole and leaves a hole   *)
(* behind, or moves none.                                                  *)
LEMMA ChainNextCounts ==
  ASSUME IndInv, CountInv, ChainNext
  PROVE  CountInv'
<1> DEFINE next == NextSlot(index, capacity)
<1>1. /\ index \in Slots(capacity) /\ deleteIndex \in Slots(capacity)
      /\ capacity \in Nat \ {0}
      /\ values \in [Slots(capacity) -> Values \cup {NULL}]
  BY DEF ChainNext, IndInv, TypeOK, Slots
<1>2. next \in Slots(capacity)
  BY <1>1, NextSlotIsSlot
<1>3. /\ values[next] # NULL /\ pc' = "compactChain"
      /\ capacity' = capacity /\ size' = size
  BY DEF ChainNext
<1>4. CASE values' = values
  BY <1>3, <1>4 DEF CountInv
<1>5. CASE MoveIntoHole(next)
  <2> DEFINE between == [values EXCEPT ![deleteIndex] = values[next]]
  <2>1. values[deleteIndex] = NULL
    BY DEF ChainNext, IndInv, HoleIsEmpty
  <2>2. next # deleteIndex
    BY <1>3, <2>1
  <2>3. /\ Differs(values, between, capacity, deleteIndex)
        /\ between[deleteIndex] # NULL
    BY <1>1, <1>3 DEF Differs
  <2>4. /\ Differs(between, values', capacity, next)
        /\ between[next] # NULL /\ values'[next] = NULL
    BY <1>1, <1>2, <1>3, <1>5, <2>2 DEF Differs, MoveIntoHole
  <2> HIDE DEF between, next
  <2>5. Number(between, capacity)
          = Number(values, capacity) + One(between[deleteIndex])
              - One(values[deleteIndex])
    BY <1>1, <2>3, NumberAfterChange
  <2>6. Number(values', capacity)
          = Number(between, capacity) + One(values'[next]) - One(between[next])
    BY <1>1, <1>2, <2>4, NumberAfterChange
  <2>7. Number(values, capacity) \in Nat
    BY <1>1, NumberType
  <2>8. Number(values', capacity) = Number(values, capacity)
    BY <2>1, <2>3, <2>4, <2>5, <2>6, <2>7 DEF One
  <2>9. QED
    BY <1>3, <2>8 DEF CountInv
<1>6. QED
  BY <1>4, <1>5 DEF ChainNext

(* An empty slot of the old table adds nothing to the new one, an entry is *)
(* copied to an empty slot of it.                                          *)
LEMMA RehashSkipCounts ==
  ASSUME TypeOK, CountInv, RehashSkip
  PROVE  CountInv'
<1>1. index \in Nat /\ Number(values, index) \in Nat
  BY NumberType DEF TypeOK
<1>2. Number(values, index + 1) = Number(values, index)
  BY <1>1, NumberOfMore DEF RehashSkip, One
<1>3. Entries(values, index + 1) = Entries(values, index)
  BY <1>1 DEF RehashSkip, Entries, Slots
<1>4. QED
  BY <1>2, <1>3 DEF RehashSkip, table, scratch, CountInv, Pairs

(* One entry more is in the new table, and one more behind the index over  *)
(* the old one.                                                            *)
LEMMA InsertCounts ==
  ASSUME IndInv, CountInv, Insert
  PROVE  CountInv'
<1>1. /\ index \in Nat /\ newHash \in Slots(newCapacity) /\ newCapacity \in Nat
      /\ values[index] # NULL /\ tempValues[newHash] = NULL
  BY DEF Insert, IndInv, TypeOK, InsertSoFar, Slots
<1>2. /\ tempKeys \in [Slots(newCapacity) -> Keys]
      /\ tempValues \in [Slots(newCapacity) -> Values \cup {NULL}]
      /\ tempKeys' = [tempKeys EXCEPT ![newHash] = keys[index]]
      /\ tempValues' = [tempValues EXCEPT ![newHash] = values[index]]
  BY DEF Insert, IndInv, TypeOK
<1>3. Differs(tempValues, tempValues', newCapacity, newHash)
      /\ tempValues'[newHash] = values[index]
  BY <1>1, <1>2 DEF Differs
<1>4. Number(tempValues', newCapacity)
        = Number(tempValues, newCapacity) + One(values[index])
            - One(tempValues[newHash])
  BY <1>1, <1>3, NumberAfterChange
<1>5. Number(values, index + 1) = Number(values, index) + One(values[index])
  BY <1>1, NumberOfMore
<1>6. Number(tempValues', newCapacity) = Number(values, index + 1)
  <2>1. Number(tempValues, newCapacity) = Number(values, index)
    BY DEF Insert, CountInv
  <2>2. Number(values, index) \in Nat
    BY <1>1, NumberType
  <2>3. QED
    BY <1>1, <1>4, <1>5, <2>1, <2>2 DEF One
<1>7. Pairs(tempKeys', tempValues', newCapacity)
        = Pairs(tempKeys, tempValues, newCapacity)
            \cup {<<keys[index], values[index]>>}
  <2>1. Entries(tempValues', newCapacity)
          = Entries(tempValues, newCapacity) \cup {newHash}
    BY <1>1, <1>2 DEF Entries
  <2>2. /\ newHash \notin Entries(tempValues, newCapacity)
        /\ tempKeys'[newHash] = keys[index]
        /\ tempValues'[newHash] = values[index]
    BY <1>1, <1>2 DEF Entries
  <2>3. \A i \in Entries(tempValues, newCapacity) :
           tempKeys'[i] = tempKeys[i] /\ tempValues'[i] = tempValues[i]
    BY <1>1, <1>2 DEF Entries
  <2>4. QED
    BY <2>1, <2>2, <2>3 DEF Pairs
<1>8. Pairs(keys, values, index + 1)
        = Pairs(keys, values, index) \cup {<<keys[index], values[index]>>}
  <2>1. Entries(values, index + 1) = Entries(values, index) \cup {index}
    BY <1>1 DEF Entries, Slots
  <2>2. QED
    BY <2>1 DEF Pairs
<1>9. Pairs(tempKeys', tempValues', newCapacity) = Pairs(keys, values, index + 1)
  BY <1>7, <1>8 DEF Insert, CountInv
<1>10. /\ pc' = "rehash" /\ index' = index + 1
       /\ UNCHANGED <<capacity, size, keys, values, newCapacity>>
  BY DEF Insert, table
<1>11. QED
  BY <1>6, <1>9, <1>10 DEF CountInv

(* A step that leaves table and size alone and does not end in rehash.     *)
LEMMA TableKeptCounts ==
  ASSUME CountInv, UNCHANGED <<capacity, size, values>>,
         pc' \notin {"rehash", "insert"}
  PROVE  CountInv'
BY DEF CountInv

(* Every step keeps the counts.                                            *)
LEMMA NextCountInv ==
  ASSUME NULL \notin Puttable, IndInv, CountInv, [Next]_vars
  PROVE  CountInv'
<1>1. TypeOK
  BY DEF IndInv
<1>2. CASE \/ BeginPut \/ BeginGet \/ BeginRemove \/ BeginComputeIfAbsent
           \/ MappedToValue \/ MappedToNothing
           \/ ProbeNext \/ Get \/ RemoveMiss
           \/ FindPresent \/ FindAbsent \/ ChainEnd
  <2>1. UNCHANGED <<capacity, size, values>> /\ pc' \notin {"rehash", "insert"}
    BY <1>2 DEF BeginPut, BeginGet, BeginRemove, BeginComputeIfAbsent, Begin,
       MappedToValue, MappedToNothing, ProbeNext, Get, RemoveMiss, FindPresent,
       FindAbsent, ChainEnd, ReturnWith, table
  <2>2. QED
    BY <2>1, TableKeptCounts
<1>3. CASE Clear
  <2>1. /\ size' = 0 /\ capacity' = capacity /\ pc' = "idle"
        /\ \A i \in Slots(capacity) : values'[i] = NULL
    BY <1>3 DEF Clear, ReturnWith
  <2>2. QED
    BY <2>1, NumberOfNone DEF CountInv
<1>4. CASE Compact
  <2>1. PICK n \in PowersOfTwo \cup {-(2 * MaxCapacity)} : BeginRehash(n, NULL)
    BY <1>4 DEF Compact
  <2>2. size' = Number(values', capacity')
    BY <1>4, <2>1 DEF Compact, BeginRehash, CountInv
  <2>3. QED
    BY <1>1, <2>1, <2>2, BeginRehashCounts
<1>5. CASE Put
  <2>1. call.value \in Values
    BY <1>1, <1>5, NullAssumption DEF Put, TypeOK
  <2>2. QED
    BY <1>1, <1>5, <2>1, StoreCounts DEF Put
<1>6. CASE StoreComputed
  BY <1>1, <1>6, StoreCounts DEF StoreComputed, TypeOK
<1>7. CASE RemoveHit
  BY <1>1, <1>7, RemoveHitCounts
<1>8. CASE ChainNext
  BY <1>8, ChainNextCounts
<1>9. CASE RehashSkip
  BY <1>1, <1>9, RehashSkipCounts
<1>10. CASE RehashEntry \/ InsertNext \/ UNCHANGED vars
  <2>1. /\ UNCHANGED <<capacity, size, keys, values, index, newCapacity,
                       tempKeys, tempValues>>
        /\ pc' \in {"rehash", "insert"} => pc \in {"rehash", "insert"}
    BY <1>10 DEF RehashEntry, InsertNext, vars, table, scratch
  <2>2. QED
    BY <2>1 DEF CountInv
<1>11. CASE Insert
  BY <1>11, InsertCounts
<1>12. CASE RehashEnd
  BY <1>12 DEF RehashEnd, ReturnWith, CountInv
<1>13. QED
  BY <1>2, <1>3, <1>4, <1>5, <1>6, <1>7, <1>8, <1>9, <1>10, <1>11, <1>12
  DEF Next, Call, Step

(* It holds in every reachable state.                                      *)
LEMMA AlwaysCountInv ==
  ASSUME NULL \notin Puttable PROVE Spec => [](TypeOK /\ CountInv)
<1>1. Init => IndInv /\ CountInv
  <2> SUFFICES ASSUME Init PROVE IndInv /\ CountInv
    OBVIOUS
  <2>1. \A i \in Slots(capacity) : values[i] = NULL
    BY DEF Init
  <2>2. Number(values, capacity) = 0
    BY <2>1, NumberOfNone
  <2>3. QED
    BY <2>2, InitIndInv DEF Init, CountInv
<1>2. (IndInv /\ CountInv) /\ [Next]_vars => (IndInv /\ CountInv)'
  BY NextIndInv, NextCountInv
<1>3. IndInv => TypeOK
  BY DEF IndInv
<1>4. QED
  BY <1>1, <1>2, <1>3, PTL DEF Spec

(* size(), by which growth is decided, is the number of entries after any  *)
(* calls, also when growing threw.                                         *)
THEOREM AlwaysSizeIsEntries ==
  ASSUME NULL \notin Puttable PROVE Spec => []SizeIsEntries
<1>1. TypeOK /\ CountInv => SizeIsEntries
  BY CountInvMeaning
<1>2. QED
  BY <1>1, AlwaysCountInv, PTL

(* A rehash has at any moment copied exactly the entries it has walked     *)
(* over, each once.                                                        *)
THEOREM AlwaysRehashedSoFar ==
  ASSUME NULL \notin Puttable PROVE Spec => []RehashedSoFar
<1>1. TypeOK /\ CountInv => RehashedSoFar
  BY CountInvMeaning
<1>2. QED
  BY <1>1, AlwaysCountInv, PTL
-----------------------------------------------------------------------------
(* The partial function that a table stands for.                           *)
MapOf(K, V, n) ==
  [k \in Keys |->
     IF \E i \in Entries(V, n) : K[i] = k
       THEN V[CHOOSE i \in Entries(V, n) : K[i] = k]
       ELSE NULL]

(* No key is in two slots.                                                 *)
Unique(K, V, n) ==
  \A i, j \in Slots(n) :
     V[i] # NULL /\ V[j] # NULL /\ K[i] = K[j] => i = j

(* It is the refinement mapping, and at any time a table of unique keys.   *)
LEMMA AbstractMapIs ==
  /\ AbstractMap = MapOf(keys, values, capacity)
  /\ AbstractMap' = MapOf(keys', values', capacity')
BY DEF AbstractMap, MapOf, Occupied, Entries

(* The table in use holds no key twice, also while compactChain runs.      *)
LEMMA UniqueNow == IndInv => Unique(keys, values, capacity)
BY DEF IndInv, UniqueKeys, Unique, Occupied

(* A key in the table is mapped to the value beside it, ...                *)
LEMMA MapHit ==
  ASSUME NEW K, NEW V, NEW n, Unique(K, V, n),
         NEW i \in Slots(n), V[i] # NULL, K[i] \in Keys
  PROVE  MapOf(K, V, n)[K[i]] = V[i]
<1>1. i \in Entries(V, n)
  BY DEF Entries
<1>2. \A j \in Entries(V, n) : K[j] = K[i] => j = i
  BY DEF Entries, Unique
<1>3. (CHOOSE j \in Entries(V, n) : K[j] = K[i]) = i
  BY <1>1, <1>2
<1>4. QED
  BY <1>1, <1>3 DEF MapOf

(* ... any other key to nothing.                                           *)
LEMMA MapMiss ==
  ASSUME NEW K, NEW V, NEW n, NEW k \in Keys,
         \A i \in Slots(n) : V[i] # NULL => K[i] # k
  PROVE  MapOf(K, V, n)[k] = NULL
BY DEF MapOf, Entries

(* The map of a table is a function on the keys.                           *)
LEMMA MapIsFunction ==
  \A K, V, n : MapOf(K, V, n) = [k \in Keys |-> MapOf(K, V, n)[k]]
BY DEF MapOf

(* Tables with the same pairs stand for the same map, wherever the pairs   *)
(* are.                                                                    *)
LEMMA SameMap ==
  ASSUME NEW K, NEW V, NEW n, Unique(K, V, n),
         NEW L, NEW W, NEW m, Unique(L, W, m),
         \A i \in Slots(n) : V[i] # NULL =>
            \E j \in Slots(m) : W[j] = V[i] /\ L[j] = K[i],
         \A j \in Slots(m) : W[j] # NULL =>
            \E i \in Slots(n) : V[i] = W[j] /\ K[i] = L[j]
  PROVE  MapOf(K, V, n) = MapOf(L, W, m)
<1>1. ASSUME NEW k \in Keys PROVE MapOf(K, V, n)[k] = MapOf(L, W, m)[k]
  <2>1. CASE \E i \in Slots(n) : V[i] # NULL /\ K[i] = k
    <3>1. PICK i \in Slots(n) : V[i] # NULL /\ K[i] = k
      BY <2>1
    <3>2. PICK j \in Slots(m) : W[j] = V[i] /\ L[j] = K[i]
      BY <3>1
    <3>3. MapOf(K, V, n)[k] = V[i] /\ MapOf(L, W, m)[k] = W[j]
      BY <3>1, <3>2, MapHit
    <3>4. QED
      BY <3>2, <3>3
  <2>2. CASE \A i \in Slots(n) : V[i] # NULL => K[i] # k
    <3>1. \A j \in Slots(m) : W[j] # NULL => L[j] # k
      BY <2>2
    <3>2. QED
      BY <2>2, <3>1, MapMiss
  <2>3. QED
    BY <2>1, <2>2
<1>2. /\ MapOf(K, V, n) = [k \in Keys |-> MapOf(K, V, n)[k]]
      /\ MapOf(L, W, m) = [k \in Keys |-> MapOf(L, W, m)[k]]
  BY MapIsFunction
<1>3. QED
  BY <1>1, <1>2

(* A table that differs from another one in what it has under k, and only  *)
(* there, stands for the map that differs at k.                            *)
LEMMA MapChanged ==
  ASSUME NEW K, NEW V, NEW n, Unique(K, V, n),
         NEW L, NEW W, Unique(L, W, n), NEW k \in Keys, NEW v,
         MapOf(L, W, n)[k] = v,
         \A i \in Slots(n) :
            V[i] # NULL /\ K[i] # k => W[i] = V[i] /\ L[i] = K[i],
         \A i \in Slots(n) :
            W[i] # NULL /\ L[i] # k => V[i] = W[i] /\ K[i] = L[i]
  PROVE  MapOf(L, W, n) = [MapOf(K, V, n) EXCEPT ![k] = v]
<1>1. ASSUME NEW q \in Keys, q # k
      PROVE  MapOf(L, W, n)[q] = MapOf(K, V, n)[q]
  <2>1. CASE \E i \in Slots(n) : V[i] # NULL /\ K[i] = q
    <3>1. PICK i \in Slots(n) : V[i] # NULL /\ K[i] = q
      BY <2>1
    <3>2. W[i] = V[i] /\ L[i] = K[i]
      BY <1>1, <3>1
    <3>3. MapOf(K, V, n)[q] = V[i] /\ MapOf(L, W, n)[q] = W[i]
      BY <3>1, <3>2, MapHit
    <3>4. QED
      BY <3>2, <3>3
  <2>2. CASE \A i \in Slots(n) : V[i] # NULL => K[i] # q
    <3>1. \A i \in Slots(n) : W[i] # NULL => L[i] # q
      BY <1>1, <2>2
    <3>2. QED
      BY <2>2, <3>1, MapMiss
  <2>3. QED
    BY <2>1, <2>2
<1>2. /\ MapOf(L, W, n) = [q \in Keys |-> MapOf(L, W, n)[q]]
      /\ DOMAIN MapOf(K, V, n) = Keys
  BY MapIsFunction
<1>3. QED
  BY <1>1, <1>2
-----------------------------------------------------------------------------
(* A call that is not probing has taken effect.                            *)
CallInv == pc # "probe" => call = NoCall

(* Every step keeps that.                                                  *)
LEMMA NextCallInv == CallInv /\ [Next]_vars => CallInv'
BY DEF CallInv, Next, Call, Step, BeginPut, BeginGet, BeginRemove,
   BeginComputeIfAbsent, Begin, Clear, Compact, BeginRehash, ReturnWith,
   MappedToValue, MappedToNothing, ProbeNext, Get, Put, Store, RemoveMiss,
   RemoveHit, FindPresent, FindAbsent, StoreComputed, ChainEnd, ChainNext,
   RehashSkip, RehashEntry, InsertNext, Insert, RehashEnd, vars

(* What a probe has found when it ends is what the key is mapped to.       *)
LEMMA ProbeReads ==
  ASSUME IndInv, pc = "probe", Hit \/ Miss
  PROVE  AbstractMap[call.key] = values[index]
<1>1. /\ index \in Slots(capacity) /\ call.key \in Keys
      /\ Unique(keys, values, capacity)
  BY UniqueNow DEF IndInv, TypeOK, Slots
<1>2. CASE Hit
  BY <1>1, <1>2, MapHit, AbstractMapIs DEF Hit
<1>3. CASE Miss
  <2>1. \A j \in Slots(capacity) : values[j] # NULL => keys[j] # call.key
    BY <1>3, MissMeansAbsent
  <2>2. QED
    BY <1>1, <1>3, <2>1, MapMiss, AbstractMapIs DEF Miss
<1>4. QED
  BY <1>2, <1>3

(* Storing an entry associates its key with its value.                     *)
LEMMA StoreAssociates ==
  ASSUME IndInv, IndInv', pc = "probe", call.value \in Values, NEW r,
         Hit \/ Miss, Store(r)
  PROVE  /\ AbstractMap' = [AbstractMap EXCEPT ![call.key] = call.value]
         /\ result' \in {r, EXCEPTION} /\ call' = NoCall
<1>1. /\ capacity' = capacity /\ keys' = KeysAfterStore
      /\ values' = [values EXCEPT ![index] = call.value]
  BY DEF Store, BeginRehash
<1>2. /\ index \in Slots(capacity) /\ call.key \in Keys
      /\ keys \in [Slots(capacity) -> Keys]
      /\ values \in [Slots(capacity) -> Values \cup {NULL}]
  BY DEF IndInv, TypeOK, Slots
<1>3. /\ Unique(keys, values, capacity) /\ Unique(keys', values', capacity)
  BY <1>1, UniqueNow DEF IndInv, UniqueKeys, Unique, Occupied
<1>4. keys'[index] = call.key /\ values'[index] = call.value
  BY <1>1, <1>2 DEF KeysAfterStore, Hit, Miss
<1>5. \A i \in Slots(capacity) :
         i # index => keys'[i] = keys[i] /\ values'[i] = values[i]
  BY <1>1, <1>2 DEF KeysAfterStore
<1>6. MapOf(keys', values', capacity)[call.key] = call.value
  BY <1>2, <1>3, <1>4, MapHit, NullAssumption
<1>7. \A i \in Slots(capacity) :
         values[i] # NULL /\ keys[i] # call.key =>
            values'[i] = values[i] /\ keys'[i] = keys[i]
  BY <1>5 DEF Hit, Miss
<1>8. \A i \in Slots(capacity) :
         values'[i] # NULL /\ keys'[i] # call.key =>
            values[i] = values'[i] /\ keys[i] = keys'[i]
  BY <1>4, <1>5
<1>9. AbstractMap' = [AbstractMap EXCEPT ![call.key] = call.value]
  <2>1. MapOf(keys', values', capacity)
          = [MapOf(keys, values, capacity) EXCEPT ![call.key] = call.value]
    BY <1>2, <1>3, <1>6, <1>7, <1>8, MapChanged
  <2>2. QED
    BY <1>1, <2>1, AbstractMapIs
<1>10. result' \in {r, EXCEPTION} /\ call' = NoCall
  BY DEF Store, BeginRehash, ReturnWith
<1>11. QED
  BY <1>9, <1>10

(* Emptying the slot of a key dissociates it.                              *)
LEMMA RemoveDissociates ==
  ASSUME IndInv, IndInv', RemoveHit
  PROVE  AbstractMap' = [AbstractMap EXCEPT ![call.key] = NULL]
<1>1. /\ capacity' = capacity /\ keys' = keys
      /\ values' = [values EXCEPT ![index] = NULL]
      /\ values[index] # NULL /\ keys[index] = call.key
  BY DEF RemoveHit, Hit
<1>2. /\ index \in Slots(capacity) /\ call.key \in Keys
      /\ values \in [Slots(capacity) -> Values \cup {NULL}]
  BY DEF RemoveHit, IndInv, TypeOK, Slots
<1>3. /\ Unique(keys, values, capacity) /\ Unique(keys, values', capacity)
  BY <1>1, UniqueNow DEF IndInv, UniqueKeys, Unique, Occupied
<1>4. \A i \in Slots(capacity) :
         values'[i] = IF i = index THEN NULL ELSE values[i]
  BY <1>1, <1>2
<1>5. \A i \in Slots(capacity) : values'[i] # NULL => keys[i] # call.key
  BY <1>1, <1>2, <1>3, <1>4 DEF Unique
<1>6. MapOf(keys, values', capacity)[call.key] = NULL
  BY <1>2, <1>5, MapMiss
<1>7. /\ \A i \in Slots(capacity) :
            values[i] # NULL /\ keys[i] # call.key =>
               values'[i] = values[i] /\ keys[i] = keys[i]
      /\ \A i \in Slots(capacity) :
            values'[i] # NULL /\ keys[i] # call.key =>
               values[i] = values'[i] /\ keys[i] = keys[i]
  BY <1>1, <1>4
<1>8. MapOf(keys, values', capacity)
        = [MapOf(keys, values, capacity) EXCEPT ![call.key] = NULL]
  BY <1>2, <1>3, <1>6, <1>7, MapChanged
<1>9. QED
  BY <1>1, <1>8, AbstractMapIs

(* compactChain moves an entry without changing the map: it is in the hole *)
(* when it is no longer in its old slot.                                   *)
LEMMA ChainNextQuiet ==
  ASSUME IndInv, IndInv', ChainNext
  PROVE  AbstractMap' = AbstractMap
<1> DEFINE next == NextSlot(index, capacity)
           d == deleteIndex
<1>1. pc = "compactChain" /\ values[next] # NULL /\ capacity' = capacity
  BY DEF ChainNext
<1>2. /\ d \in Slots(capacity) /\ next \in Slots(capacity)
      /\ values[d] = NULL /\ next # d
  BY <1>1, ChainFacts
<1>3. CASE MoveIntoHole(next)
  <2>1. /\ keys' = [keys EXCEPT ![d] = keys[next]]
        /\ values' = [values EXCEPT ![d] = values[next], ![next] = NULL]
    BY <1>3 DEF MoveIntoHole
  <2>2. \A j \in Slots(capacity) :
           /\ keys'[j] = IF j = d THEN keys[next] ELSE keys[j]
           /\ values'[j] = IF j = next THEN NULL
                           ELSE IF j = d THEN values[next] ELSE values[j]
    BY <1>1, <1>2, <2>1, ChainFacts
  <2>3. Unique(keys, values, capacity) /\ Unique(keys', values', capacity)
    BY <1>1, UniqueNow DEF IndInv, UniqueKeys, Unique, Occupied
  <2> HIDE DEF next, d
  <2>4. \A i \in Slots(capacity) : values[i] # NULL =>
           \E j \in Slots(capacity) : values'[j] = values[i] /\ keys'[j] = keys[i]
    <3> SUFFICES ASSUME NEW i \in Slots(capacity), values[i] # NULL
                 PROVE  \E j \in Slots(capacity) :
                           values'[j] = values[i] /\ keys'[j] = keys[i]
      OBVIOUS
    <3>1. CASE i = next
      <4>1. values'[d] = values[i] /\ keys'[d] = keys[i]
        BY <1>2, <2>2, <3>1
      <4>2. QED
        BY <1>2, <4>1
    <3>2. CASE i # next
      <4>1. values'[i] = values[i] /\ keys'[i] = keys[i]
        BY <1>2, <2>2, <3>2
      <4>2. QED
        BY <4>1
    <3>3. QED
      BY <3>1, <3>2
  <2>5. \A j \in Slots(capacity) : values'[j] # NULL =>
           \E i \in Slots(capacity) : values[i] = values'[j] /\ keys[i] = keys'[j]
    BY <1>2, <2>2
  <2>6. MapOf(keys, values, capacity) = MapOf(keys', values', capacity)
    BY <2>3, <2>4, <2>5, SameMap
  <2>7. QED
    BY <1>1, <2>6, AbstractMapIs
<1>4. CASE UNCHANGED <<keys, values>>
  BY <1>1, <1>4, AbstractMapIs
<1>5. QED
  BY <1>3, <1>4 DEF ChainNext

(* The table rehash has built has the entries of the one it replaces.      *)
LEMMA RehashEndQuiet ==
  ASSUME IndInv, CountInv, IndInv', RehashEnd
  PROVE  AbstractMap' = AbstractMap
<1>1. /\ capacity' = newCapacity /\ keys' = tempKeys /\ values' = tempValues
      /\ index = capacity /\ pc = "rehash"
  BY DEF RehashEnd
<1>2. /\ Unique(keys, values, capacity)
      /\ Unique(tempKeys, tempValues, newCapacity)
  BY <1>1, UniqueNow, RehashFacts DEF Sound, Unique
<1>3. Pairs(tempKeys, tempValues, newCapacity) = Pairs(keys, values, capacity)
  BY <1>1 DEF CountInv
<1>4. \A i \in Slots(capacity) : values[i] # NULL =>
         \E j \in Slots(newCapacity) :
            tempValues[j] = values[i] /\ tempKeys[j] = keys[i]
  <2> SUFFICES ASSUME NEW i \in Slots(capacity), values[i] # NULL
               PROVE  \E j \in Slots(newCapacity) :
                         tempValues[j] = values[i] /\ tempKeys[j] = keys[i]
    OBVIOUS
  <2>1. <<keys[i], values[i]>> \in Pairs(tempKeys, tempValues, newCapacity)
    BY <1>3 DEF Pairs, Entries
  <2>2. QED
    BY <2>1 DEF Pairs, Entries
<1>5. \A j \in Slots(newCapacity) : tempValues[j] # NULL =>
         \E i \in Slots(capacity) :
            values[i] = tempValues[j] /\ keys[i] = tempKeys[j]
  <2> SUFFICES ASSUME NEW j \in Slots(newCapacity), tempValues[j] # NULL
               PROVE  \E i \in Slots(capacity) :
                         values[i] = tempValues[j] /\ keys[i] = tempKeys[j]
    OBVIOUS
  <2>1. <<tempKeys[j], tempValues[j]>> \in Pairs(keys, values, capacity)
    BY <1>3 DEF Pairs, Entries
  <2>2. QED
    BY <2>1 DEF Pairs, Entries
<1>6. MapOf(keys, values, capacity) = MapOf(tempKeys, tempValues, newCapacity)
  BY <1>2, <1>4, <1>5, SameMap
<1>7. QED
  BY <1>1, <1>6, AbstractMapIs
-----------------------------------------------------------------------------
(* Steps of the table are steps of the map.                                *)
LEMMA InitRefines == Init => Abstract!Init
<1> SUFFICES ASSUME Init PROVE Abstract!Init
  OBVIOUS
<1>1. \A k \in Keys : MapOf(keys, values, capacity)[k] = NULL
  <2>1. \A i \in Slots(capacity) : values[i] = NULL
    BY DEF Init
  <2>2. QED
    BY <2>1, MapMiss
<1>2. AbstractMap = [k \in Keys |-> NULL]
  BY <1>1, MapIsFunction, AbstractMapIs, Zenon
<1>3. QED
  BY <1>2 DEF Init, Abstract!Init, Abstract!NoCall, NoCall

(* The start of a call is its invocation.                                  *)
LEMMA BeginRefines ==
  ASSUME NULL \notin Puttable, CallInv, Call, ~Clear, ~Compact
  PROVE  Abstract!Next
<1>1. Abstract!Ready
  BY DEF CallInv, Call, BeginPut, BeginGet, BeginRemove, BeginComputeIfAbsent,
     MappedToValue, MappedToNothing, Clear, Compact, Abstract!Ready,
     Abstract!NoCall, NoCall
<1>2. ASSUME NEW op, NEW k, NEW v, Begin(op, k, v)
      PROVE  Abstract!Invoke(op, k, v)
  <2>1. AbstractMap' = AbstractMap
    BY <1>2, AbstractMapIs DEF Begin, table
  <2>2. QED
    BY <1>1, <1>2, <2>1 DEF Begin, Abstract!Invoke
<1>3. CASE BeginPut
  <2>1. PICK k \in Keys, v \in Puttable : Begin("put", k, v)
    BY <1>3 DEF BeginPut
  <2>2. v \in Values
    BY NullAssumption
  <2>3. QED
    BY <1>2, <2>1, <2>2 DEF Abstract!Next
<1>4. CASE BeginGet \/ BeginRemove \/ BeginComputeIfAbsent
  BY <1>2, <1>4
  DEF BeginGet, BeginRemove, BeginComputeIfAbsent, Abstract!Next
<1>5. CASE MappedToValue
  <2>1. AbstractMap' = AbstractMap
    BY <1>5, AbstractMapIs DEF MappedToValue, table
  <2>2. Abstract!Computed
    BY <1>1, <1>5, <2>1 DEF MappedToValue, Abstract!Computed
  <2>3. QED
    BY <2>2 DEF Abstract!Next
<1>6. CASE MappedToNothing
  <2>1. AbstractMap' = AbstractMap
    BY <1>6, AbstractMapIs DEF MappedToNothing, table
  <2>2. Abstract!Computed
    BY <1>1, <1>6, <2>1 DEF MappedToNothing, ReturnWith, CallInv,
       Abstract!Computed
  <2>3. QED
    BY <2>2 DEF Abstract!Next
<1>7. QED
  BY <1>3, <1>4, <1>5, <1>6 DEF Call

(* clear empties the map at once.                                          *)
LEMMA ClearRefines == CallInv /\ Clear => Abstract!Clear
<1> SUFFICES ASSUME CallInv, Clear PROVE Abstract!Clear
  OBVIOUS
<1>1. \A k \in Keys : MapOf(keys', values', capacity')[k] = NULL
  <2>1. \A i \in Slots(capacity') : values'[i] = NULL
    BY DEF Clear
  <2>2. QED
    BY <2>1, MapMiss
<1>2. AbstractMap' = [k \in Keys |-> NULL]
  BY <1>1, MapIsFunction, AbstractMapIs, Zenon
<1>3. QED
  BY <1>2 DEF Clear, ReturnWith, CallInv, Abstract!Clear, Abstract!Ready,
     Abstract!NoCall, NoCall

(* compact leaves the map alone, or throws.                                *)
LEMMA CompactRefines ==
  CallInv /\ Compact => Abstract!Compact \/ Abstract!Fail
<1> SUFFICES ASSUME CallInv, Compact PROVE Abstract!Compact \/ Abstract!Fail
  OBVIOUS
<1>1. PICK n : BeginRehash(n, NULL)
  BY DEF Compact
<1>2. AbstractMap' = AbstractMap
  BY <1>1, AbstractMapIs DEF Compact, BeginRehash
<1>3. call = NoCall /\ call' = NoCall /\ result' \in {NULL, EXCEPTION}
  BY <1>1 DEF Compact, CallInv, BeginRehash, ReturnWith
<1>4. QED
  BY <1>2, <1>3 DEF Compact, Abstract!Compact, Abstract!Fail,
     Abstract!Ready, Abstract!NoCall, NoCall

(* Where a probe ends, the call takes effect.                              *)
LEMMA ProbeRefines ==
  ASSUME NULL \notin Puttable, IndInv, IndInv',
         \/ Get \/ Put \/ RemoveMiss \/ RemoveHit
         \/ FindPresent \/ FindAbsent \/ StoreComputed
  PROVE  Abstract!Next
<1>1. pc = "probe" /\ (Hit \/ Miss) /\ call.key \in Keys
  BY DEF Get, Put, RemoveMiss, RemoveHit, FindPresent, FindAbsent,
     StoreComputed, IndInv, TypeOK
<1>2. AbstractMap[call.key] = values[index]
  BY <1>1, ProbeReads
<1>3. CASE Get
  <2>1. AbstractMap' = AbstractMap
    BY <1>3, AbstractMapIs DEF Get, table
  <2>2. Abstract!Get
    BY <1>2, <1>3, <2>1
    DEF Get, ReturnWith, Abstract!Get, Abstract!NoCall, NoCall
  <2>3. QED
    BY <2>2 DEF Abstract!Next
<1>4. CASE Put
  <2>1. call.value \in Values
    BY <1>4, NullAssumption DEF Put, IndInv, TypeOK
  <2>2. /\ AbstractMap' = [AbstractMap EXCEPT ![call.key] = call.value]
        /\ result' \in {values[index], EXCEPTION} /\ call' = NoCall
    BY <1>1, <1>4, <2>1, StoreAssociates DEF Put
  <2>3. Abstract!Put
    BY <1>2, <1>4, <2>2 DEF Put, Abstract!Put, Abstract!NoCall, NoCall
  <2>4. QED
    BY <2>3 DEF Abstract!Next
<1>5. CASE RemoveMiss
  <2>1. values[index] = NULL
    BY <1>5 DEF RemoveMiss, Miss
  <2>2. AbstractMap' = AbstractMap
    BY <1>5, AbstractMapIs DEF RemoveMiss, table
  <2>3. AbstractMap = [AbstractMap EXCEPT ![call.key] = NULL]
    BY <1>1, <1>2, <2>1 DEF AbstractMap
  <2>4. Abstract!Remove
    BY <1>2, <1>5, <2>1, <2>2, <2>3
    DEF RemoveMiss, ReturnWith, Abstract!Remove, Abstract!NoCall, NoCall
  <2>5. QED
    BY <2>4 DEF Abstract!Next
<1>6. CASE RemoveHit
  <2>1. AbstractMap' = [AbstractMap EXCEPT ![call.key] = NULL]
    BY <1>6, RemoveDissociates
  <2>2. Abstract!Remove
    BY <1>2, <1>6, <2>1
    DEF RemoveHit, Abstract!Remove, Abstract!NoCall, NoCall
  <2>3. QED
    BY <2>2 DEF Abstract!Next
<1>7. CASE FindPresent \/ FindAbsent
  <2>1. AbstractMap' = AbstractMap
    BY <1>7, AbstractMapIs DEF FindPresent, FindAbsent, table
  <2>2. Abstract!Find
    BY <1>2, <1>7, <2>1 DEF FindPresent, FindAbsent, Hit, Miss, ReturnWith,
       Abstract!Find, Abstract!NoCall, NoCall
  <2>3. QED
    BY <2>2 DEF Abstract!Next
<1>8. CASE StoreComputed
  <2>1. call.value \in Values
    BY <1>8 DEF StoreComputed, IndInv, TypeOK
  <2>2. /\ AbstractMap' = [AbstractMap EXCEPT ![call.key] = call.value]
        /\ result' \in {call.value, EXCEPTION} /\ call' = NoCall
    BY <1>1, <1>8, <2>1, StoreAssociates DEF StoreComputed
  <2>3. Abstract!Enter
    BY <1>8, <2>2
    DEF StoreComputed, Abstract!Enter, Abstract!NoCall, NoCall
  <2>4. QED
    BY <2>3 DEF Abstract!Next
<1>9. QED
  BY <1>3, <1>4, <1>5, <1>6, <1>7, <1>8

(* The other iterations of a loop do not show.                             *)
LEMMA LoopsQuiet ==
  ASSUME IndInv, CountInv, IndInv', CallInv,
         \/ ProbeNext \/ ChainEnd \/ ChainNext
         \/ RehashSkip \/ RehashEntry \/ InsertNext \/ Insert \/ RehashEnd
  PROVE  UNCHANGED <<AbstractMap, call, computing, result>>
<1>1. UNCHANGED <<call, computing, result>>
  BY DEF CallInv, ProbeNext, ChainEnd, ChainNext, RehashSkip, RehashEntry,
     InsertNext, Insert, RehashEnd, ReturnWith
<1>2. CASE ChainNext
  BY <1>1, <1>2, ChainNextQuiet
<1>3. CASE RehashEnd
  BY <1>1, <1>3, RehashEndQuiet
<1>4. CASE \/ ProbeNext \/ ChainEnd
           \/ RehashSkip \/ RehashEntry \/ InsertNext \/ Insert
  <2>1. UNCHANGED table
    BY <1>4 DEF ProbeNext, ChainEnd, RehashSkip, RehashEntry, InsertNext,
       Insert
  <2>2. AbstractMap' = AbstractMap
    BY <2>1, AbstractMapIs DEF table
  <2>3. QED
    BY <1>1, <2>2
<1>5. QED
  BY <1>2, <1>3, <1>4

(* A step of the table is a step of the map, or none.                      *)
LEMMA NextRefines ==
  ASSUME NULL \notin Puttable, IndInv, CountInv, IndInv', CallInv, [Next]_vars
  PROVE  [Abstract!Next]_(Abstract!vars)
<1>1. CASE Call
  BY <1>1, BeginRefines, ClearRefines, CompactRefines DEF Abstract!Next
<1>2. CASE Step
  BY <1>2, ProbeRefines, LoopsQuiet DEF Step, Abstract!vars
<1>3. CASE UNCHANGED vars
  <2>1. UNCHANGED <<AbstractMap, call, computing, result>>
    BY <1>3, AbstractMapIs DEF vars, table
  <2>2. QED
    BY <2>1 DEF Abstract!vars
<1>4. QED
  BY <1>1, <1>2, <1>3 DEF Next

(* BiInt2ObjectMap is the partial function its callers take it for: put,   *)
(* get, remove, clear, compact and computeIfAbsent each take effect at one *)
(* step and return what the function says, whatever entries collide, wrap  *)
(* around the table or move, and whether growing or compacting throws.     *)
THEOREM ImplementsIntPairMap ==
  ASSUME NULL \notin Puttable PROVE Spec => Refinement
<1> DEFINE Inv == IndInv /\ CountInv /\ CallInv
<1>1. Init => Inv
  <2> SUFFICES ASSUME Init PROVE Inv
    OBVIOUS
  <2>1. \A i \in Slots(capacity) : values[i] = NULL
    BY DEF Init
  <2>2. Number(values, capacity) = 0
    BY <2>1, NumberOfNone
  <2>3. QED
    BY <2>2, InitIndInv DEF Init, CountInv, CallInv
<1>2. Inv /\ [Next]_vars => Inv'
  BY NextIndInv, NextCountInv, NextCallInv
<1>3. Inv /\ Inv' /\ [Next]_vars => [Abstract!Next]_(Abstract!vars)
  BY NextRefines
<1>4. QED
  BY <1>1, <1>2, <1>3, InitRefines, PTL DEF Spec, Refinement, Abstract!Spec
-----------------------------------------------------------------------------
(* A table never holds more entries than there are keys.                   *)
LEMMA NumberOfKeys ==
  ASSUME NEW n \in Nat, NEW K \in [Slots(n) -> Keys], NEW V, Unique(K, V, n)
  PROVE  Number(V, n) <= Cardinality(Keys)
<1> DEFINE f == [i \in Entries(V, n) |-> K[i]]
<1>1. IsFiniteSet(Entries(V, n)) /\ Number(V, n) \in Nat
  BY NumberType
<1>2. IsFiniteSet(Keys) /\ Cardinality(Keys) \in Nat
  BY KeysAssumption, FS_CardinalityType
<1>3. f \in [Entries(V, n) -> Keys]
  BY DEF Entries
<1>4. \A x, y \in Entries(V, n) : f[x] = f[y] => x = y
  BY DEF Entries, Unique
<1> HIDE DEF f
<1>5. ~ Cardinality(Keys) < Cardinality(Entries(V, n))
  BY <1>1, <1>2, <1>3, <1>4, FS_PigeonHole
<1>6. QED
  BY <1>1, <1>2, <1>5 DEF Number

(* A table whose slots are all taken has as many entries as slots.         *)
LEMMA NumberOfAll ==
  ASSUME NEW n \in Nat, NEW V, \A i \in Slots(n) : V[i] # NULL
  PROVE  Number(V, n) = n
<1>1. Entries(V, n) = 0 .. n - 1
  BY DEF Entries, Slots
<1>2. QED
  BY <1>1, FS_Interval DEF Number

(* The entries of a part of the table are no more than those of all of it. *)
LEMMA NumberOfPart ==
  ASSUME NEW n \in Nat, NEW m \in 0 .. n, NEW V
  PROVE  Number(V, m) <= Number(V, n)
<1>1. Entries(V, m) \in SUBSET Entries(V, n)
  BY DEF Entries, Slots
<1>2. IsFiniteSet(Entries(V, n))
  BY NumberType
<1>3. QED
  BY <1>1, <1>2, FS_Subset DEF Number

(* Quotients, compared without dividing.                                   *)
LEMMA QuotientBelow ==
  ASSUME NEW x \in Nat, NEW y \in Nat \ {0}, NEW n \in Nat, x < n * y
  PROVE  x \div y < n
<1>1. x \div y \in Nat /\ (x \div y) * y <= x
  OBVIOUS
<1> DEFINE q == x \div y
<1> HIDE DEF q
<1>2. q \in Nat /\ q * y < n * y
  BY <1>1 DEF q
<1>3. ASSUME q >= n PROVE FALSE
  <2>1. PICK d \in Nat : q = n + d
    BY <1>2, <1>3
  <2>2. q * y = n * y + d * y /\ d * y \in Nat /\ n * y \in Nat
    BY <2>1
  <2>3. QED
    BY <1>2, <2>2
<1>4. QED
  BY <1>2, <1>3 DEF q

(* And from below.                                                         *)
LEMMA QuotientAbove ==
  ASSUME NEW x \in Nat, NEW y \in Nat \ {0}, NEW n \in Nat, n * y <= x
  PROVE  n <= x \div y
<1> DEFINE q == x \div y
<1>1. q \in Nat /\ x < (q + 1) * y
  OBVIOUS
<1> HIDE DEF q
<1>2. (q + 1) * y = q * y + y /\ q * y \in Nat
  BY <1>1
<1>3. ASSUME n >= q + 1 PROVE FALSE
  <2>1. PICK d \in Nat : n = (q + 1) + d
    BY <1>1, <1>3
  <2>2. n * y = (q + 1) * y + d * y /\ d * y \in Nat /\ (q + 1) * y \in Nat
    BY <1>1, <2>1
  <2>3. QED
    BY <1>1, <2>2
<1>4. QED
  BY <1>1, <1>3 DEF q

(* The threshold of a table is below its capacity; that of a capacity      *)
(* that overflowed is not positive.                                        *)
LEMMA ThresholdBelow ==
  ASSUME NEW n \in Int
  PROVE  /\ n > 0 => ThresholdFor(n) < n
         /\ n < 0 => ThresholdFor(n) <= 0
<1>1. LoadNum \in Nat /\ LoadDen \in Nat \ {0} /\ LoadNum < LoadDen
  BY LoadFactorAssumption
<1>2. CASE n > 0
  <2>1. n \in Nat /\ n * LoadNum \in Nat
    BY <1>1, <1>2
  <2>2. n * LoadNum < n * LoadDen
    <3>1. PICK d \in Nat \ {0} : LoadDen = LoadNum + d
      BY <1>1
    <3>2. n * LoadDen = n * LoadNum + n * d /\ n * d > 0 /\ n * d \in Nat
      BY <1>1, <1>2, <2>1, <3>1
    <3>3. QED
      BY <2>1, <3>2
  <2>3. (n * LoadNum) \div LoadDen < n
    BY <1>1, <2>1, <2>2, QuotientBelow
  <2>4. QED
    BY <1>2, <2>3 DEF ThresholdFor
<1>3. CASE n < 0
  <2>1. (-n) * LoadNum \in Nat
    BY <1>1, <1>3
  <2>2. ((-n) * LoadNum) \div LoadDen \in Nat
    BY <1>1, <2>1
  <2>3. QED
    BY <1>3, <2>2 DEF ThresholdFor
<1>4. QED
  BY <1>2, <1>3

(* compact keeps room for at least one entry more, if the smallest table   *)
(* has it: five entries at a load factor of 0.9 are rounded to 6 slots.    *)
LEMMA CompactRoom ==
  ASSUME NEW s \in Nat, 5 <= MinCapacity
  PROVE  s < AtLeastMin(IdealCapacity(s))
<1>1. LoadNum \in Nat \ {0} /\ LoadDen \in Nat \ {0} /\ 10 * LoadNum <= 9 * LoadDen
  BY LoadFactorAssumption
<1>2. CASE s < 5
  <2>1. 2 * s * LoadDen + LoadNum \in Nat /\ 2 * LoadNum \in Nat \ {0}
    BY <1>1
  <2>2. IdealCapacity(s) \in Int
    BY <2>1 DEF IdealCapacity
  <2>3. QED
    BY <1>2, <2>2, CapacityAssumption DEF AtLeastMin
<1>3. CASE s >= 5
  <2> DEFINE x == 2 * s * LoadDen + LoadNum
             y == 2 * LoadNum
  <2>1. x \in Nat /\ y \in Nat \ {0}
    BY <1>1
  <2>2. (s + 1) * y <= x
    <3>1. PICK d \in Nat : 9 * LoadDen = 10 * LoadNum + d
      BY <1>1
    <3>2. PICK e \in Nat : s = 5 + e
      BY <1>3
    <3>3. (s + 1) * y = 12 * LoadNum + 2 * (e * LoadNum)
      BY <1>1, <3>2
    <3>4. x = 10 * LoadDen + 2 * (e * LoadDen) + LoadNum
      BY <1>1, <3>2
    <3>5. e * LoadNum <= e * LoadDen
      <4>1. PICK f \in Nat : LoadDen = LoadNum + f
        BY <1>1
      <4>2. e * LoadDen = e * LoadNum + e * f /\ e * f \in Nat
        BY <1>1, <3>2, <4>1
      <4>3. QED
        BY <1>1, <3>2, <4>2
    <3>6. 11 * LoadNum <= 10 * LoadDen
      BY <1>1
    <3>7. e * LoadNum \in Nat /\ e * LoadDen \in Nat
      BY <1>1, <3>2
    <3>8. QED
      BY <1>1, <3>3, <3>4, <3>5, <3>6, <3>7
  <2> HIDE DEF x, y
  <2>3. s + 1 <= x \div y /\ x \div y \in Int
    BY <2>1, <2>2, QuotientAbove
  <2>4. IdealCapacity(s) = x \div y
    BY DEF IdealCapacity, x, y
  <2>5. QED
    BY <2>3, <2>4, CapacityAssumption DEF AtLeastMin
<1>4. QED
  BY <1>2, <1>3
-----------------------------------------------------------------------------
(* When a table cannot fill up: nothing makes growing throw that leaves    *)
(* the table as it was, and no null is put.  The capacity cannot overflow  *)
(* with fewer keys than half the largest table has slots, and 5 is less    *)
(* than MIN_CAPACITY.                                                      *)
RoomToGrow ==
  /\ ~AllocationMayFail
  /\ NULL \notin Puttable
  /\ 5 <= MinCapacity
  /\ 2 * Cardinality(Keys) <= MaxCapacity

(* There is room in the table in use, and the threshold will make it grow  *)
(* before there is none; while rehash runs, in the table it fills.         *)
Room(n) == size < n /\ resizeThreshold < n

RoomInv == IF pc \in {"rehash", "insert"} THEN Room(newCapacity)
                                          ELSE Room(capacity)

(* Entering rehash.                                                        *)
LEMMA BeginRehashRoom ==
  ASSUME RoomToGrow, TypeOK, NEW n \in Int, NEW r, BeginRehash(n, r),
         size' \in Int, size' < capacity \/ n > 0,
         n > 0 => size' < n
  PROVE  RoomInv'
<1>1. resizeThreshold' = ThresholdFor(n) /\ capacity' = capacity
  BY DEF BeginRehash
<1>2. CASE n < 0
  <2>1. pc' = "idle"
    BY <1>2 DEF BeginRehash, ReturnWith
  <2>2. ThresholdFor(n) <= 0 /\ ThresholdFor(n) \in Int /\ capacity > 0
        /\ capacity \in Int
    BY <1>2, ThresholdBelow, ThresholdIsInt DEF TypeOK
  <2>3. QED
    BY <1>1, <1>2, <2>1, <2>2 DEF RoomInv, Room
<1>3. CASE n > 0
  <2>1. pc' = "rehash" /\ newCapacity' = n
    BY <1>3 DEF BeginRehash, RoomToGrow
  <2>2. QED
    BY <1>1, <1>3, <2>1, ThresholdBelow DEF RoomInv, Room
<1>4. CASE n = 0
  BY <1>4 DEF BeginRehash, RoomToGrow
<1>5. QED
  BY <1>2, <1>3, <1>4

(* Storing an entry leaves room, or the capacity is past half the largest  *)
(* and there are not as many keys, or the table grows.                     *)
LEMMA StoreRoom ==
  ASSUME RoomToGrow, TypeOK, RoomInv, TypeOK', CountInv', IndInv',
         pc = "probe", NEW r, Store(r)
  PROVE  RoomInv'
<1>1. /\ capacity \in Nat \ {0} /\ size \in Int /\ size < capacity
      /\ resizeThreshold \in Int /\ resizeThreshold < capacity
      /\ capacity' = capacity /\ size' \in Int /\ size' <= size + 1
  BY DEF TypeOK, RoomInv, Room, Store, BeginRehash
<1>2. size' <= Cardinality(Keys) /\ Cardinality(Keys) \in Nat
  <2>1. Unique(keys', values', capacity')
    BY DEF IndInv, UniqueKeys, Unique, Occupied
  <2>2. keys' \in [Slots(capacity') -> Keys] /\ capacity' \in Nat
    BY DEF TypeOK
  <2>3. Number(values', capacity') <= Cardinality(Keys)
    BY <2>1, <2>2, NumberOfKeys
  <2>4. QED
    BY <2>3, KeysAssumption, FS_CardinalityType DEF CountInv
<1>3. CASE size' <= resizeThreshold /\ ReturnWith(r)
           /\ UNCHANGED <<capacity, resizeThreshold>>
  BY <1>1, <1>3 DEF ReturnWith, RoomInv, Room
<1>4. CASE 2 * capacity > MaxCapacity /\ ReturnWith(EXCEPTION)
           /\ UNCHANGED <<capacity, resizeThreshold>>
  <2>1. size' < capacity
    BY <1>1, <1>2, <1>4, CapacityAssumption DEF RoomToGrow
  <2>2. QED
    BY <1>1, <1>4, <2>1 DEF ReturnWith, RoomInv, Room
<1>5. CASE BeginRehash(2 * capacity, r)
  BY <1>1, <1>5, BeginRehashRoom
<1>6. QED
  BY <1>3, <1>4, <1>5 DEF Store

(* compact leaves room, or throws and leaves the table as it was.          *)
LEMMA CompactKeepsRoom ==
  ASSUME RoomToGrow, IndInv, CountInv, RoomInv, Compact
  PROVE  RoomInv'
<1>1. PICK n \in PowersOfTwo \cup {-(2 * MaxCapacity)} :
         /\ FindNextPositivePowerOfTwo(AtLeastMin(IdealCapacity(size)), n)
         /\ BeginRehash(n, NULL)
  BY DEF Compact
<1>2. /\ n \in Int /\ size \in Nat /\ size < capacity /\ size' = size
      /\ TypeOK
  <2>1. Number(values, capacity) \in Nat
    BY NumberType DEF IndInv, TypeOK
  <2>2. QED
    BY <2>1, CapacityAssumption
    DEF Compact, PowersOfTwo, RoomInv, Room, CountInv, IndInv
<1>3. ASSUME n > 0 PROVE size < n
  <2>1. size < AtLeastMin(IdealCapacity(size))
    BY <1>2, CompactRoom DEF RoomToGrow
  <2>2. AtLeastMin(IdealCapacity(size)) <= n
    BY <1>1, <1>3, CapacityAssumption DEF FindNextPositivePowerOfTwo
  <2>3. AtLeastMin(IdealCapacity(size)) \in Int
    <3>1. 2 * size * LoadDen + LoadNum \in Nat /\ 2 * LoadNum \in Nat \ {0}
      BY <1>2, LoadFactorAssumption
    <3>2. IdealCapacity(size) \in Int
      BY <3>1 DEF IdealCapacity
    <3>3. QED
      BY <3>2, CapacityAssumption DEF AtLeastMin
  <2>4. QED
    BY <1>2, <2>1, <2>2, <2>3
<1>4. QED
  BY <1>1, <1>2, <1>3, BeginRehashRoom

(* Every step leaves room.                                                 *)
LEMMA NextRoomInv ==
  ASSUME RoomToGrow, IndInv, CountInv, IndInv', CountInv', RoomInv, [Next]_vars
  PROVE  RoomInv'
<1>1. TypeOK /\ TypeOK' /\ capacity \in Nat \ {0} /\ size \in Int
  BY DEF IndInv, TypeOK
<1>2. CASE \/ BeginPut \/ BeginGet \/ BeginRemove \/ BeginComputeIfAbsent
           \/ MappedToValue \/ MappedToNothing
           \/ ProbeNext \/ Get \/ RemoveMiss
           \/ FindPresent \/ FindAbsent \/ ChainEnd \/ ChainNext
  <2>1. /\ UNCHANGED <<capacity, size, resizeThreshold>>
        /\ pc \notin {"rehash", "insert"} /\ pc' \notin {"rehash", "insert"}
    BY <1>2 DEF BeginPut, BeginGet, BeginRemove, BeginComputeIfAbsent, Begin,
       MappedToValue, MappedToNothing, ProbeNext, Get, RemoveMiss, FindPresent,
       FindAbsent, ChainEnd, ChainNext, ReturnWith, table
  <2>2. QED
    BY <2>1 DEF RoomInv, Room
<1>3. CASE Clear \/ RemoveHit
  <2>1. /\ UNCHANGED <<capacity, resizeThreshold>> /\ size' \in {0, size - 1}
        /\ pc \notin {"rehash", "insert"} /\ pc' \notin {"rehash", "insert"}
    BY <1>3 DEF Clear, RemoveHit, ReturnWith
  <2>2. QED
    BY <1>1, <2>1 DEF RoomInv, Room
<1>4. CASE Compact
  BY <1>4, CompactKeepsRoom
<1>5. CASE Put \/ StoreComputed
  BY <1>1, <1>5, StoreRoom DEF Put, StoreComputed
<1>6. CASE RehashSkip \/ RehashEntry \/ InsertNext \/ Insert
  <2>1. /\ UNCHANGED <<newCapacity, size, resizeThreshold>>
        /\ pc \in {"rehash", "insert"} /\ pc' \in {"rehash", "insert"}
    BY <1>6 DEF RehashSkip, RehashEntry, InsertNext, Insert, table, scratch
  <2>2. QED
    BY <2>1 DEF RoomInv, Room
<1>7. CASE RehashEnd
  BY <1>7 DEF RehashEnd, ReturnWith, RoomInv, Room
<1>8. CASE UNCHANGED vars
  BY <1>8 DEF vars, table, scratch, RoomInv, Room
<1>9. QED
  BY <1>2, <1>3, <1>4, <1>5, <1>6, <1>7, <1>8 DEF Next, Call, Step

(* Room means an empty slot, by counting.                                  *)
LEMMA RoomMeansEmptySlot ==
  ASSUME IndInv, CountInv, RoomInv
  PROVE  HasEmptySlot
<1>1. /\ capacity \in Nat /\ newCapacity \in Nat /\ index \in 0 .. capacity
      /\ size = Number(values, capacity)
  BY DEF IndInv, TypeOK, CountInv
<1>2. ASSUME pc \notin {"rehash", "insert"}, Occupied = Slots(capacity)
      PROVE  FALSE
  <2>1. Number(values, capacity) = capacity
    BY <1>1, <1>2, NumberOfAll DEF Occupied
  <2>2. QED
    BY <1>1, <1>2, <2>1 DEF RoomInv, Room
<1>3. ASSUME pc = "insert", \A i \in Slots(newCapacity) : tempValues[i] # NULL
      PROVE  FALSE
  <2>1. Number(tempValues, newCapacity) = newCapacity
    BY <1>1, <1>3, NumberOfAll
  <2>2. Number(tempValues, newCapacity) = Number(values, index)
    BY <1>3 DEF CountInv
  <2>3. Number(values, index) <= size
    BY <1>1, NumberOfPart
  <2>4. size < newCapacity /\ size \in Int
    BY <1>3 DEF RoomInv, Room, IndInv, TypeOK
  <2>5. QED
    BY <1>1, <2>1, <2>2, <2>3, <2>4
<1>4. QED
  BY <1>2, <1>3 DEF HasEmptySlot

(* A probe for an absent key, compactChain and the inner loop of rehash    *)
(* meet an empty slot and end: the table is never full where they run, at  *)
(* any legal load factor and after any compaction, as long as growing does *)
(* not throw.                                                              *)
THEOREM AlwaysHasEmptySlot ==
  ASSUME RoomToGrow PROVE Spec => []HasEmptySlot
<1> DEFINE Inv == IndInv /\ CountInv /\ RoomInv
<1>1. Init => Inv
  <2> SUFFICES ASSUME Init PROVE Inv
    OBVIOUS
  <2>1. \A i \in Slots(capacity) : values[i] = NULL
    BY DEF Init
  <2>2. Number(values, capacity) = 0
    BY <2>1, NumberOfNone
  <2>3. IndInv /\ CountInv
    BY <2>2, InitIndInv DEF Init, CountInv
  <2>4. RoomInv
    BY <2>3, ThresholdBelow DEF Init, RoomInv, Room, IndInv, TypeOK
  <2>5. QED
    BY <2>3, <2>4
<1>2. NULL \notin Puttable
  BY DEF RoomToGrow
<1>3. Inv /\ [Next]_vars => Inv'
  <2> SUFFICES ASSUME Inv, [Next]_vars PROVE Inv'
    OBVIOUS
  <2>1. IndInv' /\ CountInv'
    BY <1>2, NextIndInv, NextCountInv
  <2>2. QED
    BY <2>1, NextRoomInv
<1>4. Inv => HasEmptySlot
  BY RoomMeansEmptySlot
<1>5. QED
  BY <1>1, <1>3, <1>4, PTL DEF Spec
-----------------------------------------------------------------------------
(* The loop of forEach.                                                    *)

(* A pair of arrays is not null, and no caller puts a null.                *)
WalkAssumption == /\ \A K, V : [keys |-> K, values |-> V] # NULL
                  /\ NULL \notin Puttable

(* The loop is inside the array it walks over.                             *)
Inside(V, c) == \E n \in Nat : DOMAIN V = Slots(n) /\ c \in 0 .. n

(* What the loop over K and V has seen up to c.  No key is there twice;    *)
(* every key that the consumer got is behind the loop; every key that was  *)
(* there at the start still is, and if it is behind the loop the consumer  *)
(* got it.                                                                 *)
SeenSoFar(K, V, c, start, seen) ==
  /\ seen \in [Keys -> {0, 1}]
  /\ \A i \in DOMAIN V : V[i] # NULL => K[i] \in Keys
  /\ \A i, j \in DOMAIN V :
        V[i] # NULL /\ V[j] # NULL /\ K[i] = K[j] => i = j
  /\ \A k \in Keys :
        seen[k] = 1 => \E i \in DOMAIN V : i < c /\ V[i] # NULL /\ K[i] = k
  /\ \A k \in start :
        /\ k \in Keys
        /\ \E i \in DOMAIN V :
              V[i] # NULL /\ K[i] = k /\ (i < c => seen[k] = 1)

(* The inductive invariant.  Without a removal there is no hole to be      *)
(* filled under the loop.                                                  *)
WalkInv ==
  /\ lost \in BOOLEAN
  /\ ~walking => old = NULL /\ cursor = 0 /\ visits = NoVisits /\ ~lost
  /\ Inside(WalkedOver.values, cursor)
  /\ walking /\ ~lost =>
       /\ pc # "compactChain"
       /\ SeenSoFar(WalkedOver.keys, WalkedOver.values, cursor, before, visits)

(* Entries that were there stay where they are, others may appear.         *)
Grown(K, V, L, W) ==
  /\ DOMAIN W = DOMAIN V
  /\ \A i \in DOMAIN V : V[i] # NULL => W[i] # NULL /\ L[i] = K[i]

(* What the loop has seen stays true of arrays that have only grown.       *)
LEMMA GrownSeen ==
  ASSUME NEW K, NEW V, NEW L, NEW W, Grown(K, V, L, W),
         NEW n, DOMAIN W = Slots(n), Unique(L, W, n),
         \A i \in Slots(n) : W[i] # NULL => L[i] \in Keys,
         NEW c, NEW start, NEW seen, SeenSoFar(K, V, c, start, seen)
  PROVE  SeenSoFar(L, W, c, start, seen)
<1>1. \A i, j \in DOMAIN W : W[i] # NULL /\ W[j] # NULL /\ L[i] = L[j] => i = j
  BY DEF Unique
<1>2. \A k \in Keys :
        seen[k] = 1 => \E i \in DOMAIN W : i < c /\ W[i] # NULL /\ L[i] = k
  BY DEF Grown, SeenSoFar
<1>3. \A k \in start :
        /\ k \in Keys
        /\ \E i \in DOMAIN W :
              W[i] # NULL /\ L[i] = k /\ (i < c => seen[k] = 1)
  BY DEF Grown, SeenSoFar
<1>4. QED
  BY <1>1, <1>2, <1>3 DEF SeenSoFar

(* Present is what the table in use holds.                                 *)
LEMMA PresentIs == IndInv => Present = {keys[i] : i \in Occupied}
<1> SUFFICES ASSUME IndInv PROVE Present = {keys[i] : i \in Occupied}
  OBVIOUS
<1>1. Unique(keys, values, capacity)
  BY UniqueNow
<1>2. \A i \in Occupied :
         keys[i] \in Keys /\ values[i] # NULL /\ i \in Slots(capacity)
  BY DEF IndInv, TypeOK, Occupied
<1>3. \A i \in Occupied : AbstractMap[keys[i]] = values[i]
  BY <1>1, <1>2, MapHit, AbstractMapIs
<1>4. \A k \in Keys : AbstractMap[k] # NULL => \E i \in Occupied : keys[i] = k
  BY DEF AbstractMap
<1>5. QED
  BY <1>2, <1>3, <1>4 DEF Present

(* So it is after a step.                                                  *)
LEMMA PresentIsThen ==
  (IndInv => Present = {keys[i] : i \in Occupied})'
BY PresentIs, PTL

(* Until rehash replaces the arrays, a call that removes nothing leaves    *)
(* the entries where they are and opens no hole.                           *)
LEMMA CallsKeepEntries ==
  ASSUME NULL \notin Puttable, IndInv, IndInv', Next,
         pc # "compactChain", Present \subseteq Present'
  PROVE  /\ pc' # "compactChain"
         /\ ~(pc = "rehash" /\ pc' = "idle") =>
               capacity' = capacity /\ Grown(keys, values, keys', values')
<1> DEFINE Goal == /\ pc' # "compactChain"
                   /\ ~(pc = "rehash" /\ pc' = "idle") =>
                         /\ capacity' = capacity
                         /\ Grown(keys, values, keys', values')
<1>1. ASSUME pc' # "compactChain", UNCHANGED <<capacity, keys, values>>
      PROVE  Goal
  BY <1>1 DEF Grown
<1>2. /\ keys \in [Slots(capacity) -> Keys]
      /\ values \in [Slots(capacity) -> Values \cup {NULL}]
  BY DEF IndInv, TypeOK
<1>3. ASSUME NEW i \in Slots(capacity), values[i] # NULL
      PROVE  \E j \in Slots(capacity') : values'[j] # NULL /\ keys'[j] = keys[i]
  <2>1. keys[i] \in Present
    BY <1>3, PresentIs DEF Occupied
  <2>2. keys[i] \in {keys'[j] : j \in Occupied'}
    BY <2>1, PresentIsThen
  <2>3. QED
    BY <2>2 DEF Occupied
<1>4. CASE BeginPut \/ BeginGet \/ BeginRemove \/ BeginComputeIfAbsent
  BY <1>1, <1>4 DEF BeginPut, BeginGet, BeginRemove, BeginComputeIfAbsent,
     Begin, table
<1>5. CASE MappedToValue
  BY <1>1, <1>5 DEF MappedToValue, table
<1>6. CASE MappedToNothing \/ Get \/ RemoveMiss \/ FindPresent \/ FindAbsent
  BY <1>1, <1>6 DEF MappedToNothing, Get, RemoveMiss, FindPresent, FindAbsent,
     ReturnWith, table
<1>7. CASE Clear
  <2>1. /\ pc' = "idle" /\ capacity' = capacity /\ keys' = keys
        /\ values' = [i \in Slots(capacity) |-> NULL]
    BY <1>7 DEF Clear, ReturnWith
  <2>2. \A i \in Slots(capacity) : values[i] = NULL
    BY <1>3, <2>1
  <2>3. QED
    BY <1>2, <2>1, <2>2 DEF Grown
<1>8. CASE Compact
  <2>1. UNCHANGED <<capacity, keys, values>> /\ pc' \in {"idle", "rehash"}
    BY <1>8 DEF Compact, BeginRehash, ReturnWith
  <2>2. QED
    BY <1>1, <2>1
<1>9. ASSUME NEW r, Store(r), Hit \/ Miss, call.value # NULL, pc = "probe"
      PROVE  Goal
  <2>1. /\ capacity' = capacity /\ pc' \in {"idle", "rehash"}
        /\ keys' = KeysAfterStore
        /\ values' = [values EXCEPT ![index] = call.value]
    BY <1>9 DEF Store, BeginRehash, ReturnWith
  <2>2. index \in Slots(capacity)
    BY <1>9 DEF IndInv, TypeOK, Slots
  <2>3. DOMAIN values' = DOMAIN values
    BY <2>1
  <2>4. ASSUME NEW i \in Slots(capacity), values[i] # NULL
        PROVE  values'[i] # NULL /\ keys'[i] = keys[i]
    BY <1>2, <1>9, <2>1, <2>2, <2>4 DEF KeysAfterStore, Miss
  <2>5. QED
    BY <1>2, <2>1, <2>3, <2>4 DEF Grown
<1>10. CASE Put
  <2>1. call.value # NULL
    BY <1>10 DEF Put, IndInv, TypeOK
  <2>2. QED
    BY <1>9, <1>10, <2>1 DEF Put
<1>11. CASE StoreComputed
  BY <1>9, <1>11 DEF StoreComputed
<1>12. CASE RemoveHit
  <2>1. /\ index \in Slots(capacity) /\ values[index] # NULL
        /\ capacity' = capacity /\ keys' = keys
        /\ values' = [values EXCEPT ![index] = NULL]
    BY <1>12 DEF RemoveHit, Hit, IndInv, TypeOK, Slots
  <2>2. PICK j \in Slots(capacity) : values'[j] # NULL /\ keys[j] = keys[index]
    BY <1>3, <2>1
  <2>3. j # index /\ values[j] # NULL
    BY <1>2, <2>1, <2>2
  <2>4. QED
    BY <2>1, <2>2, <2>3, UniqueNow DEF Unique
<1>13. CASE RehashSkip \/ RehashEntry \/ InsertNext \/ Insert \/ ProbeNext
  BY <1>1, <1>13 DEF RehashSkip, RehashEntry, InsertNext, Insert, ProbeNext, table
<1>14. CASE RehashEnd
  BY <1>14 DEF RehashEnd, ReturnWith
<1>15. CASE ChainEnd \/ ChainNext
  BY <1>15 DEF ChainEnd, ChainNext
<1>16. QED
  BY <1>4, <1>5, <1>6, <1>7, <1>8, <1>10, <1>11, <1>12, <1>13, <1>14, <1>15
  DEF Next, Call, Step

(* Only the end of rehash changes the length of the arrays.                *)
LEMMA CallsKeepCapacity ==
  Next /\ ~(pc = "rehash" /\ pc' = "idle") => capacity' = capacity
BY DEF Next, Call, Step, BeginPut, BeginGet, BeginRemove, BeginComputeIfAbsent,
   Begin, Clear, Compact, BeginRehash, ReturnWith, MappedToValue,
   MappedToNothing, ProbeNext, Get, Put, RemoveMiss, RemoveHit, FindPresent,
   FindAbsent, StoreComputed, Store, ChainEnd, ChainNext, RehashSkip,
   RehashEntry, InsertNext, Insert, RehashEnd, table

(* A step of the map, of the consumer or outside of forEach.               *)
LEMMA MapStepWalks ==
  ASSUME WalkAssumption, IndInv, IndInv', WalkInv, MapStep
  PROVE  WalkInv'
<1>1. /\ Next /\ UNCHANGED <<walking, cursor>>
      /\ lost' \in BOOLEAN /\ lost \in BOOLEAN
      /\ lost' = (lost \/ (walking /\ ~(Present \subseteq Present')))
      /\ ~lost' => before' = before /\ visits' = visits
      /\ lost' => visits' = NoVisits
  BY DEF MapStep, WalkInv
<1>2. /\ DOMAIN values = Slots(capacity) /\ DOMAIN values' = Slots(capacity')
      /\ capacity \in Nat /\ capacity' \in Nat
  BY DEF IndInv, TypeOK
<1> DEFINE Ends == walking /\ old = NULL /\ pc = "rehash" /\ pc' = "idle"
<1>3. CASE ~walking
  <2>1. /\ old' = NULL /\ cursor' = 0 /\ ~lost' /\ visits' = NoVisits /\ ~walking'
    BY <1>1, <1>3 DEF WalkInv, MapStep
  <2>2. WalkedOver' = [keys |-> keys', values |-> values']
    BY <2>1 DEF WalkedOver
  <2>3. Inside(WalkedOver.values, cursor)'
    BY <1>2, <2>1, <2>2 DEF Inside
  <2>4. QED
    BY <1>1, <2>1, <2>3 DEF WalkInv
<1>4. CASE walking /\ (old # NULL \/ (pc = "rehash" /\ pc' = "idle"))
  <2>1. WalkedOver' = WalkedOver
    <3>1. CASE old # NULL
      BY <1>4, <3>1 DEF WalkedOver, MapStep
    <3>2. CASE old = NULL
      <4>1. old' = [keys |-> keys, values |-> values]
        BY <1>4, <3>2 DEF MapStep
      <4>2. old' # NULL
        BY <4>1 DEF WalkAssumption
      <4>3. QED
        BY <3>2, <4>1, <4>2 DEF WalkedOver
    <3>3. QED
      BY <3>1, <3>2
  <2>2. Inside(WalkedOver.values, cursor)'
    BY <1>1, <2>1 DEF WalkInv, Inside
  <2>3. ASSUME ~lost'
        PROVE  /\ pc' # "compactChain"
               /\ SeenSoFar(WalkedOver.keys, WalkedOver.values, cursor, before,
                            visits)'
    <3>1. ~lost /\ Present \subseteq Present' /\ pc # "compactChain"
      BY <1>1, <1>4, <2>3 DEF WalkInv
    <3>2. pc' # "compactChain"
      BY <1>1, <3>1, CallsKeepEntries DEF WalkAssumption
    <3>3. SeenSoFar(WalkedOver.keys, WalkedOver.values, cursor, before, visits)
      BY <1>4, <3>1 DEF WalkInv
    <3>4. /\ WalkedOver'.keys = WalkedOver.keys
          /\ WalkedOver'.values = WalkedOver.values
          /\ cursor' = cursor /\ before' = before /\ visits' = visits
      BY <1>1, <2>1, <2>3
    <3>5. QED
      BY <3>2, <3>3, <3>4
  <2>4. QED
    BY <1>1, <1>4, <2>2, <2>3 DEF WalkInv
<1>5. CASE walking /\ old = NULL /\ ~(pc = "rehash" /\ pc' = "idle")
  <2>1. capacity' = capacity /\ old' = NULL
    BY <1>1, <1>5, CallsKeepCapacity DEF MapStep
  <2>2. /\ WalkedOver = [keys |-> keys, values |-> values]
        /\ WalkedOver' = [keys |-> keys', values |-> values']
    BY <1>5, <2>1 DEF WalkedOver
  <2>3. Inside(WalkedOver.values, cursor)'
    <3>1. Inside(values, cursor)
      BY <2>2 DEF WalkInv
    <3>2. PICK n \in Nat : DOMAIN values = Slots(n) /\ cursor \in 0 .. n
      BY <3>1 DEF Inside
    <3>3. DOMAIN values' = Slots(n)
      BY <1>2, <2>1, <3>2
    <3>4. QED
      BY <1>1, <2>2, <3>2, <3>3 DEF Inside
  <2>4. ASSUME ~lost'
        PROVE  /\ pc' # "compactChain"
               /\ SeenSoFar(keys', values', cursor, before, visits)
    <3>1. ~lost /\ Present \subseteq Present' /\ pc # "compactChain"
      BY <1>1, <1>5, <2>4 DEF WalkInv
    <3>2. pc' # "compactChain" /\ Grown(keys, values, keys', values')
      BY <1>1, <1>5, <3>1, CallsKeepEntries DEF WalkAssumption
    <3>3. SeenSoFar(keys, values, cursor, before, visits)
      BY <1>5, <2>2, <3>1 DEF WalkInv
    <3>4. /\ Unique(keys', values', capacity')
          /\ \A i \in Slots(capacity') : values'[i] # NULL => keys'[i] \in Keys
      BY DEF IndInv, TypeOK, UniqueKeys, Unique, Occupied
    <3>5. QED
      BY <1>2, <3>2, <3>3, <3>4, GrownSeen
  <2>5. QED
    BY <1>1, <1>5, <2>1, <2>2, <2>3, <2>4 DEF WalkInv
<1>6. QED
  BY <1>3, <1>4, <1>5

(* forEach begins over the table in use.                                   *)
LEMMA BeginForEachWalks ==
  ASSUME IndInv, WalkInv, BeginForEach
  PROVE  WalkInv'
<1>1. /\ pc = "idle" /\ ~walking /\ walking' = TRUE /\ before' = Present
      /\ UNCHANGED <<cursor, old, visits, lost>>
      /\ UNCHANGED <<keys, values, capacity, pc>>
  BY DEF BeginForEach, vars, table
<1>2. old = NULL /\ cursor = 0 /\ visits = NoVisits /\ ~lost
  BY <1>1 DEF WalkInv
<1>3. /\ WalkedOver = [keys |-> keys, values |-> values]
      /\ WalkedOver' = [keys |-> keys, values |-> values]
  BY <1>1, <1>2 DEF WalkedOver
<1>4. DOMAIN values = Slots(capacity)
  BY DEF IndInv, TypeOK
<1>5. SeenSoFar(keys, values, 0, Present, NoVisits)
  <2>1. NoVisits \in [Keys -> {0, 1}] /\ \A k \in Keys : NoVisits[k] = 0
    BY DEF NoVisits
  <2>2. \A i \in DOMAIN values : values[i] # NULL => keys[i] \in Keys
    BY DEF IndInv, TypeOK
  <2>3. Unique(keys, values, capacity)
    BY UniqueNow
  <2>4. \A k \in Present :
           k \in Keys /\ \E i \in DOMAIN values : values[i] # NULL /\ keys[i] = k
    BY <1>4, PresentIs DEF Occupied, Present
  <2>5. \A i \in DOMAIN values : ~(i < 0)
    BY <1>4 DEF Slots
  <2>6. QED
    BY <1>4, <2>1, <2>2, <2>3, <2>4, <2>5 DEF SeenSoFar, Unique
<1>6. QED
  BY <1>1, <1>2, <1>3, <1>5 DEF WalkInv, Inside

(* The loop goes on to the next slot.                                      *)
LEMMA LoopWalks ==
  ASSUME WalkInv, walking, ~AtEnd,
         UNCHANGED <<pc, WalkedOver, walking, old, lost, before>>,
         cursor' = cursor + 1,
         lost => visits' = visits,
         ~lost => visits' = IF WalkedOver.values[cursor] = NULL THEN visits
                  ELSE [visits EXCEPT ![WalkedOver.keys[cursor]] = @ + 1]
  PROVE  WalkInv'
<1> DEFINE K == WalkedOver.keys
           V == WalkedOver.values
<1>1. PICK n \in Nat : DOMAIN V = Slots(n) /\ cursor \in 0 .. n
  BY DEF WalkInv, Inside
<1>2. cursor \in Slots(n)
  BY <1>1 DEF AtEnd
<1>3. cursor + 1 \in 0 .. n
  BY <1>2 DEF Slots
<1>4. Inside(V, cursor + 1)
  BY <1>1, <1>3 DEF Inside
<1>5. ASSUME ~lost
      PROVE  SeenSoFar(K, V, cursor + 1, before, visits')
  <2>1. SeenSoFar(K, V, cursor, before, visits)
    BY <1>5 DEF WalkInv
  <2>2. \A i \in DOMAIN V : i < cursor + 1 <=> i < cursor \/ i = cursor
    BY <1>1, <1>2 DEF Slots
  <2>3. CASE V[cursor] = NULL
    <3>1. visits' = visits
      BY <1>5, <2>3
    <3> HIDE DEF K, V
    <3>2. QED
      BY <2>1, <2>2, <2>3, <3>1 DEF SeenSoFar
  <2>4. CASE V[cursor] # NULL
    <3> DEFINE q == K[cursor]
    <3>1. visits' = [visits EXCEPT ![q] = @ + 1]
      BY <1>5, <2>4
    <3> HIDE DEF K, V
    <3>2. q \in Keys /\ cursor \in DOMAIN V
      BY <1>1, <1>2, <2>1, <2>4 DEF SeenSoFar
    <3>3. \A i \in DOMAIN V : V[i] # NULL /\ K[i] = q => i = cursor
      BY <2>1, <2>4, <3>2 DEF SeenSoFar
    <3>4. ~(cursor < cursor)
      BY <1>1
    <3>5. visits[q] = 0
      BY <2>1, <3>2, <3>3, <3>4 DEF SeenSoFar
    <3> HIDE DEF q
    <3>6. /\ visits' \in [Keys -> {0, 1}] /\ visits'[q] = 1
          /\ \A k \in Keys : k # q => visits'[k] = visits[k]
      BY <2>1, <3>1, <3>2, <3>5 DEF SeenSoFar
    <3>7. ASSUME NEW k \in Keys, visits'[k] = 1
          PROVE  \E i \in DOMAIN V : i < cursor + 1 /\ V[i] # NULL /\ K[i] = k
      <4>1. CASE k = q
        BY <2>2, <2>4, <3>2, <4>1 DEF q
      <4>2. CASE k # q
        BY <2>1, <2>2, <3>6, <3>7, <4>2 DEF SeenSoFar
      <4>3. QED
        BY <4>1, <4>2
    <3>8. ASSUME NEW k \in before
          PROVE  /\ k \in Keys
                 /\ \E i \in DOMAIN V :
                       /\ V[i] # NULL /\ K[i] = k
                       /\ i < cursor + 1 => visits'[k] = 1
      <4>1. PICK i \in DOMAIN V :
               V[i] # NULL /\ K[i] = k /\ (i < cursor => visits[k] = 1)
        BY <2>1 DEF SeenSoFar
      <4>2. k \in Keys
        BY <2>1 DEF SeenSoFar
      <4>3. i < cursor + 1 => visits'[k] = 1
        BY <2>2, <3>6, <4>1, <4>2 DEF q
      <4>4. QED
        BY <4>1, <4>2, <4>3
    <3>9. /\ \A i \in DOMAIN V : V[i] # NULL => K[i] \in Keys
          /\ \A i, j \in DOMAIN V :
                V[i] # NULL /\ V[j] # NULL /\ K[i] = K[j] => i = j
      BY <2>1 DEF SeenSoFar
    <3>10. visits' \in [Keys -> {0, 1}]
      BY <3>6
    <3>11. QED
      BY <3>7, <3>8, <3>9, <3>10 DEF SeenSoFar
  <2>5. QED
    BY <2>3, <2>4
<1>6. WalkedOver'.keys = K /\ WalkedOver'.values = V
  OBVIOUS
<1>7. Inside(WalkedOver.values, cursor)'
  BY <1>4, <1>6 DEF Inside
<1> HIDE DEF K, V
<1>8. ~lost => SeenSoFar(WalkedOver.keys, WalkedOver.values, cursor, before, visits)'
  BY <1>5, <1>6 DEF SeenSoFar
<1>9. QED
  BY <1>7, <1>8 DEF WalkInv

(* Every step keeps the invariant.                                         *)
LEMMA WalkNextInv ==
  ASSUME WalkAssumption, IndInv, IndInv', WalkInv, [WalkNext]_<<vars, walkVars>>
  PROVE  WalkInv'
<1>1. ASSUME UNCHANGED vars
      PROVE  UNCHANGED <<keys, values, pc, capacity>>
  BY <1>1 DEF vars, table
<1>2. CASE SkipEmpty \/ Accept
  <2>1. UNCHANGED <<keys, values, pc, capacity, walking, old, before, lost>>
    BY <1>2, <1>1 DEF SkipEmpty, Accept
  <2>2. UNCHANGED WalkedOver
    BY <2>1 DEF WalkedOver
  <2>3. walking /\ ~AtEnd /\ cursor' = cursor + 1
    BY <1>2 DEF SkipEmpty, Accept
  <2>4. lost => visits' = visits
    BY <1>2 DEF SkipEmpty, Accept
  <2>5. ~lost => visits' = IF WalkedOver.values[cursor] = NULL THEN visits
                  ELSE [visits EXCEPT ![WalkedOver.keys[cursor]] = @ + 1]
    BY <1>2 DEF SkipEmpty, Accept
  <2>6. QED
    BY <2>1, <2>2, <2>3, <2>4, <2>5, LoopWalks
<1>3. CASE EndForEach
  <2>1. /\ walking' = FALSE /\ cursor' = 0 /\ old' = NULL /\ lost' = FALSE
        /\ visits' = NoVisits /\ UNCHANGED <<keys, values, pc, capacity>>
    BY <1>1, <1>3 DEF EndForEach
  <2>2. WalkedOver' = [keys |-> keys, values |-> values]
    BY <2>1 DEF WalkedOver
  <2>3. DOMAIN values = Slots(capacity) /\ capacity \in Nat
    BY DEF IndInv, TypeOK
  <2>4. Inside(WalkedOver'.values, cursor')
    BY <2>1, <2>2, <2>3 DEF Inside
  <2>5. lost' \in BOOLEAN /\ ~lost'
    BY <2>1
  <2>6. ~walking'
    BY <2>1
  <2>7. QED
    BY <2>1, <2>4, <2>5, <2>6 DEF WalkInv
<1>4. CASE UNCHANGED <<vars, walkVars>>
  <2>1. /\ UNCHANGED <<keys, values, pc, capacity>>
        /\ UNCHANGED <<walking, cursor, old, before, visits, lost>>
    BY <1>1, <1>4 DEF walkVars
  <2>2. UNCHANGED WalkedOver
    BY <2>1 DEF WalkedOver
  <2>3. /\ WalkedOver'.keys = WalkedOver.keys
        /\ WalkedOver'.values = WalkedOver.values
    BY <2>2
  <2>4. QED
    BY <2>1, <2>3 DEF WalkInv, Inside, SeenSoFar
<1>5. QED
  BY <1>2, <1>3, <1>4, MapStepWalks, BeginForEachWalks DEF WalkNext

(* The invariant holds before the first forEach.                           *)
LEMMA InitWalkInv == IndInv /\ Init /\ WalkInit => WalkInv
<1> SUFFICES ASSUME IndInv, Init, WalkInit PROVE WalkInv
  OBVIOUS
<1>1. DOMAIN values = Slots(capacity) /\ capacity \in Nat
  BY DEF IndInv, TypeOK
<1>2. WalkedOver.values = values
  BY DEF WalkInit, WalkedOver
<1>3. Inside(WalkedOver.values, cursor)
  BY <1>1, <1>2 DEF WalkInit, Inside
<1>4. lost \in BOOLEAN /\ ~lost /\ ~walking
  BY DEF WalkInit
<1>5. QED
  BY <1>3, <1>4 DEF WalkInit, WalkInv

(* At the end of the loop every slot is behind it.                         *)
LEMMA WalkMeaning == WalkInv => VisitedOnce
<1> SUFFICES ASSUME WalkInv, walking, ~lost
             PROVE  /\ \A k \in Keys : visits[k] <= 1
                    /\ AtEnd => \A k \in before : visits[k] = 1
  BY DEF VisitedOnce
<1> DEFINE K == WalkedOver.keys
           V == WalkedOver.values
<1>1. SeenSoFar(K, V, cursor, before, visits)
  BY DEF WalkInv
<1>2. PICK n \in Nat : DOMAIN V = Slots(n) /\ cursor \in 0 .. n
  BY DEF WalkInv, Inside
<1>3. \A k \in Keys : visits[k] <= 1
  BY <1>1 DEF SeenSoFar
<1>4. ASSUME AtEnd, NEW k \in before PROVE visits[k] = 1
  <2>1. \A i \in DOMAIN V : i < cursor
    BY <1>2, <1>4 DEF AtEnd, Slots
  <2>2. QED
    BY <1>1, <2>1 DEF SeenSoFar
<1>5. QED
  BY <1>3, <1>4

(* A consumer that removes nothing gets the value of every key that was in *)
(* the map exactly once and of no key twice, whatever it puts and however  *)
(* often the table is rehashed under the loop (BiInt2ObjectMap.java:236).  *)
THEOREM AlwaysVisitedOnce ==
  ASSUME WalkAssumption PROVE WalkSpec => []VisitedOnce
<1>1. Init /\ WalkInit => IndInv /\ WalkInv
  BY InitIndInv, InitWalkInv
<1>2. (IndInv /\ WalkInv) /\ [WalkNext]_<<vars, walkVars>> => (IndInv /\ WalkInv)'
  <2>1. [WalkNext]_<<vars, walkVars>> => [Next]_vars
    BY DEF WalkNext, MapStep, BeginForEach, SkipEmpty, Accept, EndForEach
  <2>2. NULL \notin Puttable
    BY DEF WalkAssumption
  <2>3. QED
    BY <2>1, <2>2, NextIndInv, WalkNextInv
<1>3. WalkInv => VisitedOnce
  BY WalkMeaning
<1>4. QED
  BY <1>1, <1>2, <1>3, PTL DEF WalkSpec
=============================================================================
