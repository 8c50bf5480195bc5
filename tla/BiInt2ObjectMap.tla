--------------------------- MODULE BiInt2ObjectMap ---------------------------
(***************************************************************************)
(* collections/BiInt2ObjectMap.java: an open-addressing hash table with    *)
(* linear probing, removal by backward shift (compactChain) and growth by  *)
(* doubling (increaseCapacity, rehash).                                    *)
(*                                                                         *)
(* The class has no synchronisation, so one call runs at a time; what is   *)
(* stepped here are the loops: one action per iteration of a probe, of     *)
(* compactChain and of rehash, so that a loop that never ends, and a table *)
(* that is wrong between two iterations, are behaviours of the model.  The *)
(* one place where a second call starts before the first has returned is   *)
(* the mapping function of computeIfAbsent, which may call the map again.  *)
(*                                                                         *)
(* A key is what Hashing.compoundKey makes of the pair; HashOf[k] is the   *)
(* folded hash before masking (Hashing.java:42-46), and since a capacity   *)
(* is a power of two, "hash & mask" is the remainder by the capacity.      *)
(***************************************************************************)
EXTENDS Integers, FiniteSets

CONSTANTS
  Keys,               \* compound keys
  ZeroKey,            \* the key (0, 0): what a fresh long[] is filled with
  Values,             \* the non-null references
  Puttable,           \* what callers pass to put: nothing rejects a null
  NULL, EXCEPTION,
  HashOf,             \* the folded hash of a key
  InitialCapacity,    \* the constructor's argument
  MinCapacity,        \* MIN_CAPACITY, 8
  MaxCapacity,        \* the largest capacity that is a positive int, 2^30
  LoadNum, LoadDen,   \* loadFactor, as the fraction LoadNum / LoadDen
  AllocationMayFail   \* TRUE: new long[n] may throw OutOfMemoryError

ASSUME KeysAssumption ==
  /\ ZeroKey \in Keys
  /\ HashOf \in [Keys -> Nat]
  /\ IsFiniteSet(Keys)

ASSUME NullAssumption ==
  /\ NULL \notin Keys \cup Values
  /\ EXCEPTION \notin Values \cup {NULL}
  /\ Puttable \subseteq Values \cup {NULL}

ASSUME CapacityAssumption ==
  /\ InitialCapacity \in Int
  /\ MinCapacity \in Nat \ {0}
  /\ MaxCapacity \in Nat /\ MaxCapacity >= MinCapacity

(* validateLoadFactor: the constructor throws outside 0.1 .. 0.9.          *)
ASSUME LoadFactorAssumption ==
  /\ LoadNum \in Nat /\ LoadDen \in Nat \ {0}
  /\ LoadDen <= 10 * LoadNum /\ 10 * LoadNum <= 9 * LoadDen

ASSUME AllocationAssumption == AllocationMayFail \in BOOLEAN

VARIABLES
  capacity,           \* values.length
  resizeThreshold, size, keys, values,
  pc,                 \* the loop the running call is in, "idle" if none
  call,               \* operation and arguments of the running call
  index,              \* locals of the running call, cleared on return
  deleteIndex, newCapacity, newHash, tempKeys, tempValues,
  computing,          \* key whose mapping function is running, or NULL
  result              \* outcome of the last call

table   == <<capacity, resizeThreshold, size, keys, values>>
scratch == <<newCapacity, newHash, tempKeys, tempValues>>
vars    == <<table, pc, call, index, deleteIndex, scratch, computing, result>>

NoCall == [op |-> "none", key |-> NULL, value |-> NULL]
-----------------------------------------------------------------------------
(* Arithmetic of the code.  An operator whose name ends in _Mutant is a    *)
(* plausible slip in the one it precedes, for the mutation runs only.      *)

Slots(n) == 0 .. n - 1

(* Hashing.hash(key, n - 1)                                                *)
Home(k, n) == HashOf[k] % n

(* ++index & (n - 1)                                                       *)
NextSlot(i, n) == IF i + 1 = n THEN 0 ELSE i + 1

ThresholdFor_Mutant(n) == n

(* (int) (n * loadFactor), which truncates towards zero                    *)
ThresholdFor(n) == IF n >= 0 THEN (n * LoadNum) \div LoadDen
                             ELSE -(((-n) * LoadNum) \div LoadDen)

PowersOfTwo == {p \in 1 .. MaxCapacity : \E e \in 0 .. 30 : p = 2 ^ e}

(* p = 1 << (32 - numberOfLeadingZeros(n - 1)): above the largest positive *)
(* power of two the shift reaches the sign bit.                            *)
FindNextPositivePowerOfTwo(n, p) ==
  IF n > MaxCapacity THEN p = -(2 * MaxCapacity)
                     ELSE p >= n /\ (p = 1 \/ p < 2 * n)

(* Math.round(size * (1.0 / loadFactor))                                   *)
IdealCapacity(n) == (2 * n * LoadDen + LoadNum) \div (2 * LoadNum)

AtLeastMin(n) == IF n > MinCapacity THEN n ELSE MinCapacity

BelongsInHole_Mutant(i, h, d) == h <= d /\ d <= i

(* compactChain: the entry at i, whose home is h, may move back into the   *)
(* hole d unless h lies cyclically in (d, i].                              *)
BelongsInHole(i, h, d) == \/ i < h /\ (h <= d \/ d <= i)
                          \/ h <= d /\ d <= i
-----------------------------------------------------------------------------
(* The constructor.  (With a capacity above the largest, new long[] throws *)
(* and there is no map.)                                                   *)
Init ==
  /\ capacity \in PowersOfTwo
  /\ FindNextPositivePowerOfTwo(AtLeastMin(InitialCapacity), capacity)
  /\ resizeThreshold = ThresholdFor(capacity)
  /\ size = 0
  /\ keys = [i \in Slots(capacity) |-> ZeroKey]
  /\ values = [i \in Slots(capacity) |-> NULL]
  /\ pc = "idle" /\ call = NoCall
  /\ index = 0 /\ deleteIndex = 0
  /\ newCapacity = 0 /\ newHash = 0 /\ tempKeys = <<>> /\ tempValues = <<>>
  /\ computing = NULL /\ result = NULL

(* The running call returns r and its locals die.                          *)
ReturnWith(r) ==
  /\ result' = r
  /\ pc' = "idle" /\ call' = NoCall
  /\ index' = 0 /\ deleteIndex' = 0
  /\ newCapacity' = 0 /\ newHash' = 0 /\ tempKeys' = <<>> /\ tempValues' = <<>>

(* Enter rehash(n) in a call that is to return r: the threshold is set     *)
(* before the arrays are allocated, so an allocation that throws leaves it *)
(* changed over the old table.  A negative n always throws                 *)
(* (NegativeArraySizeException).                                           *)
BeginRehash(n, r) ==
  /\ resizeThreshold' = ThresholdFor(n)
  /\ UNCHANGED capacity
  /\ \/ /\ n < 0 \/ AllocationMayFail
        /\ ReturnWith(EXCEPTION)
     \/ /\ n > 0
        /\ result' = r
        /\ pc' = "rehash" /\ call' = NoCall
        /\ index' = 0 /\ newCapacity' = n /\ newHash' = 0
        /\ tempKeys' = [i \in Slots(n) |-> ZeroKey]
        /\ tempValues' = [i \in Slots(n) |-> NULL]
        /\ UNCHANGED deleteIndex
-----------------------------------------------------------------------------
(* put, get, remove and computeIfAbsent start by hashing the key.  A call  *)
(* may start while a mapping function runs (computing # NULL), to a depth  *)
(* of one: a mapping function does not itself call computeIfAbsent.        *)
Begin(op, k, v) ==
  /\ pc' = "probe"
  /\ call' = [op |-> op, key |-> k, value |-> v]
  /\ index' = Home(k, capacity)
  /\ UNCHANGED <<table, deleteIndex, scratch, computing, result>>

BeginPut == /\ pc = "idle"
            /\ \E k \in Keys, v \in Puttable : Begin("put", k, v)

BeginGet == /\ pc = "idle"
            /\ \E k \in Keys : Begin("get", k, NULL)

BeginRemove == /\ pc = "idle"
               /\ \E k \in Keys : Begin("remove", k, NULL)

BeginComputeIfAbsent == /\ pc = "idle" /\ computing = NULL
                        /\ \E k \in Keys : Begin("computeIfAbsent", k, NULL)

(* clear leaves the keys in place; a null value is what frees a slot.      *)
Clear_Mutant == /\ pc = "idle"
                /\ values' = [i \in Slots(capacity) |-> NULL]
                /\ ReturnWith(NULL)
                /\ UNCHANGED <<capacity, resizeThreshold, size, keys, computing>>

Clear == /\ pc = "idle"
         /\ size' = 0
         /\ values' = [i \in Slots(capacity) |-> NULL]
         /\ ReturnWith(NULL)
         /\ UNCHANGED <<capacity, resizeThreshold, keys, computing>>

Compact == /\ pc = "idle"
           /\ \E n \in PowersOfTwo \cup {-(2 * MaxCapacity)} :
                /\ FindNextPositivePowerOfTwo(AtLeastMin(IdealCapacity(size)), n)
                /\ BeginRehash(n, NULL)
           /\ UNCHANGED <<size, keys, values, computing>>
-----------------------------------------------------------------------------
(* while (null != values[index]) { if (key == keys[index]) break; ... }    *)
Hit  == values[index] # NULL /\ keys[index] = call.key
Miss == values[index] = NULL

ProbeNext_Mutant == /\ pc = "probe" /\ ~Hit /\ ~Miss
                    /\ index' = NextSlot(Home(call.key, capacity), capacity)
                    /\ UNCHANGED <<table, pc, call, deleteIndex, scratch,
                                   computing, result>>

ProbeNext == /\ pc = "probe" /\ ~Hit /\ ~Miss
             /\ index' = NextSlot(index, capacity)
             /\ UNCHANGED <<table, pc, call, deleteIndex, scratch,
                            computing, result>>

(* get's probe ends; a null slot reads as "absent".                        *)
Get == /\ pc = "probe" /\ call.op = "get" /\ (Hit \/ Miss)
       /\ ReturnWith(values[index])
       /\ UNCHANGED <<table, computing>>

KeysAfterStore_Mutant == keys

KeysAfterStore == IF Miss THEN [keys EXCEPT ![index] = call.key] ELSE keys

(* A storing probe ends in a call that is to return r: the entry is stored *)
(* first, and the growth that may follow can still throw.                  *)
Store(r) ==
  /\ size' = IF Miss THEN size + 1 ELSE size
  /\ keys' = KeysAfterStore
  /\ values' = [values EXCEPT ![index] = call.value]
  /\ \/ /\ size' <= resizeThreshold
        /\ ReturnWith(r)
        /\ UNCHANGED <<capacity, resizeThreshold>>
     \/ /\ size' > resizeThreshold
        /\ 2 * capacity > MaxCapacity      \* newCapacity < 0
        /\ ReturnWith(EXCEPTION)
        /\ UNCHANGED <<capacity, resizeThreshold>>
     \/ /\ size' > resizeThreshold
        /\ 2 * capacity <= MaxCapacity
        /\ BeginRehash(2 * capacity, r)

Put == /\ pc = "probe" /\ call.op = "put" /\ (Hit \/ Miss)
       /\ Store(values[index])
       /\ UNCHANGED computing

RemoveMiss == /\ pc = "probe" /\ call.op = "remove" /\ Miss
              /\ ReturnWith(NULL)
              /\ UNCHANGED <<table, computing>>

RemoveHit == /\ pc = "probe" /\ call.op = "remove" /\ Hit
             /\ values' = [values EXCEPT ![index] = NULL]
             /\ size' = size - 1
             /\ result' = values[index]
             /\ pc' = "compactChain" /\ call' = NoCall
             /\ deleteIndex' = index
             /\ UNCHANGED <<capacity, resizeThreshold, keys, index, scratch,
                            computing>>
-----------------------------------------------------------------------------
(* computeIfAbsent: the lookup, the mapping function, the put.             *)
FindPresent == /\ pc = "probe" /\ call.op = "computeIfAbsent"
               /\ call.value = NULL /\ Hit
               /\ ReturnWith(values[index])
               /\ UNCHANGED <<table, computing>>

FindAbsent == /\ pc = "probe" /\ call.op = "computeIfAbsent"
              /\ call.value = NULL /\ Miss
              /\ computing' = call.key
              /\ ReturnWith(result)
              /\ UNCHANGED table

(* The mapping function returns a value: put hashes and probes afresh.     *)
MappedToValue == /\ pc = "idle" /\ computing # NULL
                 /\ pc' = "probe"
                 /\ index' = Home(computing, capacity)
                 /\ \E v \in Values :
                      call' = [op |-> "computeIfAbsent",
                               key |-> computing, value |-> v]
                 /\ UNCHANGED <<table, deleteIndex, scratch, computing, result>>

(* It returns null, and nothing is stored; or it throws.                   *)
MappedToNothing == /\ pc = "idle" /\ computing # NULL
                   /\ \E r \in {NULL, EXCEPTION} : ReturnWith(r)
                   /\ computing' = NULL
                   /\ UNCHANGED table

StoreComputed == /\ pc = "probe" /\ call.op = "computeIfAbsent"
                 /\ call.value # NULL /\ (Hit \/ Miss)
                 /\ Store(call.value)
                 /\ computing' = NULL
-----------------------------------------------------------------------------
(* compactChain: deleteIndex is the hole that remove left.                 *)
MoveIntoHole_Mutant(i) ==
  /\ keys' = [keys EXCEPT ![deleteIndex] = keys[i]]
  /\ values' = [values EXCEPT ![deleteIndex] = values[i]]
  /\ deleteIndex' = i

MoveIntoHole(i) ==
  /\ keys' = [keys EXCEPT ![deleteIndex] = keys[i]]
  /\ values' = [values EXCEPT ![deleteIndex] = values[i], ![i] = NULL]
  /\ deleteIndex' = i

ChainEnd == /\ pc = "compactChain"
            /\ values[NextSlot(index, capacity)] = NULL
            /\ ReturnWith(result)
            /\ UNCHANGED <<table, computing>>

ChainNext ==
  LET next == NextSlot(index, capacity)
      hash == Home(keys[next], capacity)
  IN  /\ pc = "compactChain" /\ values[next] # NULL
      /\ index' = next
      /\ IF BelongsInHole(next, hash, deleteIndex)
           THEN MoveIntoHole(next)
           ELSE UNCHANGED <<keys, values, deleteIndex>>
      /\ UNCHANGED <<capacity, resizeThreshold, size, pc, call, scratch,
                     computing, result>>
-----------------------------------------------------------------------------
(* rehash: the outer loop runs index over the old table, the inner loop    *)
(* probes the new one from newHash.                                        *)
RehashSkip_Mutant ==
  /\ pc = "rehash" /\ index < capacity /\ keys[index] = ZeroKey
  /\ index' = index + 1
  /\ UNCHANGED <<table, pc, call, deleteIndex, scratch, computing, result>>

RehashSkip == /\ pc = "rehash" /\ index < capacity /\ values[index] = NULL
              /\ index' = index + 1
              /\ UNCHANGED <<table, pc, call, deleteIndex, scratch,
                             computing, result>>

RehashEntry == /\ pc = "rehash" /\ index < capacity /\ values[index] # NULL
               /\ pc' = "insert"
               /\ newHash' = Home(keys[index], newCapacity)
               /\ UNCHANGED <<table, call, index, deleteIndex, newCapacity,
                              tempKeys, tempValues, computing, result>>

InsertNext == /\ pc = "insert" /\ tempValues[newHash] # NULL
              /\ newHash' = NextSlot(newHash, newCapacity)
              /\ UNCHANGED <<table, pc, call, index, deleteIndex, newCapacity,
                             tempKeys, tempValues, computing, result>>

Insert == /\ pc = "insert" /\ tempValues[newHash] = NULL
          /\ tempKeys' = [tempKeys EXCEPT ![newHash] = keys[index]]
          /\ tempValues' = [tempValues EXCEPT ![newHash] = values[index]]
          /\ pc' = "rehash"
          /\ index' = index + 1
          /\ newHash' = 0
          /\ UNCHANGED <<table, call, deleteIndex, newCapacity,
                         computing, result>>

RehashEnd == /\ pc = "rehash" /\ index = capacity
             /\ capacity' = newCapacity
             /\ keys' = tempKeys /\ values' = tempValues
             /\ ReturnWith(result)
             /\ UNCHANGED <<resizeThreshold, size, computing>>
-----------------------------------------------------------------------------
Call == \/ BeginPut \/ BeginGet \/ BeginRemove \/ BeginComputeIfAbsent
        \/ Clear \/ Compact
        \/ MappedToValue \/ MappedToNothing

Step == \/ ProbeNext
        \/ Get \/ Put \/ RemoveMiss \/ RemoveHit
        \/ FindPresent \/ FindAbsent \/ StoreComputed
        \/ ChainEnd \/ ChainNext
        \/ RehashSkip \/ RehashEntry \/ InsertNext \/ Insert \/ RehashEnd

Next == Call \/ Step

Spec == Init /\ [][Next]_vars

(* A call that has started keeps executing: the loops are the caller's own *)
(* thread.  Nobody has to make a call, and a mapping function may hang.    *)
FairSpec == Spec /\ WF_vars(Step)
-----------------------------------------------------------------------------
(* PROPERTIES *)

Pcs == {"idle", "probe", "compactChain", "rehash", "insert"}
Ops == {"none", "put", "get", "remove", "computeIfAbsent"}

(* Shapes of the state: both arrays have values.length slots, a running    *)
(* loop indexes inside the array it walks.                                 *)
TypeOK ==
  /\ capacity \in Nat \ {0}
  /\ resizeThreshold \in Int /\ size \in Int
  /\ keys \in [Slots(capacity) -> Keys]
  /\ values \in [Slots(capacity) -> Values \cup {NULL}]
  /\ pc \in Pcs
  /\ call \in [op : Ops, key : Keys \cup {NULL}, value : Values \cup {NULL}]
  /\ index \in 0 .. capacity
  /\ pc \in {"probe", "compactChain", "insert"} => index < capacity
  /\ deleteIndex \in Slots(capacity)
  /\ newCapacity \in Nat
  /\ pc \in {"rehash", "insert"} => newCapacity > 0
  /\ newHash \in Nat
  /\ pc = "insert" => newHash < newCapacity
  /\ tempKeys \in [Slots(newCapacity) -> Keys]
  /\ tempValues \in [Slots(newCapacity) -> Values \cup {NULL}]
  /\ pc = "probe" => /\ call.op # "none" /\ call.key \in Keys
                     /\ call.op = "put" => call.value \in Puttable
                     /\ call.op = "computeIfAbsent" => computing = call.key \/ computing = NULL
  /\ computing \in Keys \cup {NULL}
  /\ result \in Values \cup {NULL, EXCEPTION}

Occupied == {i \in Slots(capacity) : values[i] # NULL}

(* Number of steps from slot a to slot b along the probe sequence.         *)
Distance(a, b, n) == IF a <= b THEN b - a ELSE b + n - a

(* A probe for k in a table of n visits slot j before it visits slot i.    *)
OnPath(j, k, i, n) ==
  Distance(Home(k, n), j, n) < Distance(Home(k, n), i, n)

(* Every entry is found by the probe for its key: no empty slot lies       *)
(* between its home and its slot.  While compactChain runs, the hole may   *)
(* lie there, but only for entries the loop has not reached yet.           *)
Reachable ==
  \A i \in Occupied, j \in Slots(capacity) :
     OnPath(j, keys[i], i, capacity) =>
        \/ values[j] # NULL
        \/ /\ pc = "compactChain" /\ j = deleteIndex
           /\ Distance(deleteIndex, i, capacity)
                > Distance(deleteIndex, index, capacity)

(* No key is stored in two slots, so an old value never comes back.        *)
UniqueKeys ==
  \A i, j \in Occupied : keys[i] = keys[j] => i = j

(* size() is the number of entries, which is what growth is decided by.    *)
SizeIsEntries == size = Cardinality(Occupied)

(* Every loop that stops only at an empty slot has one: a probe and        *)
(* compactChain in the table in use, the inner loop of rehash in the table *)
(* it fills.  (While rehash runs, the old table may be full: with a load   *)
(* factor of 0.9 the eighth entry of a table of 8 makes it grow.)          *)
HasEmptySlot ==
  /\ pc \notin {"rehash", "insert"} => Occupied # Slots(capacity)
  /\ pc = "insert" => \E i \in Slots(newCapacity) : tempValues[i] = NULL

(* The table under construction holds what rehash has walked over, once.   *)
RehashedSoFar ==
  pc \in {"rehash", "insert"} =>
    LET new == {i \in Slots(newCapacity) : tempValues[i] # NULL}
        old == {i \in Occupied : i < index}
    IN  /\ {<<tempKeys[i], tempValues[i]>> : i \in new}
             = {<<keys[i], values[i]>> : i \in old}
        /\ Cardinality(new) = Cardinality(old)

(* What makes Reachable and UniqueKeys inductive.  A probe has not passed  *)
(* its key nor an empty slot; neither has the inner loop of rehash; and    *)
(* the table under construction satisfies what the table in use does.      *)
ProbeSoFar ==
  pc = "probe" =>
    \A j \in Slots(capacity) :
       OnPath(j, call.key, index, capacity) =>
          values[j] # NULL /\ keys[j] # call.key

HoleIsEmpty == pc = "compactChain" => values[deleteIndex] = NULL

InsertSoFar ==
  pc = "insert" =>
    /\ values[index] # NULL
    /\ \A j \in Slots(newCapacity) :
          OnPath(j, keys[index], newHash, newCapacity) => tempValues[j] # NULL

NewOccupied == {i \in Slots(newCapacity) : tempValues[i] # NULL}

NewTable ==
  pc \in {"rehash", "insert"} =>
    /\ \A i \in NewOccupied, j \in Slots(newCapacity) :
          OnPath(j, tempKeys[i], i, newCapacity) => tempValues[j] # NULL
    /\ \A i, j \in NewOccupied : tempKeys[i] = tempKeys[j] => i = j
    /\ \A i \in NewOccupied :
          \E j \in Occupied : j < index /\ keys[j] = tempKeys[i]

IndInv == /\ TypeOK
          /\ Reachable /\ UniqueKeys
          /\ ProbeSoFar /\ HoleIsEmpty /\ InsertSoFar /\ NewTable

(* Every call returns.                                                     *)
CallsReturn == pc # "idle" ~> pc = "idle"

(* At rest the table is no fuller than its load factor allows              *)
(* (BiInt2ObjectMap.java:79: "load factor beyond which the map will        *)
(* increase size").                                                        *)
WithinLoadFactor == pc = "idle" => size <= resizeThreshold

(* At rest the threshold belongs to the table in use                       *)
(* (BiInt2ObjectMap.java:88-89: "a function of the current capacity and    *)
(* load factor").                                                          *)
ThresholdOfCapacity == pc = "idle" => resizeThreshold = ThresholdFor(capacity)

(* The table implements the partial function of IntPairMap.                *)
AbstractMap ==
  [k \in Keys |->
     IF \E i \in Occupied : keys[i] = k
       THEN values[CHOOSE i \in Occupied : keys[i] = k]
       ELSE NULL]

Abstract == INSTANCE IntPairMap WITH map <- AbstractMap

Refinement == Abstract!Spec
=============================================================================
