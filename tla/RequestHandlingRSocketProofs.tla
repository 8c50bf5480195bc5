-------------------- MODULE RequestHandlingRSocketProofs --------------------
(***************************************************************************)
(* Proofs about RequestHandlingRSocket, for any number of threads, calls,  *)
(* services and ids, any hash and any table: the monitor keeps threads out *)
(* of each other's puts, and so put and get of the map, one read or write  *)
(* of a shared array at a time, implement the one-step add and lookup of   *)
(* ServiceRegistry; a request ends at the service of its ids.              *)
(***************************************************************************)
EXTENDS RequestHandlingRSocket, FiniteSetTheorems, TLAPS

Calls  == [op : {"none", "add", "find"},
           id : Ids \cup {NULL}, service : Services \cup {NULL}]
Labels == InMap \cup {"idle", "enter", "dispatch", "failed"}

(* Why MutualExclusion is inductive: a thread has left "idle" only after   *)
(* the constructor had finished, the constructor never looks a service up  *)
(* (so it never leaves a monitor it did not enter), and a thread in the    *)
(* map is the one that the monitor names.                                  *)
ExclusionInv ==
  /\ pc \in [Everyone -> Labels]
  /\ pending \in [Everyone -> Calls]
  /\ toConstruct \in Seq(Services)
  /\ pc[Constructor] \in InMap \cup {"idle", "failed"}
  /\ pending[Constructor].op # "find"
  /\ (\E t \in Threads : pc[t] # "idle") => Constructed
  /\ \A t \in Threads : pc[t] \in InMap => monitor = t

(* Calls are calls; an add is not a find.                                  *)
LEMMA CallShapes ==
  /\ NoCall \in Calls /\ NoCall.op = "none"
  /\ \A s \in Services : AddCall(s) \in Calls /\ AddCall(s).op = "add"
  /\ \A id \in Ids : FindCall(id) \in Calls
BY RSocketAssumption DEF Calls, NoCall, AddCall, FindCall

(* Nobody has called yet, and the monitor is free.                         *)
LEMMA InitExclusion == Init => ExclusionInv
BY CallShapes, RSocketAssumption DEF Init, ExclusionInv, Labels, InMap, Everyone

(* A step of thread t inside the map, or out of its own dispatch, that     *)
(* leaves the monitor alone.                                               *)
LEMMA InsideKeeps ==
  ASSUME ExclusionInv, NEW t \in Everyone, NEW label \in Labels,
         pc' = [pc EXCEPT ![t] = label],
         pending' = pending \/ pending' = [pending EXCEPT ![t] = NoCall],
         pc[t] # "idle", UNCHANGED <<monitor, toConstruct>>,
         t = Constructor => label \in InMap \cup {"idle", "failed"},
         label \in InMap => pc[t] \in InMap
  PROVE  ExclusionInv'
<1>1. pc' \in [Everyone -> Labels] /\ pending' \in [Everyone -> Calls]
  BY CallShapes DEF ExclusionInv
<1>2. /\ pc'[Constructor] \in InMap \cup {"idle", "failed"}
      /\ pending'[Constructor].op # "find"
  BY CallShapes DEF ExclusionInv, Everyone
<1>3. \A u \in Threads : u # t => pc'[u] = pc[u]
  BY DEF ExclusionInv, Everyone
<1>4. ASSUME NEW u \in Threads, pc'[u] # "idle" PROVE Constructed'
  <2>1. pc[u] # "idle"
    BY <1>3, <1>4
  <2>2. Constructed
    BY <2>1 DEF ExclusionInv
  <2>3. t # Constructor
    BY <2>2 DEF Constructed
  <2>4. QED
    BY <2>2, <2>3 DEF Constructed, ExclusionInv, Everyone
<1>5. ASSUME NEW u \in Threads, pc'[u] \in InMap PROVE monitor' = u
  BY <1>3, <1>5 DEF ExclusionInv, Everyone
<1>6. QED
  BY <1>1, <1>2, <1>4, <1>5 DEF ExclusionInv

(* Every step keeps the invariant.                                         *)
LEMMA NextExclusion == ExclusionInv /\ [Next]_vars => ExclusionInv'
<1> SUFFICES ASSUME ExclusionInv, [Next]_vars PROVE ExclusionInv'
  OBVIOUS
<1>0. /\ Constructor \notin Threads /\ NULL \notin Threads \cup {Constructor}
      /\ Constructor \in Everyone /\ \A t \in Threads : t \in Everyone
  BY RSocketAssumption DEF Everyone
<1>1. CASE ConstructorPuts
  <2> DEFINE call == AddCall(Head(toConstruct))
  <2>1. toConstruct # <<>> /\ pc[Constructor] = "idle"
    BY <1>1 DEF ConstructorPuts
  <2>2. Head(toConstruct) \in Services /\ Tail(toConstruct) \in Seq(Services)
    BY <2>1 DEF ExclusionInv
  <2>3. call \in Calls /\ call.op = "add"
    BY <2>2, CallShapes
  <2>4. /\ pending' = [pending EXCEPT ![Constructor] = call]
        /\ pc' = [pc EXCEPT ![Constructor] = "probe"]
        /\ toConstruct' = Tail(toConstruct) /\ monitor' = monitor
    BY <1>1 DEF ConstructorPuts, EnterMap
  <2>5. \A u \in Threads : pc[u] = "idle" /\ pc'[u] = "idle"
    BY <1>0, <2>1, <2>4 DEF ExclusionInv, Constructed
  <2>6. pc' \in [Everyone -> Labels] /\ pc'[Constructor] = "probe"
    BY <1>0, <2>4 DEF ExclusionInv, Labels, InMap
  <2>7. pending' \in [Everyone -> Calls] /\ pending'[Constructor].op = "add"
    BY <1>0, <2>3, <2>4 DEF ExclusionInv
  <2>8. QED
    BY <2>2, <2>4, <2>5, <2>6, <2>7 DEF ExclusionInv, InMap
<1>2. ASSUME NEW t \in Threads, Call(t)
      PROVE  ExclusionInv'
  <2>1. /\ Constructed /\ pc[t] = "idle"
        /\ UNCHANGED <<monitor, toConstruct>>
    BY <1>2 DEF Call, AddService, Request, RequestUndecodable, CanCall
  <2>2. PICK label \in {"idle", "enter"} : pc' = [pc EXCEPT ![t] = label]
    BY <1>0, <1>2, <2>1
    DEF Call, AddService, Request, RequestUndecodable, ExclusionInv
  <2>3. \/ pending' = pending
        \/ \E call \in Calls : pending' = [pending EXCEPT ![t] = call]
    BY <1>2, CallShapes DEF Call, AddService, Request, RequestUndecodable
  <2>4. /\ pc' \in [Everyone -> Labels] /\ pc'[Constructor] = pc[Constructor]
        /\ \A u \in Threads : pc'[u] \in InMap => pc'[u] = pc[u]
    BY <1>0, <2>2 DEF ExclusionInv, Labels, InMap
  <2>5. /\ pending' \in [Everyone -> Calls]
        /\ pending'[Constructor] = pending[Constructor]
    BY <1>0, <2>3 DEF ExclusionInv
  <2>6. QED
    BY <2>1, <2>4, <2>5 DEF ExclusionInv, Constructed
<1>3. ASSUME NEW t \in Everyone, EnterMonitor(t)
      PROVE  ExclusionInv'
  <2>1. /\ pc[t] = "enter" /\ monitor = NULL /\ monitor' = t
        /\ pc' = [pc EXCEPT ![t] = "probe"]
        /\ UNCHANGED <<toConstruct, pending>>
    BY <1>3 DEF EnterMonitor, EnterMap, MayEnter
  <2>2. t \in Threads
    BY <2>1 DEF ExclusionInv, InMap, Everyone
  <2>3. Constructed /\ Constructed'
    BY <1>0, <2>1, <2>2 DEF ExclusionInv, Constructed
  <2>4. \A u \in Threads : pc'[u] \in InMap => u = t
    BY <1>0, <2>1 DEF ExclusionInv
  <2>5. pc' \in [Everyone -> Labels] /\ pc'[Constructor] = pc[Constructor]
    BY <1>0, <2>1, <2>2 DEF ExclusionInv, Labels, InMap
  <2>6. QED
    BY <2>1, <2>3, <2>4, <2>5 DEF ExclusionInv
<1>4. ASSUME NEW t \in Everyone,
             \/ ReadValue(t) \/ CompareKey(t) \/ PutKey(t) \/ PutValue(t)
             \/ Grow(t) \/ RehashSlot(t) \/ PublishKeys(t) \/ PublishValues(t)
      PROVE  ExclusionInv'
  <2>1. pc[t] \in InMap /\ UNCHANGED <<monitor, toConstruct>>
    BY <1>4 DEF ReadValue, CompareKey, PutKey, PutValue, Grow, RehashSlot,
       PublishKeys, PublishValues, InMap, table
  <2>2. pending' = pending \/ pending' = [pending EXCEPT ![t] = NoCall]
    BY <1>4 DEF ReadValue, CompareKey, PutKey, PutValue, Grow, RehashSlot,
       PublishKeys, PublishValues
  <2>3. PICK label \in InMap : pc' = [pc EXCEPT ![t] = label]
    <3>1. CASE RehashSlot(t)
      BY <2>1, <3>1 DEF RehashSlot, ExclusionInv
    <3>2. CASE ~RehashSlot(t)
      BY <1>4, <3>2 DEF ReadValue, CompareKey, PutKey, PutValue, Grow,
         PublishKeys, PublishValues, InMap
    <3>3. QED
      BY <3>1, <3>2
  <2>4. pc[t] # "idle" /\ label \in Labels
    BY <2>1 DEF InMap, Labels
  <2>5. QED
    BY <2>1, <2>2, <2>3, <2>4, InsideKeeps
<1>5. ASSUME NEW t \in Everyone, LeaveGetService(t)
      PROVE  ExclusionInv'
  <2>1. /\ pc[t] = "probed" /\ pending[t].op = "find"
        /\ pending' = [pending EXCEPT ![t] = NoCall]
        /\ pc' = [pc EXCEPT ![t] = "dispatch"]
        /\ UNCHANGED toConstruct
    BY <1>5 DEF LeaveGetService
  <2>2. t \in Threads
    BY <2>1 DEF ExclusionInv, Everyone
  <2>3. \A u \in Threads : pc'[u] \notin InMap
    BY <1>0, <2>1, <2>2 DEF ExclusionInv, InMap
  <2>4. Constructed /\ Constructed'
    BY <1>0, <2>1, <2>2 DEF ExclusionInv, Constructed
  <2>5. /\ pc' \in [Everyone -> Labels] /\ pc'[Constructor] = pc[Constructor]
        /\ pending' \in [Everyone -> Calls]
        /\ pending'[Constructor] = pending[Constructor]
    BY <1>0, <2>1, <2>2, CallShapes DEF ExclusionInv, Labels
  <2>6. QED
    BY <2>1, <2>3, <2>4, <2>5 DEF ExclusionInv
<1>6. ASSUME NEW t \in Everyone, LeavePut(t)
      PROVE  ExclusionInv'
  <2>1. /\ pc[t] = "leave" /\ pc' = [pc EXCEPT ![t] = "idle"]
        /\ UNCHANGED <<toConstruct, pending>>
    BY <1>6 DEF LeavePut
  <2>2. CASE t = Constructor
    <3>1. monitor' = monitor
      BY <1>6, <2>2 DEF LeavePut
    <3>2. "idle" \in Labels /\ "idle" \notin InMap /\ pc[t] # "idle"
      BY <2>1 DEF Labels, InMap
    <3>3. QED
      BY <2>1, <3>1, <3>2, InsideKeeps
  <2>3. CASE t \in Threads
    <3>1. \A u \in Threads : pc'[u] \notin InMap
      BY <1>0, <2>1, <2>3 DEF ExclusionInv, InMap
    <3>2. Constructed /\ Constructed'
      BY <1>0, <2>1, <2>3 DEF ExclusionInv, Constructed
    <3>3. pc' \in [Everyone -> Labels] /\ pc'[Constructor] = pc[Constructor]
      BY <1>0, <2>1, <2>3 DEF ExclusionInv, Labels
    <3>4. QED
      BY <2>1, <3>1, <3>2, <3>3 DEF ExclusionInv
  <2>4. QED
    BY <2>2, <2>3 DEF Everyone
<1>7. ASSUME NEW t \in Everyone, Dispatch(t)
      PROVE  ExclusionInv'
  <2>1. /\ pc[t] = "dispatch" /\ pc' = [pc EXCEPT ![t] = "idle"]
        /\ UNCHANGED <<monitor, toConstruct, pending>>
    BY <1>7 DEF Dispatch
  <2>2. "idle" \in Labels /\ "idle" \notin InMap
    BY DEF Labels, InMap
  <2>3. QED
    BY <2>1, <2>2, InsideKeeps
<1>8. ASSUME NEW t \in Everyone, GrowFails(t)
      PROVE  ExclusionInv'
  <2>1. /\ pc[t] = "grow" /\ UNCHANGED <<monitor, toConstruct, pending>>
        /\ \/ t = Constructor /\ pc' = [pc EXCEPT ![t] = "failed"]
           \/ t # Constructor /\ pc' = [pc EXCEPT ![t] = "leave"]
    BY <1>8 DEF GrowFails
  <2>2. /\ {"failed", "leave"} \subseteq Labels /\ "leave" \in InMap
        /\ "failed" \notin InMap /\ "grow" \in InMap
    BY DEF Labels, InMap
  <2>3. QED
    BY <2>1, <2>2, InsideKeeps
<1>9. CASE UNCHANGED vars
  BY <1>9 DEF vars, locals, ExclusionInv, Constructed
<1>10. QED
  BY <1>1, <1>2, <1>3, <1>4, <1>5, <1>6, <1>7, <1>8, <1>9 DEF Next, Step

(* At most one thread is between the reads and writes of a put or a get,   *)
(* for any number of threads, and none before the constructor is done.     *)
THEOREM AlwaysMutualExclusion == Spec => []MutualExclusion
<1>1. ExclusionInv => MutualExclusion
  BY DEF ExclusionInv, MutualExclusion, Everyone, Constructed, InMap
<1>2. QED
  BY <1>1, InitExclusion, NextExclusion, PTL DEF Spec
-----------------------------------------------------------------------------
(* The table.  Slots before i on the probe for id.                         *)
OnPath(j, id, i, n) ==
  Distance(Home(id, n), j, n) < Distance(Home(id, n), i, n)

(* A probe for id that has come to slot i has passed only entries of other *)
(* ids.                                                                    *)
ClearTo(K, V, n, id, i) ==
  \A j \in Slots(n) : OnPath(j, id, i, n) => V[j] # NULL /\ K[j] # id

(* A table of n slots in which every entry stands under the id of its      *)
(* service and is met by the probe for that id.                            *)
Sound(K, V, n) ==
  /\ n \in Nat \ {0}
  /\ K \in [Slots(n) -> Ids]
  /\ V \in [Slots(n) -> Services \cup {NULL}]
  /\ \A i \in Slots(n) :
        V[i] # NULL => IdOf[V[i]] = K[i] /\ ClearTo(K, V, n, K[i], i)

Used(V, n) == {i \in Slots(n) : V[i] # NULL}

(* rehash has copied the entries below slot i into a table twice as large. *)
Copied(K, V, n, K2, V2, i) ==
  /\ Sound(K2, V2, 2 * n)
  /\ \A j \in Slots(n) : j < i /\ V[j] # NULL =>
        \E k \in Slots(2 * n) : V2[k] = V[j] /\ K2[k] = K[j]
  /\ \A k \in Slots(2 * n) : V2[k] # NULL =>
        \E j \in Slots(n) : j < i /\ V[j] = V2[k] /\ K[j] = K2[k]
  /\ Cardinality(Used(V2, 2 * n)) <= i

(* An array knows its length.                                              *)
LEMMA LengthOf ==
  ASSUME NEW n \in Nat, NEW S, NEW A \in [Slots(n) -> S]
  PROVE  Length(A) = n
<1>1. Cardinality(0 .. n - 1) = n
  BY FS_Interval
<1>2. QED
  BY <1>1 DEF Length, Slots

(* A home slot is a slot.                                                  *)
LEMMA HomeIsSlot ==
  ASSUME NEW id \in Ids, NEW n \in Nat \ {0}
  PROVE  Home(id, n) \in Slots(n)
<1>1. HashOf[id] \in Nat
  BY RSocketAssumption
<1>2. \A h \in Nat : h % n \in 0 .. n - 1
  OBVIOUS
<1>3. QED
  BY <1>1, <1>2 DEF Home, Slots

(* The resize threshold is a natural number.                               *)
LEMMA ThresholdIsNat ==
  ASSUME NEW n \in Nat
  PROVE  ThresholdFor(n) \in Nat
<1>1. \A x \in Nat : x \div LoadDen \in Nat
  BY RSocketAssumption
<1>2. \A x \in Nat : x * LoadNum \in Nat
  BY RSocketAssumption
<1>3. QED
  BY <1>1, <1>2 DEF ThresholdFor

(* Two slots at the same distance from a home are one.                     *)
LEMMA DistanceInjective ==
  ASSUME NEW n \in Nat \ {0}, NEW a \in Slots(n), NEW b \in Slots(n),
         NEW c \in Slots(n), Distance(a, b, n) = Distance(a, c, n)
  PROVE  b = c
BY DEF Distance, Slots

(* A distance from a slot is smaller than the table.                       *)
LEMMA DistanceRange ==
  ASSUME NEW n \in Nat \ {0}, NEW a \in Slots(n), NEW b \in Slots(n)
  PROVE  Distance(a, b, n) \in Nat
BY DEF Distance, Slots

(* A probe starts with nothing behind it, ...                              *)
LEMMA ClearToHome ==
  ASSUME NEW id \in Ids, NEW n \in Nat \ {0}, NEW K, NEW V
  PROVE  ClearTo(K, V, n, id, Home(id, n))
<1>1. \A h, j \in Slots(n) : ~(Distance(h, j, n) < Distance(h, h, n))
  BY DEF Distance, Slots
<1>2. QED
  BY <1>1, HomeIsSlot DEF ClearTo, OnPath

(* ... and goes on past an entry of another id.                            *)
LEMMA ClearToNext ==
  ASSUME NEW id \in Ids, NEW n \in Nat \ {0}, NEW K, NEW V,
         NEW i \in Slots(n), ClearTo(K, V, n, id, i),
         V[i] # NULL, K[i] # id
  PROVE  /\ NextSlot(i, n) \in Slots(n)
         /\ ClearTo(K, V, n, id, NextSlot(i, n))
<1>1. NextSlot(i, n) \in Slots(n)
  BY DEF NextSlot, Slots
<1>2. \A h, j \in Slots(n) :
        Distance(h, j, n) < Distance(h, NextSlot(i, n), n)
          => Distance(h, j, n) < Distance(h, i, n) \/ j = i
  BY DEF Distance, Slots, NextSlot
<1>3. QED
  BY <1>1, <1>2, HomeIsSlot DEF ClearTo, OnPath

(* No id has two entries.                                                  *)
LEMMA OneEntry ==
  ASSUME NEW n, NEW K, NEW V, Sound(K, V, n),
         NEW i \in Slots(n), NEW j \in Slots(n),
         V[i] # NULL, V[j] # NULL, K[i] = K[j]
  PROVE  i = j
<1>1. /\ n \in Nat \ {0} /\ K[i] \in Ids
      /\ ClearTo(K, V, n, K[i], i) /\ ClearTo(K, V, n, K[i], j)
  BY DEF Sound
<1> DEFINE d(x) == Distance(Home(K[i], n), x, n)
<1>2. d(i) \in Nat /\ d(j) \in Nat
  BY <1>1, HomeIsSlot, DistanceRange
<1>3. ~(d(i) < d(j)) /\ ~(d(j) < d(i))
  BY <1>1 DEF ClearTo, OnPath
<1>4. d(i) = d(j)
  BY <1>2, <1>3
<1>5. QED
  BY <1>1, <1>4, HomeIsSlot, DistanceInjective

(* A probe that meets an empty slot has shown that its id is not there.    *)
LEMMA AbsentAtHole ==
  ASSUME NEW n, NEW K, NEW V, Sound(K, V, n), NEW id \in Ids,
         NEW i \in Slots(n), ClearTo(K, V, n, id, i), V[i] = NULL,
         NEW j \in Slots(n), V[j] # NULL
  PROVE  K[j] # id
<1> SUFFICES ASSUME K[j] = id PROVE FALSE
  OBVIOUS
<1>1. n \in Nat \ {0} /\ ClearTo(K, V, n, id, j)
  BY DEF Sound
<1> DEFINE d(x) == Distance(Home(id, n), x, n)
<1>2. d(i) \in Nat /\ d(j) \in Nat
  BY <1>1, HomeIsSlot, DistanceRange
<1>3. ~(d(i) < d(j)) /\ ~(d(j) < d(i))
  BY <1>1 DEF ClearTo, OnPath
<1>4. d(i) = d(j)
  BY <1>2, <1>3
<1>5. QED
  BY <1>1, <1>4, HomeIsSlot, DistanceInjective

(* Writing a key into an empty slot changes nothing, ...                   *)
LEMMA KeyInHole ==
  ASSUME NEW n, NEW K, NEW V, Sound(K, V, n), NEW id \in Ids,
         NEW i \in Slots(n), V[i] = NULL
  PROVE  Sound([K EXCEPT ![i] = id], V, n)
<1>1. \A j \in Slots(n) :
         V[j] # NULL => [K EXCEPT ![i] = id][j] = K[j]
  BY DEF Sound
<1>2. ASSUME NEW j \in Slots(n), V[j] # NULL
      PROVE  ClearTo([K EXCEPT ![i] = id], V, n, K[j], j)
  BY <1>1, <1>2 DEF Sound, ClearTo
<1>3. [K EXCEPT ![i] = id] \in [Slots(n) -> Ids]
  BY DEF Sound
<1>4. QED
  BY <1>1, <1>2, <1>3 DEF Sound

(* A probe that passes entries of other ids does so after put's key write  *)
(* too.                                                                    *)
LEMMA KeyInHoleClear ==
  ASSUME NEW n, NEW K, NEW V, Sound(K, V, n), NEW id \in Ids,
         NEW i \in Slots(n), V[i] = NULL, ClearTo(K, V, n, id, i)
  PROVE  ClearTo([K EXCEPT ![i] = id], V, n, id, i)
<1>1. \A j \in Slots(n) :
         V[j] # NULL => [K EXCEPT ![i] = id][j] = K[j]
  BY DEF Sound
<1>2. QED
  BY <1>1 DEF ClearTo

(* ... and storing the service beside its id keeps the table sound.        *)
LEMMA StoreKeepsSound ==
  ASSUME NEW n, NEW K, NEW V, Sound(K, V, n), NEW s \in Services,
         NEW i \in Slots(n), K[i] = IdOf[s], ClearTo(K, V, n, K[i], i)
  PROVE  Sound(K, [V EXCEPT ![i] = s], n)
<1> DEFINE W == [V EXCEPT ![i] = s]
<1>1. /\ W \in [Slots(n) -> Services \cup {NULL}] /\ W[i] = s
      /\ \A j \in Slots(n) : j # i => W[j] = V[j]
      /\ s # NULL /\ IdOf[s] \in Ids
  BY RSocketAssumption DEF Sound
<1> HIDE DEF W
<1>2. \A j \in Slots(n) : V[j] # NULL => W[j] # NULL
  BY <1>1
<1>3. \A j \in Slots(n) :
         ClearTo(K, V, n, K[j], j) => ClearTo(K, W, n, K[j], j)
  BY <1>2 DEF ClearTo
<1>4. ASSUME NEW j \in Slots(n), W[j] # NULL
      PROVE  IdOf[W[j]] = K[j] /\ ClearTo(K, W, n, K[j], j)
  <2>1. CASE j = i
    BY <1>1, <1>3, <2>1
  <2>2. CASE j # i
    BY <1>1, <1>3, <1>4, <2>2 DEF Sound
  <2>3. QED
    BY <2>1, <2>2
<1>5. Sound(K, W, n)
  BY <1>1, <1>4 DEF Sound
<1>6. QED
  BY <1>5 DEF W
-----------------------------------------------------------------------------
(* A non-empty set of naturals has a least element.  (By the order of      *)
(* finite sets under inclusion: m is the set 0 .. m - 1.)                  *)
LEMMA HasLeast ==
  ASSUME NEW S \in SUBSET Nat, S # {}
  PROVE  \E m \in S : \A k \in S : m <= k
<1> DEFINE Below == {0 .. m - 1 : m \in S}
           R == StrictSubsetOrdering(Nat)
<1>1. Below \subseteq FiniteSubsetsOf(Nat) /\ Below # {}
  <2>1. \A m \in S : 0 .. m - 1 \in SUBSET Nat /\ IsFiniteSet(0 .. m - 1)
    BY FS_Interval
  <2>2. QED
    BY <2>1 DEF FiniteSubsetsOf
<1> HIDE DEF R
<1>2. \E B \in Below : \A C \in Below : <<C, B>> \notin R
  BY <1>1, FS_StrictSubsetOrderingWellFounded, WFMin DEF R
<1>3. PICK m \in S : \A k \in S : <<0 .. k - 1, 0 .. m - 1>> \notin R
  BY <1>2
<1>4. ASSUME NEW k \in S, k < m PROVE FALSE
  <2>1. k \in 0 .. m - 1 /\ k \notin 0 .. k - 1
    BY <1>4
  <2>2. \A x \in 0 .. k - 1 : x \in 0 .. m - 1
    BY <1>4
  <2>3. 0 .. k - 1 \in SUBSET Nat /\ 0 .. m - 1 \in SUBSET Nat
    BY <1>4
  <2>4. <<0 .. k - 1, 0 .. m - 1>> \in R
    BY <2>1, <2>2, <2>3 DEF R, StrictSubsetOrdering
  <2>5. QED
    BY <1>3, <2>4
<1>5. QED
  BY <1>4

(* With an empty slot left, the inner loop of rehash stops at one, and at  *)
(* the first one of its probe.                                             *)
LEMMA FirstFreeIs ==
  ASSUME NEW n \in Nat \ {0}, NEW V, NEW h \in Slots(n),
         \E i \in Slots(n) : V[i] = NULL
  PROVE  /\ FirstFree(V, h, n) \in Slots(n)
         /\ V[FirstFree(V, h, n)] = NULL
         /\ \A j \in Slots(n) :
               Distance(h, j, n) < Distance(h, FirstFree(V, h, n), n)
                 => V[j] # NULL
<1> DEFINE S == {Distance(h, i, n) : i \in {x \in Slots(n) : V[x] = NULL}}
<1>1. S \in SUBSET Nat /\ S # {}
  BY DistanceRange
<1>2. PICK m \in S : \A k \in S : m <= k
  BY <1>1, HasLeast
<1>3. PICK i \in Slots(n) : V[i] = NULL /\ m = Distance(h, i, n)
  BY <1>2
<1>4. \A j \in Slots(n) :
         Distance(h, j, n) < Distance(h, i, n) => V[j] # NULL
  <2> SUFFICES ASSUME NEW j \in Slots(n), V[j] = NULL,
                      Distance(h, j, n) < Distance(h, i, n)
               PROVE  FALSE
    OBVIOUS
  <2>1. Distance(h, j, n) \in S /\ Distance(h, j, n) \in Nat /\ m \in Nat
    BY <1>1, DistanceRange
  <2>2. QED
    BY <1>2, <1>3, <2>1
<1>5. \E x \in Slots(n) :
         /\ V[x] = NULL
         /\ \A j \in Slots(n) :
               Distance(h, j, n) < Distance(h, x, n) => V[j] # NULL
  BY <1>3, <1>4
<1>6. QED
  BY <1>5 DEF FirstFree

(* A table with fewer entries than slots has an empty slot.                *)
LEMMA HasHole ==
  ASSUME NEW n \in Nat, NEW V, Cardinality(Used(V, n)) < n
  PROVE  \E i \in Slots(n) : V[i] = NULL
<1> SUFFICES ASSUME \A i \in Slots(n) : V[i] # NULL PROVE FALSE
  OBVIOUS
<1>1. Used(V, n) = 0 .. n - 1
  BY DEF Used, Slots
<1>2. Cardinality(0 .. n - 1) = n
  BY FS_Interval
<1>3. QED
  BY <1>1, <1>2

(* The entries of a table can be counted.                                  *)
LEMMA UsedFinite ==
  ASSUME NEW n \in Nat, NEW V
  PROVE  /\ IsFiniteSet(Used(V, n))
         /\ Cardinality(Used(V, n)) \in Nat
<1>1. Used(V, n) \in SUBSET (0 .. n - 1)
  BY DEF Used, Slots
<1>2. IsFiniteSet(0 .. n - 1)
  BY FS_Interval
<1>3. IsFiniteSet(Used(V, n))
  BY <1>1, <1>2, FS_Subset
<1>4. QED
  BY <1>3, FS_CardinalityType

(* Storing into an empty slot adds one entry.                              *)
LEMMA OneMoreUsed ==
  ASSUME NEW n \in Nat, NEW V, NEW i \in Slots(n), NEW W,
         W[i] # NULL, \A j \in Slots(n) : j # i => W[j] = V[j], V[i] = NULL
  PROVE  Cardinality(Used(W, n)) = Cardinality(Used(V, n)) + 1
<1>1. Used(W, n) = Used(V, n) \cup {i} /\ i \notin Used(V, n)
  BY DEF Used
<1>2. QED
  BY <1>1, UsedFinite, FS_AddElement

(* An empty table is sound and a copy of the first no slots of any.        *)
LEMMA EmptySound ==
  ASSUME NEW n \in Nat \ {0}
  PROVE  /\ Sound(EmptyTable(n).keys, EmptyTable(n).values, n)
         /\ Cardinality(Used(EmptyTable(n).values, n)) = 0
<1>1. Used(EmptyTable(n).values, n) = {}
  BY DEF Used, EmptyTable
<1>2. QED
  BY <1>1, FS_EmptySet, RSocketAssumption DEF Sound, EmptyTable

(* Before rehash's first slot nothing has been copied.                     *)
LEMMA CopiedNothing ==
  ASSUME NEW n \in Nat \ {0}, NEW K, NEW V
  PROVE  Copied(K, V, n, EmptyTable(2 * n).keys, EmptyTable(2 * n).values, 0)
<1>1. 2 * n \in Nat \ {0}
  OBVIOUS
<1>2. \A k \in Slots(2 * n) : EmptyTable(2 * n).values[k] = NULL
  BY DEF EmptyTable
<1>3. \A j \in Slots(n) : ~(j < 0)
  BY DEF Slots
<1>4. QED
  BY <1>1, <1>2, <1>3, EmptySound DEF Copied

(* An empty slot has nothing to copy.                                      *)
LEMMA CopySkip ==
  ASSUME NEW n, NEW K, NEW V, NEW K2, NEW V2, NEW i \in Slots(n),
         n \in Nat \ {0}, Copied(K, V, n, K2, V2, i), V[i] = NULL
  PROVE  Copied(K, V, n, K2, V2, i + 1)
<1>1. \A j \in Slots(n) : j < i + 1 /\ V[j] # NULL <=> j < i /\ V[j] # NULL
  BY DEF Slots
<1>2. Cardinality(Used(V2, 2 * n)) \in Nat /\ i \in Nat
  BY UsedFinite DEF Slots
<1>3. Cardinality(Used(V2, 2 * n)) <= i + 1
  BY <1>2 DEF Copied
<1>4. QED
  BY <1>1, <1>3 DEF Copied

(* Copying an entry to the slot where the inner loop stops keeps the copy  *)
(* a sound table of what has been walked over.                             *)
LEMMA CopyEntry ==
  ASSUME NEW n, NEW K, NEW V, NEW K2, NEW V2, NEW i \in Slots(n),
         Sound(K, V, n), Copied(K, V, n, K2, V2, i), V[i] # NULL,
         NEW f, f = FirstFree(V2, Home(K[i], 2 * n), 2 * n)
  PROVE  Copied(K, V, n, [K2 EXCEPT ![f] = K[i]], [V2 EXCEPT ![f] = V[i]],
                i + 1)
<1> DEFINE m == 2 * n
           K3 == [K2 EXCEPT ![f] = K[i]]
           V3 == [V2 EXCEPT ![f] = V[i]]
<1>1. /\ n \in Nat \ {0} /\ m \in Nat \ {0} /\ i \in Nat /\ i < n
      /\ K[i] \in Ids /\ V[i] \in Services /\ IdOf[V[i]] = K[i]
  BY DEF Sound, Slots
<1>3. Cardinality(Used(V2, m)) \in Nat /\ Cardinality(Used(V2, m)) <= i
  BY <1>1, UsedFinite DEF Copied
<1>4. \E j \in Slots(m) : V2[j] = NULL
  <2>1. Cardinality(Used(V2, m)) < m
    BY <1>1, <1>3
  <2>2. QED
    BY <1>1, <2>1, HasHole
<1>5. Home(K[i], m) \in Slots(m)
  BY <1>1, HomeIsSlot
<1>6. /\ f \in Slots(m) /\ V2[f] = NULL
      /\ \A j \in Slots(m) : OnPath(j, K[i], f, m) => V2[j] # NULL
  BY <1>1, <1>4, <1>5, FirstFreeIs DEF OnPath
<1>7. Sound(K2, V2, m)
  BY DEF Copied
<1>8. \A j \in Slots(m) : V2[j] # NULL => K2[j] # K[i]
  <2> SUFFICES ASSUME NEW j \in Slots(m), V2[j] # NULL, K2[j] = K[i]
               PROVE  FALSE
    OBVIOUS
  <2>1. PICK l \in Slots(n) : l < i /\ V[l] = V2[j] /\ K[l] = K2[j]
    BY DEF Copied
  <2>2. l = i
    BY <2>1, OneEntry
  <2>3. QED
    BY <1>1, <2>1, <2>2
<1>9. ClearTo(K2, V2, m, K[i], f)
  BY <1>6, <1>8 DEF ClearTo
<1> HIDE DEF m
<1>10. Sound(K3, V2, m) /\ ClearTo(K3, V2, m, K[i], f) /\ K3[f] = K[i]
  BY <1>1, <1>6, <1>7, <1>9, KeyInHole, KeyInHoleClear DEF Sound
<1>11. Sound(K3, V3, m)
  BY <1>1, <1>6, <1>10, StoreKeepsSound
<1>12. /\ V3[f] = V[i] /\ K3[f] = K[i]
       /\ \A j \in Slots(m) : j # f => V3[j] = V2[j] /\ K3[j] = K2[j]
  BY <1>6, <1>7 DEF Sound
<1> HIDE DEF K3, V3
<1>13. Cardinality(Used(V3, m)) = Cardinality(Used(V2, m)) + 1
  BY <1>1, <1>6, <1>12, OneMoreUsed
<1>14. Cardinality(Used(V3, m)) <= i + 1
  BY <1>1, <1>3, <1>13
<1>15. ASSUME NEW j \in Slots(n), j < i + 1, V[j] # NULL
       PROVE  \E k \in Slots(m) : V3[k] = V[j] /\ K3[k] = K[j]
  <2>1. CASE j = i
    BY <1>6, <1>12, <2>1
  <2>2. CASE j # i
    <3>1. j < i
      BY <1>1, <1>15, <2>2 DEF Slots
    <3>2. PICK k \in Slots(m) : V2[k] = V[j] /\ K2[k] = K[j]
      BY <1>15, <3>1 DEF Copied, m
    <3>3. k # f
      BY <1>6, <1>15, <3>2
    <3>4. QED
      BY <1>12, <3>2, <3>3
  <2>3. QED
    BY <2>1, <2>2
<1>16. ASSUME NEW k \in Slots(m), V3[k] # NULL
       PROVE  \E j \in Slots(n) : j < i + 1 /\ V[j] = V3[k] /\ K[j] = K3[k]
  <2>1. CASE k = f
    BY <1>1, <1>12, <2>1
  <2>2. CASE k # f
    <3>1. PICK j \in Slots(n) : j < i /\ V[j] = V2[k] /\ K[j] = K2[k]
      BY <1>12, <1>16, <2>2 DEF Copied, m
    <3>2. j < i + 1
      BY <1>1, <3>1 DEF Slots
    <3>3. QED
      BY <1>12, <2>2, <3>1, <3>2
  <2>3. QED
    BY <2>1, <2>2
<1>17. Copied(K, V, n, K3, V3, i + 1)
  BY <1>11, <1>14, <1>15, <1>16 DEF Copied, m
<1>18. QED
  BY <1>17 DEF K3, V3
-----------------------------------------------------------------------------
Reg(K, V) == RegistryIn([keys |-> K, values |-> V])

(* The registry a table stands for: what is found under an id, ...         *)
LEMMA RegistryHit ==
  ASSUME NEW K, NEW V, NEW n, Sound(K, V, n),
         NEW i \in Slots(n), V[i] # NULL
  PROVE  Reg(K, V)[K[i]] = V[i]
<1> DEFINE At == {j \in {x \in DOMAIN V : V[x] # NULL} : K[j] = K[i]}
<1>1. V \in [Slots(n) -> Services \cup {NULL}] /\ K[i] \in Ids
  BY DEF Sound
<1>2. At = {i}
  BY <1>1, OneEntry
<1>3. Reg(K, V)[K[i]] = IF At = {} THEN NULL ELSE V[CHOOSE j \in At : TRUE]
  BY <1>1 DEF Reg, RegistryIn
<1> HIDE DEF At
<1>4. QED
  BY <1>2, <1>3

(* ... what is not, ...                                                    *)
LEMMA RegistryMiss ==
  ASSUME NEW K, NEW V, NEW n, Sound(K, V, n), NEW id \in Ids,
         \A i \in Slots(n) : V[i] # NULL => K[i] # id
  PROVE  Reg(K, V)[id] = NULL
<1>1. DOMAIN V = Slots(n)
  BY DEF Sound
<1>2. {j \in {x \in DOMAIN V : V[x] # NULL} : K[j] = id} = {}
  BY <1>1
<1>3. QED
  BY <1>2 DEF Reg, RegistryIn

(* ... and in both cases what a probe that has ended has seen.             *)
LEMMA RegistryRead ==
  ASSUME NEW K, NEW V, NEW n, Sound(K, V, n), NEW id \in Ids,
         NEW i \in Slots(n), ClearTo(K, V, n, id, i),
         V[i] = NULL \/ K[i] = id
  PROVE  Reg(K, V)[id] = V[i]
<1>1. CASE V[i] = NULL
  <2>1. \A j \in Slots(n) : V[j] # NULL => K[j] # id
    BY <1>1, AbsentAtHole
  <2>2. QED
    BY <1>1, <2>1, RegistryMiss
<1>2. CASE V[i] # NULL
  BY <1>2, RegistryHit
<1>3. QED
  BY <1>1, <1>2

(* The registry of a table is a function on the ids.                       *)
LEMMA RegistryIsFunction ==
  \A K, V : Reg(K, V) = [id \in Ids |-> Reg(K, V)[id]]
BY DEF Reg, RegistryIn

(* A sound table registers services under their own ids.                   *)
LEMMA RegistryById ==
  ASSUME NEW K, NEW V, NEW n, Sound(K, V, n), NEW id \in Ids,
         Reg(K, V)[id] # NULL
  PROVE  Reg(K, V)[id] \in Services /\ IdOf[Reg(K, V)[id]] = id
<1>1. PICK i \in Slots(n) : V[i] # NULL /\ K[i] = id
  BY RegistryMiss
<1>2. Reg(K, V)[id] = V[i]
  BY <1>1, RegistryHit
<1>3. QED
  BY <1>1, <1>2 DEF Sound

(* Two sound tables with the same entries stand for the same registry.     *)
LEMMA SameRegistry ==
  ASSUME NEW K, NEW V, NEW n, Sound(K, V, n),
         NEW L, NEW W, NEW m, Sound(L, W, m),
         \A i \in Slots(n) : V[i] # NULL =>
            \E j \in Slots(m) : W[j] = V[i] /\ L[j] = K[i],
         \A j \in Slots(m) : W[j] # NULL =>
            \E i \in Slots(n) : V[i] = W[j] /\ K[i] = L[j]
  PROVE  Reg(K, V) = Reg(L, W)
<1>1. ASSUME NEW id \in Ids PROVE Reg(K, V)[id] = Reg(L, W)[id]
  <2>1. CASE \E i \in Slots(n) : V[i] # NULL /\ K[i] = id
    <3>1. PICK i \in Slots(n) : V[i] # NULL /\ K[i] = id
      BY <2>1
    <3>2. PICK j \in Slots(m) : W[j] = V[i] /\ L[j] = K[i]
      BY <3>1
    <3>3. Reg(K, V)[id] = V[i] /\ Reg(L, W)[id] = W[j]
      BY <3>1, <3>2, RegistryHit
    <3>4. QED
      BY <3>2, <3>3
  <2>2. CASE \A i \in Slots(n) : V[i] # NULL => K[i] # id
    <3>1. \A j \in Slots(m) : W[j] # NULL => L[j] # id
      BY <2>2
    <3>2. QED
      BY <2>2, <3>1, RegistryMiss
  <2>3. QED
    BY <2>1, <2>2
<1>2. QED
  BY <1>1, RegistryIsFunction, Zenon

(* So the copy that rehash has finished stands for the same registry, ...  *)
LEMMA RegistryCopied ==
  ASSUME NEW K, NEW V, NEW n, NEW L, NEW W, Sound(K, V, n),
         Copied(K, V, n, L, W, n)
  PROVE  Reg(K, V) = Reg(L, W)
<1>1. \A i \in Slots(n) : i < n
  BY DEF Sound, Slots
<1>2. QED
  BY <1>1, SameRegistry DEF Copied

(* ... and so does the table after a key was written into an empty slot.   *)
LEMMA RegistryKeyInHole ==
  ASSUME NEW K, NEW V, NEW L, NEW n, Sound(K, V, n), Sound(L, V, n),
         \A j \in Slots(n) : V[j] # NULL => L[j] = K[j]
  PROVE  Reg(K, V) = Reg(L, V)
<1>1. \A i \in Slots(n) : V[i] # NULL =>
         \E j \in Slots(n) : V[j] = V[i] /\ L[j] = K[i]
  OBVIOUS
<1>2. \A j \in Slots(n) : V[j] # NULL =>
         \E i \in Slots(n) : V[i] = V[j] /\ K[i] = L[j]
  OBVIOUS
<1>3. QED
  BY <1>1, <1>2, SameRegistry

(* Storing a service beside its id registers it, and touches nothing else. *)
LEMMA RegistryStored ==
  ASSUME NEW K, NEW V, NEW W, NEW n, Sound(K, V, n), Sound(K, W, n),
         NEW s \in Services, NEW i \in Slots(n), K[i] = IdOf[s], W[i] = s,
         \A j \in Slots(n) : j # i => W[j] = V[j]
  PROVE  Reg(K, W) = [Reg(K, V) EXCEPT ![IdOf[s]] = s]
<1>1. s # NULL /\ IdOf[s] \in Ids
  BY RSocketAssumption
<1>2. Reg(K, W)[IdOf[s]] = s
  BY <1>1, RegistryHit
<1>3. ASSUME NEW id \in Ids, id # IdOf[s]
      PROVE  Reg(K, W)[id] = Reg(K, V)[id]
  <2>1. CASE \E j \in Slots(n) : V[j] # NULL /\ K[j] = id
    <3>1. PICK j \in Slots(n) : V[j] # NULL /\ K[j] = id
      BY <2>1
    <3>2. W[j] = V[j]
      BY <1>3, <3>1
    <3>3. QED
      BY <3>1, <3>2, RegistryHit
  <2>2. CASE \A j \in Slots(n) : V[j] # NULL => K[j] # id
    <3>1. \A j \in Slots(n) : W[j] # NULL => K[j] # id
      BY <1>3, <2>2
    <3>2. QED
      BY <2>2, <3>1, RegistryMiss
  <2>3. QED
    BY <2>1, <2>2
<1>4. /\ Reg(K, W) = [id \in Ids |-> Reg(K, W)[id]]
      /\ DOMAIN Reg(K, V) = Ids
  BY RegistryIsFunction
<1>5. QED
  BY <1>1, <1>2, <1>3, <1>4
-----------------------------------------------------------------------------
(* What the state of every thread says about the table.                    *)
Probing == {"probe", "compare", "probed", "store"}

Arrays(S) == UNION {[Slots(n) -> S] : n \in Nat}
Tables    == [keys : Arrays(Ids), values : Arrays(Services \cup {NULL})]
Requests  == [interaction : Interactions \cup {"none"}, id : Ids \cup {NULL}]
Outcomes  == [kind : {"none", "handled", "ServiceNotFound", "thrown", "signalled",
                      "notGrown"},
              service : Services \cup {NULL}]

ShapeInv ==
  /\ size \in Nat /\ resizeThreshold \in Nat
  /\ monitor \in Threads \cup {NULL}
  /\ capacity \in [Everyone -> Nat] /\ index \in [Everyone -> Nat]
  /\ seen \in [Everyone -> Services \cup {NULL}]
  /\ found \in [Everyone -> Services \cup {NULL}]
  /\ temp \in [Everyone -> Tables]
  /\ request \in [Everyone -> Requests]
  /\ outcome \in [Everyone -> Outcomes]
  /\ calls \in [Everyone -> 0 .. CallsPerThread]

(* A thread has a call that has not taken effect while it waits or probes, *)
(* a lookup is one for the ids of its request, and only an add stores.     *)
CallOk(label, call, req) ==
  /\ call \in {NoCall} \cup {AddCall(s) : s \in Services}
                       \cup {FindCall(id) : id \in Ids}
  /\ label \in Probing \cup {"enter"} <=> call # NoCall
  /\ label = "store" => call.op = "add"
  /\ call.op = "find" => req.id = call.id

(* The locals of a thread at a label, against a table of n slots.          *)
WalkOk(label, call, cap, i, s, T, K, V, n) ==
  /\ label \in Probing =>
        cap = n /\ i \in Slots(n) /\ ClearTo(K, V, n, call.id, i)
  /\ label \in {"compare", "probed"} => s = V[i]
  /\ label = "compare" => V[i] # NULL
  /\ label = "probed" => V[i] = NULL \/ K[i] = call.id
  /\ label = "store" => K[i] = call.id
  /\ label \in {"grow", "leave"} => i \in Slots(n)
  /\ label = "rehash" =>
        cap = n /\ i \in 0 .. n /\ Copied(K, V, n, T.keys, T.values, i)
  /\ label = "publishValues" =>
        i = 0 /\ T.keys = K /\ Sound(T.keys, T.values, 2 * n)

(* Between the two writes that publish a new table, the arrays do not      *)
(* belong together; at all other times they are a sound table.             *)
TableOk(K, V, labels) ==
  /\ Length(V) \in Nat \ {0}
  /\ V \in [Slots(Length(V)) -> Services \cup {NULL}]
  /\ (\A t \in Everyone : labels[t] # "publishValues") => Sound(K, V, Length(V))

MapInv ==
  /\ TableOk(keys, values, pc)
  /\ \A t \in Everyone : CallOk(pc[t], pending[t], request[t])
  /\ \A t \in Everyone :
        WalkOk(pc[t], pending[t], capacity[t], index[t], seen[t], temp[t],
               keys, values, Length(values))

IInv == ExclusionInv /\ ShapeInv /\ MapInv
-----------------------------------------------------------------------------
(* The steps of the invariant's proof.  Who is in the map is there alone.  *)
LEMMA Alone ==
  ASSUME ExclusionInv, NEW t \in Everyone, pc[t] \in InMap,
         NEW u \in Everyone, u # t
  PROVE  pc[u] \notin InMap
BY RSocketAssumption DEF ExclusionInv, Everyone, Constructed, InMap

(* The locals of a thread that is not in the map say nothing.              *)
LEMMA WalkOutside ==
  ASSUME NEW label, label \notin InMap, NEW call, NEW cap, NEW i, NEW s,
         NEW T, NEW K, NEW V, NEW n
  PROVE  WalkOk(label, call, cap, i, s, T, K, V, n)
BY DEF WalkOk, InMap, Probing

(* Whoever is in the map, and not about to publish the values, is before a *)
(* sound table.                                                            *)
LEMMA SoundNow ==
  ASSUME IInv, NEW t \in Everyone, pc[t] \in InMap \ {"publishValues"}
  PROVE  Sound(keys, values, Length(values))
<1>1. \A u \in Everyone : pc[u] # "publishValues"
  BY Alone DEF IInv, InMap
<1>2. QED
  BY <1>1 DEF IInv, MapInv, TableOk

(* A sound table with a hole is all the monitor's owner needs of it.       *)
LEMMA SoundTableOk ==
  ASSUME NEW K, NEW V, NEW n, Sound(K, V, n), NEW labels
  PROVE  TableOk(K, V, labels)
<1>1. Length(V) = n
  BY LengthOf DEF Sound
<1>2. QED
  BY <1>1 DEF Sound, TableOk

(* So a step of the thread inside has to answer for itself only.           *)
LEMMA InsideStep ==
  ASSUME IInv, NEW t \in Everyone, pc[t] \in InMap,
         NEW label, pc' = [pc EXCEPT ![t] = label],
         NEW call, pending' = [pending EXCEPT ![t] = call],
         UNCHANGED request,
         CallOk(label, call, request[t]),
         TableOk(keys', values', pc'),
         WalkOk(label, call, capacity'[t], index'[t], seen'[t], temp'[t],
                keys', values', Length(values'))
  PROVE  MapInv'
<1>1. pc'[t] = label /\ pending'[t] = call
  BY DEF IInv, ExclusionInv
<1>2. ASSUME NEW u \in Everyone, u # t
      PROVE  pc'[u] = pc[u] /\ pc'[u] \notin InMap /\ pending'[u] = pending[u]
  <2>1. pc'[u] = pc[u] /\ pending'[u] = pending[u]
    BY <1>2 DEF IInv, ExclusionInv
  <2>2. QED
    BY <1>2, <2>1, Alone DEF IInv
<1>3. ASSUME NEW u \in Everyone
      PROVE  CallOk(pc'[u], pending'[u], request'[u])
  <2>1. CASE u = t
    BY <1>1, <2>1
  <2>2. CASE u # t
    BY <1>2, <2>2 DEF IInv, MapInv
  <2>3. QED
    BY <2>1, <2>2
<1>4. ASSUME NEW u \in Everyone
      PROVE  WalkOk(pc'[u], pending'[u], capacity'[u], index'[u], seen'[u],
                    temp'[u], keys', values', Length(values'))
  <2>1. CASE u = t
    BY <1>1, <2>1
  <2>2. CASE u # t
    BY <1>2, <2>2, WalkOutside
  <2>3. QED
    BY <2>1, <2>2
<1>5. QED
  BY <1>3, <1>4 DEF MapInv

(* What MapInv says of the thread that takes a step.                       *)
LEMMA WalkNow ==
  ASSUME IInv, NEW t \in Everyone
  PROVE  /\ CallOk(pc[t], pending[t], request[t])
         /\ WalkOk(pc[t], pending[t], capacity[t], index[t], seen[t], temp[t],
                   keys, values, Length(values))
BY DEF IInv, MapInv

(* Calls that are not none have an id; a none is not an add or a find.     *)
LEMMA CallFacts ==
  /\ NoCall.op = "none" /\ NoCall.id = NULL
  /\ \A s \in Services : /\ AddCall(s).op = "add" /\ AddCall(s) # NoCall
                         /\ AddCall(s).id = IdOf[s] /\ AddCall(s).service = s
                         /\ IdOf[s] \in Ids
  /\ \A id \in Ids : /\ FindCall(id).op = "find" /\ FindCall(id) # NoCall
                     /\ FindCall(id).id = id
<1>1. \A s \in Services : IdOf[s] \in Ids
  BY RSocketAssumption
<1>2. QED
  BY <1>1 DEF NoCall, AddCall, FindCall

(* While a thread probes, the call it makes is a put or a get of an id.    *)
LEMMA ProbingCall ==
  ASSUME IInv, NEW t \in Everyone, pc[t] \in Probing \cup {"enter"}
  PROVE  /\ pending[t].id \in Ids
         /\ \/ \E s \in Services : pending[t] = AddCall(s)
            \/ \E id \in Ids : pending[t] = FindCall(id)
BY WalkNow, CallFacts DEF CallOk

(* Reading a value keeps the invariant.                                    *)
LEMMA ReadValueKeeps ==
  ASSUME IInv, NEW t \in Everyone, ReadValue(t)
  PROVE  ShapeInv' /\ MapInv'
<1> DEFINE n == Length(values)
           label == IF values[index[t]] = NULL THEN "probed" ELSE "compare"
<1>1. /\ pc[t] = "probe" /\ pc[t] \in InMap \ {"publishValues"}
      /\ pc[t] \in Probing /\ label \in Probing /\ label # "store"
      /\ pc' = [pc EXCEPT ![t] = label]
      /\ seen' = [seen EXCEPT ![t] = values[index[t]]]
      /\ UNCHANGED <<table, monitor, pending, capacity, index, temp, request,
                     found, outcome, calls>>
  BY DEF ReadValue, InMap, Probing
<1>2. Sound(keys, values, n)
  BY <1>1, SoundNow
<1>3. /\ capacity[t] = n /\ index[t] \in Slots(n)
      /\ ClearTo(keys, values, n, pending[t].id, index[t])
  BY <1>1, WalkNow DEF WalkOk
<1>4. values[index[t]] \in Services \cup {NULL}
  BY <1>2, <1>3 DEF Sound
<1>5. ShapeInv'
  BY <1>1, <1>4 DEF IInv, ShapeInv, table
<1>6. pending' = [pending EXCEPT ![t] = pending[t]]
  BY <1>1 DEF IInv, ExclusionInv
<1>7. CallOk(label, pending[t], request[t])
  BY <1>1, WalkNow DEF CallOk
<1>8. seen'[t] = values[index[t]]
  BY <1>1 DEF IInv, ShapeInv
<1>9. WalkOk(label, pending[t], capacity[t], index[t], values[index[t]],
             temp[t], keys, values, n)
  BY <1>3 DEF WalkOk, Probing
<1>10. TableOk(keys', values', pc')
  BY <1>1, <1>2, SoundTableOk DEF table
<1>11. /\ capacity'[t] = capacity[t] /\ index'[t] = index[t]
       /\ temp'[t] = temp[t] /\ keys' = keys /\ values' = values
       /\ UNCHANGED request
  BY <1>1 DEF table
<1>12. MapInv'
  BY <1>1, <1>6, <1>7, <1>8, <1>9, <1>10, <1>11, InsideStep
<1>13. QED
  BY <1>5, <1>12

(* Comparing a key keeps it: the probe moves on past an entry of another   *)
(* id.                                                                     *)
LEMMA CompareKeyKeeps ==
  ASSUME IInv, NEW t \in Everyone, CompareKey(t)
  PROVE  ShapeInv' /\ MapInv'
<1> DEFINE n == Length(values)
           i == index[t]
           id == pending[t].id
<1>1. /\ pc[t] = "compare" /\ pc[t] \in InMap \ {"publishValues"}
      /\ pc[t] \in Probing
      /\ UNCHANGED <<keys, values, size, resizeThreshold, monitor, pending,
                     capacity, temp, request, found, outcome, calls>>
  BY DEF CompareKey, InMap, Probing, table
<1>2. Sound(keys, values, n)
  BY <1>1, SoundNow
<1>3. /\ capacity[t] = n /\ i \in Slots(n) /\ ClearTo(keys, values, n, id, i)
      /\ seen[t] = values[i] /\ values[i] # NULL
  BY <1>1, WalkNow DEF WalkOk
<1>4. n \in Nat \ {0} /\ id \in Ids
  BY <1>1, <1>2, ProbingCall DEF Sound
<1>5. /\ pending' = [pending EXCEPT ![t] = pending[t]]
      /\ capacity'[t] = capacity[t] /\ temp'[t] = temp[t]
      /\ keys' = keys /\ values' = values /\ UNCHANGED request
  BY <1>1 DEF IInv, ExclusionInv
<1>6. TableOk(keys', values', pc')
  BY <1>2, <1>5, SoundTableOk
<1>7. CASE keys[i] = id
  <2>1. /\ pc' = [pc EXCEPT ![t] = "probed"]
        /\ UNCHANGED <<index, seen>>
    BY <1>7 DEF CompareKey
  <2>2. CallOk("probed", pending[t], request[t])
    BY <1>1, WalkNow DEF CallOk, Probing
  <2>3. WalkOk("probed", pending[t], capacity[t], i, seen[t], temp[t],
               keys, values, n)
    BY <1>3, <1>7 DEF WalkOk, Probing
  <2>4. MapInv'
    BY <1>1, <1>5, <1>6, <2>1, <2>2, <2>3, InsideStep
  <2>5. ShapeInv'
    BY <1>1, <2>1 DEF IInv, ShapeInv
  <2>6. QED
    BY <2>4, <2>5
<1>8. CASE keys[i] # id
  <2>1. /\ pc' = [pc EXCEPT ![t] = "probe"]
        /\ index' = [index EXCEPT ![t] = NextSlot(i, n)]
        /\ seen' = [seen EXCEPT ![t] = NULL]
    BY <1>3, <1>8 DEF CompareKey
  <2>2. CallOk("probe", pending[t], request[t])
    BY <1>1, WalkNow DEF CallOk, Probing
  <2>3. /\ NextSlot(i, n) \in Slots(n)
        /\ ClearTo(keys, values, n, id, NextSlot(i, n))
    BY <1>3, <1>4, <1>8, ClearToNext
  <2>4. index'[t] = NextSlot(i, n)
    BY <2>1 DEF IInv, ShapeInv
  <2>5. WalkOk("probe", pending[t], capacity[t], NextSlot(i, n), seen'[t],
               temp[t], keys, values, n)
    BY <1>3, <2>3 DEF WalkOk, Probing
  <2>6. MapInv'
    BY <1>1, <1>5, <1>6, <2>1, <2>2, <2>4, <2>5, InsideStep
  <2>7. NextSlot(i, n) \in Nat
    BY <2>3 DEF Slots
  <2>8. ShapeInv'
    BY <1>1, <2>1, <2>7 DEF IInv, ShapeInv
  <2>9. QED
    BY <2>6, <2>8
<1>9. QED
  BY <1>7, <1>8

(* Leaving getService keeps it.                                            *)
LEMMA LeaveGetServiceKeeps ==
  ASSUME IInv, NEW t \in Everyone, LeaveGetService(t)
  PROVE  ShapeInv' /\ MapInv'
<1>1. /\ pc[t] = "probed" /\ pc[t] \in InMap \ {"publishValues"}
      /\ found' = [found EXCEPT ![t] = seen[t]]
      /\ pending' = [pending EXCEPT ![t] = NoCall]
      /\ seen' = [seen EXCEPT ![t] = NULL]
      /\ monitor' = NULL
      /\ pc' = [pc EXCEPT ![t] = "dispatch"]
      /\ UNCHANGED <<keys, values, size, resizeThreshold, capacity, index,
                     temp, request, outcome, calls>>
  BY DEF LeaveGetService, FoundBy, InMap, table
<1>2. ShapeInv'
  BY <1>1 DEF IInv, ShapeInv
<1>3. TableOk(keys', values', pc')
  BY <1>1, SoundNow, SoundTableOk
<1>4. CallOk("dispatch", NoCall, request[t])
  BY CallFacts DEF CallOk, Probing
<1>5. WalkOk("dispatch", NoCall, capacity'[t], index'[t], seen'[t], temp'[t],
             keys', values', Length(values'))
  BY WalkOutside DEF InMap
<1>6. MapInv'
  BY <1>1, <1>3, <1>4, <1>5, InsideStep
<1>7. QED
  BY <1>2, <1>6

(* put's write of a new key keeps it: the key goes into the hole the probe *)
(* found.                                                                  *)
LEMMA PutKeyKeeps ==
  ASSUME IInv, NEW t \in Everyone, PutKey(t)
  PROVE  ShapeInv' /\ MapInv'
<1> DEFINE n == Length(values)
           i == index[t]
           id == pending[t].id
<1>1. /\ pc[t] = "probed" /\ pc[t] \in InMap \ {"publishValues"}
      /\ pc[t] \in Probing /\ pending[t].op = "add"
      /\ pc' = [pc EXCEPT ![t] = "store"]
      /\ seen' = [seen EXCEPT ![t] = NULL]
      /\ UNCHANGED <<values, resizeThreshold, monitor, pending, capacity,
                     index, temp, request, found, outcome, calls>>
  BY DEF PutKey, InMap, Probing
<1>2. Sound(keys, values, n)
  BY <1>1, SoundNow
<1>3. /\ capacity[t] = n /\ i \in Slots(n) /\ ClearTo(keys, values, n, id, i)
      /\ seen[t] = values[i] /\ (values[i] = NULL \/ keys[i] = id)
  BY <1>1, WalkNow DEF WalkOk
<1>4. id \in Ids
  BY <1>1, ProbingCall
<1>5. /\ Sound(keys', values, n) /\ ClearTo(keys', values, n, id, i)
      /\ keys'[i] = id /\ size' \in Nat
  <2>1. CASE seen[t] = NULL
    <3>1. size' = size + 1 /\ keys' = [keys EXCEPT ![i] = id]
      BY <2>1 DEF PutKey
    <3>2. values[i] = NULL
      BY <1>3, <2>1
    <3>3. Sound(keys', values, n) /\ ClearTo(keys', values, n, id, i)
      BY <1>2, <1>3, <1>4, <3>1, <3>2, KeyInHole, KeyInHoleClear
    <3>4. keys'[i] = id
      BY <1>2, <1>3, <3>1 DEF Sound
    <3>5. size' \in Nat
      BY <3>1 DEF IInv, ShapeInv
    <3>6. QED
      BY <3>3, <3>4, <3>5
  <2>2. CASE seen[t] # NULL
    <3>1. UNCHANGED <<size, keys>>
      BY <2>2 DEF PutKey
    <3>2. QED
      BY <1>2, <1>3, <2>2, <3>1 DEF IInv, ShapeInv
  <2>3. QED
    BY <2>1, <2>2
<1>6. ShapeInv'
  BY <1>1, <1>5 DEF IInv, ShapeInv
<1>7. TableOk(keys', values', pc')
  BY <1>1, <1>5, SoundTableOk
<1>8. CallOk("store", pending[t], request[t])
  BY <1>1, WalkNow DEF CallOk, Probing
<1>9. WalkOk("store", pending[t], capacity[t], i, seen'[t], temp[t],
             keys', values, n)
  BY <1>3, <1>5 DEF WalkOk, Probing
<1>10. /\ pending' = [pending EXCEPT ![t] = pending[t]]
       /\ capacity'[t] = capacity[t] /\ index'[t] = i /\ temp'[t] = temp[t]
       /\ values' = values /\ UNCHANGED request
  BY <1>1 DEF IInv, ExclusionInv
<1>11. MapInv'
  BY <1>1, <1>7, <1>8, <1>9, <1>10, InsideStep
<1>12. QED
  BY <1>6, <1>11

(* put's write of the value keeps it: the entry is reachable when it is    *)
(* there.                                                                  *)
LEMMA PutValueKeeps ==
  ASSUME IInv, NEW t \in Everyone, PutValue(t)
  PROVE  ShapeInv' /\ MapInv'
<1> DEFINE n == Length(values)
           i == index[t]
           label == IF size > resizeThreshold THEN "grow" ELSE "leave"
<1>1. /\ pc[t] = "store" /\ pc[t] \in InMap \ {"publishValues"}
      /\ pc[t] \in Probing
      /\ values' = [values EXCEPT ![i] = pending[t].service]
      /\ pending' = [pending EXCEPT ![t] = NoCall]
      /\ pc' = [pc EXCEPT ![t] = label]
      /\ UNCHANGED <<keys, size, resizeThreshold, monitor, capacity, index,
                     seen, temp, request, found, outcome, calls>>
  BY DEF PutValue, Stored, InMap, Probing
<1>2. Sound(keys, values, n)
  BY <1>1, SoundNow
<1>3. /\ i \in Slots(n) /\ ClearTo(keys, values, n, pending[t].id, i)
      /\ keys[i] = pending[t].id
  BY <1>1, WalkNow DEF WalkOk
<1>4. PICK s \in Services : pending[t] = AddCall(s)
  BY <1>1, WalkNow, CallFacts DEF CallOk
<1>5. pending[t].id = IdOf[s] /\ pending[t].service = s
  BY <1>4, CallFacts
<1>6. Sound(keys', values', n)
  BY <1>1, <1>2, <1>3, <1>5, StoreKeepsSound
<1>7. ShapeInv'
  BY <1>1 DEF IInv, ShapeInv
<1>8. TableOk(keys', values', pc')
  BY <1>6, SoundTableOk
<1>9. Length(values') = n
  BY <1>6, LengthOf DEF Sound
<1>10. CallOk(label, NoCall, request[t])
  BY CallFacts DEF CallOk, Probing
<1>11. WalkOk(label, NoCall, capacity'[t], i, seen'[t], temp'[t],
              keys', values', n)
  BY <1>3 DEF WalkOk, Probing
<1>12. index'[t] = i /\ UNCHANGED request
  BY <1>1
<1>13. MapInv'
  BY <1>1, <1>8, <1>9, <1>10, <1>11, <1>12, InsideStep
<1>14. QED
  BY <1>7, <1>13

(* Arrays that are part of a sound table are arrays.                       *)
LEMMA SoundArrays ==
  ASSUME NEW K, NEW V, NEW n, Sound(K, V, n)
  PROVE  /\ K \in Arrays(Ids)
         /\ V \in Arrays(Services \cup {NULL})
BY DEF Sound, Arrays

(* The empty table's arrays are arrays.                                    *)
LEMMA EmptyArrays ==
  ASSUME NEW n \in Nat
  PROVE  EmptyTable(n) \in Tables
BY RSocketAssumption DEF EmptyTable, Tables, Arrays

(* Starting to grow keeps it: nothing is copied yet.                       *)
LEMMA GrowKeeps ==
  ASSUME IInv, NEW t \in Everyone, Grow(t)
  PROVE  ShapeInv' /\ MapInv'
<1> DEFINE n == Length(values)
           T == EmptyTable(2 * n)
<1>1. /\ pc[t] = "grow" /\ pc[t] \in InMap \ {"publishValues"}
      /\ resizeThreshold' = ThresholdFor(2 * n)
      /\ temp' = [temp EXCEPT ![t] = T]
      /\ capacity' = [capacity EXCEPT ![t] = n]
      /\ index' = [index EXCEPT ![t] = 0]
      /\ pc' = [pc EXCEPT ![t] = "rehash"]
      /\ UNCHANGED <<keys, values, size, monitor, pending, seen,
                     request, found, outcome, calls>>
  BY DEF Grow, InMap
<1>2. Sound(keys, values, n)
  BY <1>1, SoundNow
<1>3. n \in Nat \ {0} /\ 2 * n \in Nat
  BY <1>2 DEF Sound
<1>4. T \in Tables /\ ThresholdFor(2 * n) \in Nat
  BY <1>3, EmptyArrays, ThresholdIsNat
<1>5. ShapeInv'
  <2> HIDE DEF n, T
  <2>1. n \in Nat
    BY <1>3
  <2>2. QED
    BY <1>1, <1>4, <2>1 DEF IInv, ShapeInv
<1>6. TableOk(keys', values', pc')
  BY <1>1, <1>2, SoundTableOk
<1>7. pending[t] = NoCall
  BY <1>1, WalkNow DEF CallOk, Probing
<1>8. CallOk("rehash", pending[t], request[t])
  BY <1>7, CallFacts DEF CallOk, Probing
<1>9. capacity'[t] = n /\ index'[t] = 0 /\ temp'[t] = T
  BY <1>1 DEF IInv, ShapeInv
<1>10. Copied(keys, values, n, T.keys, T.values, 0)
  BY <1>3, CopiedNothing
<1>11. 0 \in 0 .. n
  BY <1>3
<1>12. WalkOk("rehash", pending[t], n, 0, seen'[t], T, keys, values, n)
  BY <1>10, <1>11 DEF WalkOk, Probing
<1>13. /\ pending' = [pending EXCEPT ![t] = pending[t]]
       /\ keys' = keys /\ values' = values /\ UNCHANGED request
  BY <1>1 DEF IInv, ExclusionInv
<1>14. MapInv'
  BY <1>1, <1>6, <1>8, <1>9, <1>12, <1>13, InsideStep
<1>15. QED
  BY <1>5, <1>14

(* Failing to grow keeps it: a raised threshold says nothing of the        *)
(* entries.                                                                *)
LEMMA GrowFailsKeeps ==
  ASSUME IInv, NEW t \in Everyone, GrowFails(t)
  PROVE  ShapeInv' /\ MapInv'
<1> DEFINE n == Length(values)
<1>1. /\ pc[t] = "grow" /\ pc[t] \in InMap \ {"publishValues"}
      /\ resizeThreshold' \in {resizeThreshold, ThresholdFor(2 * n)}
      /\ outcome' = [outcome EXCEPT ![t] = NotGrown]
      /\ UNCHANGED <<keys, values, size, monitor, pending, capacity, index,
                     seen, temp, request, found, calls>>
  BY DEF GrowFails, InMap
<1>2. PICK label \in {"failed", "leave"} : pc' = [pc EXCEPT ![t] = label]
  BY DEF GrowFails
<1>3. Sound(keys, values, n)
  BY <1>1, SoundNow
<1>4. 2 * n \in Nat
  BY <1>3 DEF Sound
<1>5. ThresholdFor(2 * n) \in Nat /\ NotGrown \in Outcomes
  BY <1>4, ThresholdIsNat DEF NotGrown, Outcomes
<1>6. ShapeInv'
  BY <1>1, <1>5 DEF IInv, ShapeInv
<1>7. TableOk(keys', values', pc')
  BY <1>1, <1>3, SoundTableOk
<1>8. index[t] \in Slots(n) /\ pending[t] = NoCall
  BY <1>1, WalkNow DEF WalkOk, CallOk, Probing
<1>9. CallOk(label, pending[t], request[t])
  BY <1>8, CallFacts DEF CallOk, Probing
<1>10. WalkOk(label, pending[t], capacity[t], index[t], seen[t], temp[t],
              keys, values, n)
  BY <1>8 DEF WalkOk, Probing
<1>11. /\ pending' = [pending EXCEPT ![t] = pending[t]]
       /\ keys' = keys /\ values' = values /\ UNCHANGED request
  BY <1>1 DEF IInv, ExclusionInv
<1>12. MapInv'
  BY <1>1, <1>2, <1>7, <1>9, <1>10, <1>11, InsideStep
<1>13. QED
  BY <1>6, <1>12

(* Copying one slot keeps it: the copies so far are a sound table.         *)
LEMMA RehashSlotKeeps ==
  ASSUME IInv, NEW t \in Everyone, RehashSlot(t)
  PROVE  ShapeInv' /\ MapInv'
<1> DEFINE n == Length(values)
           i == index[t]
           T == temp[t]
           m == Length(T.values)
           free == FirstFree(T.values, Home(keys[i], m), m)
<1>1. /\ pc[t] = "rehash" /\ pc[t] \in InMap \ {"publishValues"}
      /\ i < capacity[t]
      /\ temp' = IF values[i] = NULL THEN temp
                 ELSE [temp EXCEPT ![t] =
                         [keys   |-> [T.keys EXCEPT ![free] = keys[i]],
                          values |-> [T.values EXCEPT ![free] = values[i]]]]
      /\ index' = [index EXCEPT ![t] = i + 1]
      /\ UNCHANGED <<keys, values, size, resizeThreshold, monitor, pc,
                     pending, capacity, seen, request, found, outcome, calls>>
  BY DEF RehashSlot, InMap, table
<1>2. Sound(keys, values, n)
  BY <1>1, SoundNow
<1>3. /\ capacity[t] = n /\ i \in 0 .. n
      /\ Copied(keys, values, n, T.keys, T.values, i)
  BY <1>1, WalkNow DEF WalkOk
<1>4. n \in Nat \ {0} /\ i \in Slots(n) /\ i + 1 \in 0 .. n /\ i + 1 \in Nat
  BY <1>1, <1>2, <1>3 DEF Sound, Slots
<1>5. Sound(T.keys, T.values, 2 * n) /\ m = 2 * n
  <2>1. Sound(T.keys, T.values, 2 * n)
    BY <1>3 DEF Copied
  <2>2. QED
    BY <1>4, <2>1, LengthOf DEF Sound
<1>6. /\ temp' \in [Everyone -> Tables]
      /\ Copied(keys, values, n, temp'[t].keys, temp'[t].values, i + 1)
  <2>1. CASE values[i] = NULL
    <3>1. temp' = temp
      BY <1>1, <2>1
    <3>2. QED
      BY <1>3, <1>4, <2>1, <3>1, CopySkip DEF IInv, ShapeInv
  <2>2. CASE values[i] # NULL
    <3> DEFINE K2 == [T.keys EXCEPT ![free] = keys[i]]
               V2 == [T.values EXCEPT ![free] = values[i]]
               T2 == [keys |-> K2, values |-> V2]
    <3>1. Copied(keys, values, n, K2, V2, i + 1)
      BY <1>2, <1>3, <1>4, <1>5, <2>2, CopyEntry
    <3>2. K2 \in Arrays(Ids) /\ V2 \in Arrays(Services \cup {NULL})
      BY <3>1, SoundArrays DEF Copied
    <3>3. temp' = [temp EXCEPT ![t] = T2]
      BY <1>1, <2>2
    <3> HIDE DEF K2, V2
    <3>4. T2 \in Tables /\ T2.keys = K2 /\ T2.values = V2
      BY <3>2 DEF Tables
    <3> HIDE DEF T2
    <3>5. temp' \in [Everyone -> Tables] /\ temp'[t] = T2
      BY <3>3, <3>4 DEF IInv, ShapeInv
    <3>6. QED
      BY <3>1, <3>4, <3>5
  <2>3. QED
    BY <2>1, <2>2
<1>7. ShapeInv'
  BY <1>1, <1>4, <1>6 DEF IInv, ShapeInv
<1>8. TableOk(keys', values', pc')
  BY <1>1, <1>2, SoundTableOk
<1>9. index'[t] = i + 1
  BY <1>1 DEF IInv, ShapeInv
<1>10. WalkOk("rehash", pending[t], capacity[t], i + 1, seen[t], temp'[t],
              keys, values, n)
  BY <1>3, <1>4, <1>6 DEF WalkOk, Probing
<1>11. CallOk("rehash", pending[t], request[t])
  BY <1>1, WalkNow
<1>12. /\ pending' = [pending EXCEPT ![t] = pending[t]]
       /\ pc' = [pc EXCEPT ![t] = "rehash"]
       /\ capacity'[t] = capacity[t] /\ seen'[t] = seen[t]
       /\ keys' = keys /\ values' = values /\ UNCHANGED request
  BY <1>1 DEF IInv, ExclusionInv
<1>13. MapInv'
  BY <1>1, <1>8, <1>9, <1>10, <1>11, <1>12, InsideStep
<1>14. QED
  BY <1>7, <1>13

(* Publishing the new keys keeps it; until the values follow, the table is *)
(* its writer's.                                                           *)
LEMMA PublishKeysKeeps ==
  ASSUME IInv, NEW t \in Everyone, PublishKeys(t)
  PROVE  ShapeInv' /\ MapInv'
<1> DEFINE n == Length(values)
           T == temp[t]
<1>1. /\ pc[t] = "rehash" /\ pc[t] \in InMap \ {"publishValues"}
      /\ index[t] = capacity[t]
      /\ keys' = T.keys
      /\ index' = [index EXCEPT ![t] = 0]
      /\ pc' = [pc EXCEPT ![t] = "publishValues"]
      /\ UNCHANGED <<values, size, resizeThreshold, monitor, pending,
                     capacity, seen, temp, request, found, outcome, calls>>
  BY DEF PublishKeys, InMap
<1>2. Sound(keys, values, n)
  BY <1>1, SoundNow
<1>3. Copied(keys, values, n, T.keys, T.values, n)
  BY <1>1, WalkNow DEF WalkOk
<1>4. Sound(T.keys, T.values, 2 * n)
  BY <1>3 DEF Copied
<1>5. ShapeInv'
  BY <1>1 DEF IInv, ShapeInv
<1>6. pc'[t] = "publishValues" /\ index'[t] = 0
  BY <1>1 DEF IInv, ShapeInv, ExclusionInv
<1>7. TableOk(keys', values', pc')
  BY <1>1, <1>2, <1>6 DEF TableOk, Sound
<1>8. CallOk("publishValues", pending[t], request[t])
  BY <1>1, WalkNow DEF CallOk, Probing
<1>9. WalkOk("publishValues", pending[t], capacity[t], 0, seen[t], T,
             keys', values, n)
  BY <1>1, <1>4 DEF WalkOk, Probing
<1>10. /\ pending' = [pending EXCEPT ![t] = pending[t]]
       /\ capacity'[t] = capacity[t] /\ seen'[t] = seen[t] /\ temp'[t] = T
       /\ values' = values /\ UNCHANGED request
  BY <1>1 DEF IInv, ExclusionInv
<1>11. MapInv'
  BY <1>1, <1>6, <1>7, <1>8, <1>9, <1>10, InsideStep
<1>12. QED
  BY <1>5, <1>11

(* Publishing the new values keeps it: the table is sound again.           *)
LEMMA PublishValuesKeeps ==
  ASSUME IInv, NEW t \in Everyone, PublishValues(t)
  PROVE  ShapeInv' /\ MapInv'
<1> DEFINE n == Length(values)
           T == temp[t]
<1>1. /\ pc[t] = "publishValues" /\ pc[t] \in InMap
      /\ values' = T.values
      /\ temp' = [temp EXCEPT ![t] = EmptyTable(0)]
      /\ pc' = [pc EXCEPT ![t] = "leave"]
      /\ UNCHANGED <<keys, size, resizeThreshold, monitor, pending, capacity,
                     index, seen, request, found, outcome, calls>>
  BY DEF PublishValues, InMap
<1>2. index[t] = 0 /\ T.keys = keys /\ Sound(T.keys, T.values, 2 * n)
  BY <1>1, WalkNow DEF WalkOk
<1>3. Sound(keys', values', 2 * n)
  BY <1>1, <1>2
<1>4. Length(values') = 2 * n /\ 0 \in Slots(2 * n)
  <2> DEFINE m == 2 * n
  <2>1. Sound(keys', values', m)
    BY <1>3
  <2> HIDE DEF m
  <2>2. Length(values') = m
    BY <2>1, LengthOf DEF Sound
  <2>3. 0 \in Slots(m)
    BY <2>1 DEF Sound, Slots
  <2>4. QED
    BY <2>2, <2>3 DEF m
<1>5. ShapeInv'
  BY <1>1, EmptyArrays DEF IInv, ShapeInv
<1>6. TableOk(keys', values', pc')
  BY <1>3, SoundTableOk
<1>7. CallOk("leave", pending[t], request[t])
  BY <1>1, WalkNow DEF CallOk, Probing
<1>8. WalkOk("leave", pending[t], capacity'[t], 0, seen'[t], temp'[t],
             keys', values', 2 * n)
  BY <1>4 DEF WalkOk, Probing
<1>9. /\ pending' = [pending EXCEPT ![t] = pending[t]]
      /\ index'[t] = 0 /\ UNCHANGED request
  BY <1>1, <1>2 DEF IInv, ExclusionInv
<1>10. MapInv'
  BY <1>1, <1>4, <1>6, <1>7, <1>8, <1>9, InsideStep
<1>11. QED
  BY <1>5, <1>10

(* Leaving a put keeps it.                                                 *)
LEMMA LeavePutKeeps ==
  ASSUME IInv, NEW t \in Everyone, LeavePut(t)
  PROVE  ShapeInv' /\ MapInv'
<1>1. /\ pc[t] = "leave" /\ pc[t] \in InMap \ {"publishValues"}
      /\ monitor' \in {monitor, NULL}
      /\ pc' = [pc EXCEPT ![t] = "idle"]
      /\ capacity' = [capacity EXCEPT ![t] = 0]
      /\ index' = [index EXCEPT ![t] = 0]
      /\ UNCHANGED <<keys, values, size, resizeThreshold, pending, seen, temp,
                     request, found, outcome, calls>>
  BY DEF LeavePut, InMap, table
<1>2. ShapeInv'
  BY <1>1 DEF IInv, ShapeInv
<1>3. TableOk(keys', values', pc')
  BY <1>1, SoundNow, SoundTableOk
<1>4. CallOk("idle", pending[t], request[t])
  BY <1>1, WalkNow DEF CallOk, Probing
<1>5. WalkOk("idle", pending[t], capacity'[t], index'[t], seen'[t], temp'[t],
             keys', values', Length(values'))
  BY WalkOutside DEF InMap
<1>6. pending' = [pending EXCEPT ![t] = pending[t]]
  BY <1>1 DEF IInv, ExclusionInv
<1>7. MapInv'
  BY <1>1, <1>3, <1>4, <1>5, <1>6, InsideStep
<1>8. QED
  BY <1>2, <1>7

(* A step outside the map leaves those in it, and the table, as they are.  *)
LEMMA OutsideStep ==
  ASSUME IInv, NEW t \in Everyone, pc[t] \notin InMap,
         NEW label, label \notin InMap, pc' = [pc EXCEPT ![t] = label],
         NEW call, pending' = [pending EXCEPT ![t] = call],
         CallOk(label, call, request'[t]),
         UNCHANGED <<keys, values>>,
         \A u \in Everyone : u # t =>
            /\ capacity'[u] = capacity[u] /\ index'[u] = index[u]
            /\ seen'[u] = seen[u] /\ temp'[u] = temp[u]
            /\ request'[u] = request[u]
  PROVE  MapInv'
<1>1. pc'[t] = label /\ pending'[t] = call
  BY DEF IInv, ExclusionInv
<1>2. \A u \in Everyone : u # t => pc'[u] = pc[u] /\ pending'[u] = pending[u]
  BY DEF IInv, ExclusionInv
<1>3. TableOk(keys', values', pc')
  <2>1. pc[t] # "publishValues"
    BY DEF InMap
  <2>2. (\A u \in Everyone : pc'[u] # "publishValues")
          => \A u \in Everyone : pc[u] # "publishValues"
    BY <1>2, <2>1
  <2>3. TableOk(keys, values, pc)
    BY DEF IInv, MapInv
  <2>4. QED
    BY <2>2, <2>3 DEF TableOk
<1>4. ASSUME NEW u \in Everyone
      PROVE  CallOk(pc'[u], pending'[u], request'[u])
  <2>1. CASE u = t
    BY <1>1, <2>1
  <2>2. CASE u # t
    BY <1>2, <2>2 DEF IInv, MapInv
  <2>3. QED
    BY <2>1, <2>2
<1>5. ASSUME NEW u \in Everyone
      PROVE  WalkOk(pc'[u], pending'[u], capacity'[u], index'[u], seen'[u],
                    temp'[u], keys', values', Length(values'))
  <2>1. CASE u = t
    BY <1>1, <2>1, WalkOutside
  <2>2. CASE u # t
    BY <1>2, <2>2 DEF IInv, MapInv
  <2>3. QED
    BY <2>1, <2>2
<1>6. QED
  BY <1>3, <1>4, <1>5 DEF MapInv

(* Whoever enters an empty map starts its probe at the home of its id.     *)
LEMMA EnterStep ==
  ASSUME IInv, NEW t \in Everyone,
         \A u \in Everyone : pc[u] \notin InMap,
         NEW call, call.id \in Ids, EnterMap(t, call),
         pending' = [pending EXCEPT ![t] = call],
         CallOk("probe", call, request[t]),
         UNCHANGED <<keys, values, seen, temp, request>>
  PROVE  /\ MapInv'
         /\ capacity' \in [Everyone -> Nat] /\ index' \in [Everyone -> Nat]
<1> DEFINE n == Length(values)
<1>1. Sound(keys, values, n)
  BY DEF IInv, MapInv, TableOk, InMap
<1>2. n \in Nat \ {0}
  BY <1>1 DEF Sound
<1>3. /\ pc' = [pc EXCEPT ![t] = "probe"]
      /\ capacity' = [capacity EXCEPT ![t] = n]
      /\ index' = [index EXCEPT ![t] = Home(call.id, n)]
  BY DEF EnterMap
<1>4. Home(call.id, n) \in Slots(n) /\ Home(call.id, n) \in Nat
  BY <1>2, HomeIsSlot DEF Slots
<1> HIDE DEF n
<1>5. /\ capacity' \in [Everyone -> Nat] /\ index' \in [Everyone -> Nat]
      /\ capacity'[t] = n /\ index'[t] = Home(call.id, n)
  BY <1>2, <1>3, <1>4 DEF IInv, ShapeInv
<1>6. ClearTo(keys, values, n, call.id, Home(call.id, n))
  BY <1>2, ClearToHome
<1>7. WalkOk("probe", call, n, Home(call.id, n), seen[t], temp[t],
             keys, values, n)
  BY <1>4, <1>6 DEF WalkOk, Probing
<1>8. TableOk(keys', values', pc')
  BY <1>1, SoundTableOk
<1>9. /\ pc'[t] = "probe" /\ pending'[t] = call
      /\ \A u \in Everyone : u # t => pc'[u] = pc[u] /\ pending'[u] = pending[u]
  BY <1>3 DEF IInv, ExclusionInv
<1>10. ASSUME NEW u \in Everyone
       PROVE  CallOk(pc'[u], pending'[u], request'[u])
  <2>1. CASE u = t
    BY <1>9, <2>1
  <2>2. CASE u # t
    BY <1>9, <2>2 DEF IInv, MapInv
  <2>3. QED
    BY <2>1, <2>2
<1>11. ASSUME NEW u \in Everyone
       PROVE  WalkOk(pc'[u], pending'[u], capacity'[u], index'[u], seen'[u],
                     temp'[u], keys', values', Length(values'))
  <2>1. CASE u = t
    BY <1>5, <1>7, <1>9, <2>1 DEF n
  <2>2. CASE u # t
    BY <1>9, <2>2, WalkOutside
  <2>3. QED
    BY <2>1, <2>2
<1>12. MapInv'
  BY <1>8, <1>10, <1>11 DEF MapInv
<1>13. QED
  BY <1>5, <1>12

(* Entering the monitor keeps it: the table is sound when the probe        *)
(* starts.                                                                 *)
LEMMA EnterMonitorKeeps ==
  ASSUME IInv, NEW t \in Everyone, EnterMonitor(t)
  PROVE  ShapeInv' /\ MapInv'
<1>1. /\ pc[t] = "enter" /\ monitor = NULL /\ monitor' = t
      /\ EnterMap(t, pending[t])
      /\ UNCHANGED <<keys, values, size, resizeThreshold, pending, seen, temp,
                     request, found, outcome, calls>>
  BY DEF EnterMonitor, MayEnter, table
<1>2. t \in Threads /\ Constructed
  BY <1>1 DEF IInv, ExclusionInv, InMap, Everyone
<1>3. \A u \in Everyone : pc[u] \notin InMap
  BY <1>1, <1>2, RSocketAssumption
  DEF IInv, ExclusionInv, Constructed, Everyone, InMap
<1>4. pending[t].id \in Ids
  BY <1>1, ProbingCall
<1>5. CallOk("probe", pending[t], request[t])
  BY <1>1, WalkNow DEF CallOk, Probing
<1>6. pending' = [pending EXCEPT ![t] = pending[t]]
  BY <1>1 DEF IInv, ExclusionInv
<1>7. /\ MapInv'
      /\ capacity' \in [Everyone -> Nat] /\ index' \in [Everyone -> Nat]
  BY <1>1, <1>3, <1>4, <1>5, <1>6, EnterStep
<1>8. QED
  BY <1>1, <1>2, <1>7 DEF IInv, ShapeInv

(* A put of the constructor keeps it.                                      *)
LEMMA ConstructorPutsKeeps ==
  ASSUME IInv, ConstructorPuts
  PROVE  ShapeInv' /\ MapInv'
<1> DEFINE t == Constructor
           call == AddCall(Head(toConstruct))
<1>1. /\ toConstruct # <<>> /\ pc[t] = "idle" /\ t \in Everyone
      /\ EnterMap(t, call)
      /\ pending' = [pending EXCEPT ![t] = call]
      /\ UNCHANGED <<keys, values, size, resizeThreshold, monitor, seen, temp,
                     request, found, outcome, calls>>
  BY DEF ConstructorPuts, Everyone, table
<1>2. \A u \in Everyone : pc[u] \notin InMap
  BY <1>1 DEF IInv, ExclusionInv, Constructed, Everyone, InMap
<1>3. Head(toConstruct) \in Services
  BY <1>1 DEF IInv, ExclusionInv
<1>4. /\ call.id \in Ids /\ call.op = "add" /\ call # NoCall
      /\ call \in {AddCall(s) : s \in Services}
  BY <1>3, CallFacts
<1> HIDE DEF call
<1>5. CallOk("probe", call, request[t])
  BY <1>4 DEF CallOk, Probing
<1>6. /\ MapInv'
      /\ capacity' \in [Everyone -> Nat] /\ index' \in [Everyone -> Nat]
  BY <1>1, <1>2, <1>4, <1>5, EnterStep
<1>7. QED
  BY <1>1, <1>6 DEF IInv, ShapeInv

(* Dispatching a request keeps it.                                         *)
LEMMA DispatchKeeps ==
  ASSUME IInv, NEW t \in Everyone, Dispatch(t)
  PROVE  ShapeInv' /\ MapInv'
<1>1. /\ pc[t] = "dispatch" /\ pc[t] \notin InMap
      /\ pc' = [pc EXCEPT ![t] = "idle"]
      /\ capacity' = [capacity EXCEPT ![t] = 0]
      /\ index' = [index EXCEPT ![t] = 0]
      /\ UNCHANGED <<keys, values, size, resizeThreshold, monitor, pending,
                     seen, temp, request, found, calls>>
  BY DEF Dispatch, InMap, table
<1>2. PICK o \in Outcomes : outcome' = [outcome EXCEPT ![t] = o]
  <2>1. found[t] \in Services \cup {NULL}
    BY DEF IInv, ShapeInv
  <2>2. NotFound \in Outcomes /\ Handled(found[t]) \in Outcomes
        /\ Failure(request[t].interaction) \in Outcomes
    BY <2>1 DEF NotFound, Handled, Failure, Outcomes
  <2>3. QED
    BY <2>2 DEF Dispatch
<1>3. ShapeInv'
  BY <1>1, <1>2 DEF IInv, ShapeInv
<1>4. CallOk("idle", pending[t], request'[t])
  BY <1>1, WalkNow DEF CallOk, Probing
<1>5. pending' = [pending EXCEPT ![t] = pending[t]]
  BY <1>1 DEF IInv, ExclusionInv
<1>6. \A u \in Everyone : u # t =>
         /\ capacity'[u] = capacity[u] /\ index'[u] = index[u]
         /\ seen'[u] = seen[u] /\ temp'[u] = temp[u]
         /\ request'[u] = request[u]
  BY <1>1 DEF IInv, ShapeInv
<1>7. "idle" \notin InMap
  BY DEF InMap
<1>8. MapInv'
  BY <1>1, <1>4, <1>5, <1>6, <1>7, OutsideStep
<1>9. QED
  BY <1>3, <1>8

(* A call on the socket keeps it.                                          *)
LEMMA CallKeeps ==
  ASSUME IInv, NEW t \in Threads, Call(t)
  PROVE  ShapeInv' /\ MapInv'
<1>1. /\ t \in Everyone /\ pc[t] = "idle" /\ pc[t] \notin InMap
      /\ calls' = [calls EXCEPT ![t] = calls[t] + 1]
      /\ calls[t] < CallsPerThread
      /\ UNCHANGED <<keys, values, size, resizeThreshold, monitor, capacity,
                     index, seen, temp, found>>
  BY DEF Call, AddService, Request, RequestUndecodable, CanCall, Everyone,
         InMap, table
<1>2. calls' \in [Everyone -> 0 .. CallsPerThread]
  <2>1. calls[t] + 1 \in 0 .. CallsPerThread
    BY <1>1, RSocketAssumption DEF IInv, ShapeInv
  <2>2. QED
    BY <1>1, <2>1 DEF IInv, ShapeInv
<1>3. PICK o \in Outcomes : outcome' = [outcome EXCEPT ![t] = o]
  <2>1. None \in Outcomes /\ \A i : Failure(i) \in Outcomes
    BY DEF None, Failure, Outcomes
  <2>2. QED
    BY <2>1 DEF Call, AddService, Request, RequestUndecodable
<1>4. PICK r \in Requests, label \in {"idle", "enter"},
           call \in {NoCall} \cup {AddCall(s) : s \in Services}
                            \cup {FindCall(id) : id \in Ids} :
         /\ request' = [request EXCEPT ![t] = r]
         /\ pc' = [pc EXCEPT ![t] = label]
         /\ pending' = [pending EXCEPT ![t] = call]
         /\ CallOk(label, call, r)
  <2>1. NoRequest \in Requests
    BY DEF NoRequest, Requests
  <2>2. CASE AddService(t)
    <3>1. PICK s \in Services : pending' = [pending EXCEPT ![t] = AddCall(s)]
      BY <2>2 DEF AddService
    <3>2. CallOk("enter", AddCall(s), NoRequest)
      BY CallFacts DEF CallOk, Probing
    <3>3. QED
      BY <2>1, <2>2, <3>1, <3>2 DEF AddService
  <2>3. CASE Request(t)
    <3>1. PICK i \in Interactions, id \in Ids :
             /\ pending' = [pending EXCEPT ![t] = FindCall(id)]
             /\ request' = [request EXCEPT ![t] = [interaction |-> i, id |-> id]]
      BY <2>3 DEF Request
    <3>2. CallOk("enter", FindCall(id), [interaction |-> i, id |-> id])
      BY CallFacts DEF CallOk, Probing
    <3>3. [interaction |-> i, id |-> id] \in Requests
      BY DEF Requests
    <3>4. QED
      BY <2>3, <3>1, <3>2, <3>3 DEF Request
  <2>4. CASE RequestUndecodable(t)
    <3>1. /\ pc' = [pc EXCEPT ![t] = "idle"]
          /\ pending' = [pending EXCEPT ![t] = NoCall]
          /\ request' = [request EXCEPT ![t] = NoRequest]
      BY <1>1, <2>4, WalkNow
      DEF RequestUndecodable, CallOk, Probing, IInv, ExclusionInv
    <3>2. CallOk("idle", NoCall, NoRequest)
      BY CallFacts DEF CallOk, Probing
    <3>3. QED
      BY <2>1, <3>1, <3>2
  <2>5. QED
    BY <2>2, <2>3, <2>4 DEF Call
<1>5. ShapeInv'
  BY <1>1, <1>2, <1>3, <1>4 DEF IInv, ShapeInv
<1>6. label \notin InMap
  BY DEF InMap
<1>7. request'[t] = r /\ \A u \in Everyone : u # t => request'[u] = request[u]
  BY <1>1, <1>4 DEF IInv, ShapeInv
<1>8. CallOk(label, call, request'[t])
  BY <1>4, <1>7
<1>9. MapInv'
  BY <1>1, <1>4, <1>6, <1>7, <1>8, OutsideStep
<1>10. QED
  BY <1>5, <1>9

(* It holds of the new socket.                                             *)
LEMMA InitKeeps == Init => IInv
<1> SUFFICES ASSUME Init PROVE IInv
  OBVIOUS
<1> DEFINE n == MinCapacity
<1>1. n \in Nat \ {0}
  BY RSocketAssumption
<1>2. Sound(keys, values, n)
  BY <1>1, EmptySound DEF Init
<1>3. TableOk(keys, values, pc)
  BY <1>2, SoundTableOk
<1>4. \A t \in Everyone :
         /\ pc[t] = "idle" /\ pending[t] = NoCall /\ request[t] = NoRequest
  BY DEF Init
<1>5. \A t \in Everyone : CallOk(pc[t], pending[t], request[t])
  BY <1>4, CallFacts DEF CallOk, Probing
<1>6. \A t \in Everyone :
         WalkOk(pc[t], pending[t], capacity[t], index[t], seen[t], temp[t],
                keys, values, Length(values))
  BY <1>4, WalkOutside DEF InMap
<1>7. ShapeInv
  <2>1. ThresholdFor(n) \in Nat /\ EmptyTable(0) \in Tables
    BY <1>1, ThresholdIsNat, EmptyArrays
  <2>2. NoRequest \in Requests /\ None \in Outcomes
    BY DEF NoRequest, Requests, None, Outcomes
  <2>3. 0 \in 0 .. CallsPerThread
    BY RSocketAssumption
  <2>4. QED
    BY <2>1, <2>2, <2>3 DEF Init, ShapeInv
<1>8. QED
  BY <1>3, <1>5, <1>6, <1>7, InitExclusion DEF IInv, MapInv

(* Every step keeps the invariant.                                         *)
LEMMA NextKeeps == IInv /\ [Next]_vars => IInv'
<1> SUFFICES ASSUME IInv, [Next]_vars PROVE IInv'
  OBVIOUS
<1>1. ExclusionInv'
  BY NextExclusion DEF IInv
<1>2. CASE ConstructorPuts
  BY <1>1, <1>2, ConstructorPutsKeeps DEF IInv
<1>3. ASSUME NEW t \in Threads, Call(t) PROVE IInv'
  BY <1>1, <1>3, CallKeeps DEF IInv
<1>4. ASSUME NEW t \in Everyone, Step(t) PROVE IInv'
  <2>1. ShapeInv' /\ MapInv'
    BY <1>4, EnterMonitorKeeps, ReadValueKeeps, CompareKeyKeeps,
       LeaveGetServiceKeeps, PutKeyKeeps, PutValueKeeps, GrowKeeps,
       GrowFailsKeeps, RehashSlotKeeps, PublishKeysKeeps, PublishValuesKeeps, LeavePutKeeps,
       DispatchKeeps DEF Step
  <2>2. QED
    BY <1>1, <2>1 DEF IInv
<1>5. CASE UNCHANGED vars
  <2>1. ShapeInv' /\ MapInv'
    BY <1>5 DEF vars, table, locals, IInv, ShapeInv, MapInv
  <2>2. QED
    BY <1>1, <2>1 DEF IInv
<1>6. QED
  BY <1>2, <1>3, <1>4, <1>5 DEF Next

(* The invariant holds in every state.                                     *)
LEMMA AlwaysIInv == Spec => []IInv
BY InitKeeps, NextKeeps, PTL DEF Spec
-----------------------------------------------------------------------------

(* The types follow from the invariant.                                    *)
LEMMA TypesFollow == IInv => TypeOK
<1> SUFFICES ASSUME IInv PROVE TypeOK
  OBVIOUS
<1> DEFINE n == Length(values)
<1>1. n \in Nat \ {0} /\ values \in [Slots(n) -> Services \cup {NULL}]
  BY DEF IInv, MapInv, TableOk
<1>2. keys \in [Slots(Length(keys)) -> Ids]
  <2>1. CASE \A t \in Everyone : pc[t] # "publishValues"
    <3>1. Sound(keys, values, n)
      BY <2>1 DEF IInv, MapInv, TableOk
    <3>2. QED
      BY <3>1, LengthOf DEF Sound
  <2>2. CASE \E t \in Everyone : pc[t] = "publishValues"
    <3>1. PICK t \in Everyone : pc[t] = "publishValues"
      BY <2>2
    <3>2. temp[t].keys = keys /\ Sound(temp[t].keys, temp[t].values, 2 * n)
      BY <3>1, WalkNow DEF WalkOk
    <3> DEFINE m == 2 * n
    <3>3. m \in Nat \ {0} /\ keys \in [Slots(m) -> Ids]
      BY <3>2 DEF Sound
    <3> HIDE DEF m
    <3>4. QED
      BY <3>3, LengthOf
  <2>3. QED
    BY <2>1, <2>2
<1>3. ASSUME NEW t \in Everyone, pc[t] \in InMap \ {"rehash"}
      PROVE  index[t] < n
  <2>1. index[t] \in Slots(n) \/ index[t] = 0
    BY <1>3, WalkNow DEF WalkOk, InMap, Probing
  <2>2. QED
    BY <1>1, <2>1 DEF Slots
<1>4. \A t \in Everyone :
         pending[t] \in {NoCall} \cup {AddCall(s) : s \in Services}
                                 \cup {FindCall(id) : id \in Ids}
  BY WalkNow DEF CallOk
<1>5. QED
  BY <1>1, <1>2, <1>3, <1>4 DEF TypeOK, IInv, ShapeInv, ExclusionInv, Labels

(* put and get of BiInt2ObjectMap walk shared arrays under the socket's    *)
(* monitor: tables and locals have their shapes, and no thread's index     *)
(* leaves the array it walks, however the calls interleave and the table   *)
(* grows.                                                                  *)
THEOREM AlwaysTypeOK == Spec => []TypeOK
BY AlwaysIInv, TypesFollow, PTL
-----------------------------------------------------------------------------

(* Without a thread between its two publications, the map's arrays are the *)
(* current table.                                                          *)
LEMMA NoPublisher ==
  ASSUME \A t \in Everyone : pc[t] # "publishValues"
  PROVE  Registry = Reg(keys, values)
BY DEF Registry, Current, Reg

(* The same after a step.                                                  *)
LEMMA NoPublisherNext ==
  ASSUME \A t \in Everyone : pc'[t] # "publishValues"
  PROVE  Registry' = Reg(keys', values')
BY DEF Registry, Current, Reg

(* With one, the table it has built is the current one.                    *)
LEMMA Publisher ==
  ASSUME NEW t \in Everyone, pc[t] = "publishValues",
         \A u \in Everyone : pc[u] = "publishValues" => u = t
  PROVE  Registry = Reg(temp[t].keys, temp[t].values)
<1>1. (CHOOSE u \in Everyone : pc[u] = "publishValues") = t
  OBVIOUS
<1>2. Current = temp[t]
  BY <1>1 DEF Current
<1>3. QED
  BY <1>2 DEF Registry, Reg, RegistryIn

(* The same after a step.                                                  *)
LEMMA PublisherNext ==
  ASSUME NEW t \in Everyone, pc'[t] = "publishValues",
         \A u \in Everyone : pc'[u] = "publishValues" => u = t
  PROVE  Registry' = Reg(temp'[t].keys, temp'[t].values)
<1>1. (CHOOSE u \in Everyone : pc'[u] = "publishValues") = t
  OBVIOUS
<1>2. Current' = temp'[t]
  BY <1>1 DEF Current
<1>3. QED
  BY <1>2 DEF Registry, Reg, RegistryIn

(* A step that leaves the table, and who is publishing one, as they are.   *)
LEMMA SameTable ==
  ASSUME IInv, UNCHANGED <<keys, values>>,
         \A u \in Everyone : pc'[u] = "publishValues"
            <=> pc[u] = "publishValues",
         \A u \in Everyone : pc[u] = "publishValues" => temp'[u] = temp[u]
  PROVE  Registry' = Registry
<1>1. CASE \A t \in Everyone : pc[t] # "publishValues"
  BY <1>1, NoPublisher, NoPublisherNext
<1>2. CASE \E t \in Everyone : pc[t] = "publishValues"
  <2>1. PICK t \in Everyone : pc[t] = "publishValues"
    BY <1>2
  <2>2. \A u \in Everyone : pc[u] = "publishValues" => u = t
    BY <2>1, Alone DEF IInv, InMap
  <2>3. Registry = Reg(temp[t].keys, temp[t].values)
    BY <2>1, <2>2, Publisher
  <2>4. Registry' = Reg(temp'[t].keys, temp'[t].values)
    BY <2>1, <2>2, PublisherNext
  <2>5. QED
    BY <2>1, <2>3, <2>4
<1>3. QED
  BY <1>1, <1>2

(* Inside the map, with nobody publishing before or after the step.        *)
LEMMA InsideRegistry ==
  ASSUME IInv, NEW t \in Everyone, pc[t] \in InMap \ {"publishValues"},
         NEW label, label # "publishValues", pc' = [pc EXCEPT ![t] = label]
  PROVE  Registry = Reg(keys, values) /\ Registry' = Reg(keys', values')
<1>1. \A u \in Everyone : pc[u] # "publishValues"
  BY Alone DEF IInv, InMap
<1>2. \A u \in Everyone : pc'[u] # "publishValues"
  BY <1>1 DEF IInv, ExclusionInv
<1>3. QED
  BY <1>1, <1>2, NoPublisher, NoPublisherNext

(* The steps that a lookup or an add takes before or after the one at      *)
(* which it takes effect, and all of rehash, leave the registry alone.     *)
LEMMA QuietSteps ==
  ASSUME IInv, NEW t \in Everyone,
         \/ EnterMonitor(t) \/ ReadValue(t) \/ CompareKey(t)
         \/ LeaveGetService(t) \/ Grow(t) \/ GrowFails(t) \/ RehashSlot(t)
         \/ LeavePut(t) \/ Dispatch(t)
  PROVE  Registry' = Registry
<1>1. PICK label \in Labels : /\ pc' = [pc EXCEPT ![t] = label]
                              /\ label # "publishValues"
  <2>1. CASE RehashSlot(t)
    <3>1. pc' = [pc EXCEPT ![t] = "rehash"]
      BY <2>1 DEF RehashSlot, IInv, ExclusionInv
    <3>2. QED
      BY <3>1 DEF Labels, InMap
  <2>2. CASE ReadValue(t)
    <3>1. PICK label \in {"probed", "compare"} : pc' = [pc EXCEPT ![t] = label]
      BY <2>2 DEF ReadValue
    <3>2. QED
      BY <3>1 DEF Labels, InMap
  <2>3. CASE CompareKey(t)
    <3>1. PICK label \in {"probed", "probe"} : pc' = [pc EXCEPT ![t] = label]
      BY <2>3 DEF CompareKey
    <3>2. QED
      BY <3>1 DEF Labels, InMap
  <2>4. CASE EnterMonitor(t) \/ LeaveGetService(t) \/ Grow(t) \/ LeavePut(t)
             \/ Dispatch(t)
    <3>1. PICK label \in {"probe", "dispatch", "rehash", "idle"} :
             pc' = [pc EXCEPT ![t] = label]
      BY <2>4 DEF EnterMonitor, EnterMap, LeaveGetService, Grow, LeavePut,
         Dispatch
    <3>2. QED
      BY <3>1 DEF Labels, InMap
  <2>5. CASE GrowFails(t)
    <3>1. PICK label \in {"failed", "leave"} : pc' = [pc EXCEPT ![t] = label]
      BY <2>5 DEF GrowFails
    <3>2. QED
      BY <3>1 DEF Labels, InMap
  <2>6. QED
    BY <2>1, <2>2, <2>3, <2>4, <2>5
<1>2. pc[t] # "publishValues" /\ UNCHANGED <<keys, values>>
  BY DEF EnterMonitor, ReadValue, CompareKey, LeaveGetService, Grow,
     GrowFails, RehashSlot, LeavePut, Dispatch, table
<1>3. \A u \in Everyone : u # t => temp'[u] = temp[u]
  BY DEF EnterMonitor, ReadValue, CompareKey, LeaveGetService, Grow,
     GrowFails, RehashSlot, LeavePut, Dispatch, IInv, ShapeInv
<1>4. \A u \in Everyone : pc'[u] = "publishValues"
         <=> pc[u] = "publishValues"
  BY <1>1, <1>2 DEF IInv, ExclusionInv
<1>5. QED
  BY <1>2, <1>3, <1>4, SameTable

(* So does the key of a new entry, ...                                     *)
LEMMA PutKeyQuiet ==
  ASSUME IInv, NEW t \in Everyone, PutKey(t)
  PROVE  Registry' = Registry
<1> DEFINE n == Length(values)
           i == index[t]
           id == pending[t].id
<1>1. /\ pc[t] = "probed" /\ pc[t] \in InMap \ {"publishValues"}
      /\ pc[t] \in Probing
      /\ pc' = [pc EXCEPT ![t] = "store"]
      /\ values' = values
  BY DEF PutKey, InMap, Probing
<1>2. Sound(keys, values, n)
  BY <1>1, SoundNow
<1>3. i \in Slots(n) /\ seen[t] = values[i] /\ id \in Ids
  BY <1>1, WalkNow, ProbingCall DEF WalkOk
<1>4. Reg(keys, values) = Reg(keys', values)
  <2>1. CASE seen[t] = NULL
    <3>1. keys' = [keys EXCEPT ![i] = id] /\ values[i] = NULL
      BY <1>3, <2>1 DEF PutKey
    <3>2. Sound(keys', values, n)
      BY <1>2, <1>3, <3>1, KeyInHole
    <3>3. \A j \in Slots(n) : values[j] # NULL => keys'[j] = keys[j]
      BY <1>2, <3>1 DEF Sound
    <3>4. QED
      BY <1>2, <3>2, <3>3, RegistryKeyInHole
  <2>2. CASE seen[t] # NULL
    BY <2>2 DEF PutKey
  <2>3. QED
    BY <2>1, <2>2
<1>5. QED
  BY <1>1, <1>4, InsideRegistry

(* ... and the two writes that publish what rehash has built.              *)
LEMMA PublishQuiet ==
  ASSUME IInv, NEW t \in Everyone, PublishKeys(t) \/ PublishValues(t)
  PROVE  Registry' = Registry
<1> DEFINE n == Length(values)
           T == temp[t]
<1>1. CASE PublishKeys(t)
  <2>1. /\ pc[t] = "rehash" /\ pc[t] \in InMap \ {"publishValues"}
        /\ index[t] = capacity[t] /\ temp' = temp
        /\ pc' = [pc EXCEPT ![t] = "publishValues"]
    BY <1>1 DEF PublishKeys, InMap
  <2>2. Sound(keys, values, n)
    BY <2>1, SoundNow
  <2>3. Copied(keys, values, n, T.keys, T.values, n)
    BY <2>1, WalkNow DEF WalkOk
  <2>4. \A u \in Everyone : pc[u] # "publishValues"
    BY <2>1, Alone DEF IInv, InMap
  <2>5. /\ pc'[t] = "publishValues"
        /\ \A u \in Everyone : pc'[u] = "publishValues" => u = t
    BY <2>1, <2>4 DEF IInv, ExclusionInv
  <2>6. Registry = Reg(keys, values) /\ Registry' = Reg(T.keys, T.values)
    BY <2>1, <2>4, <2>5, NoPublisher, PublisherNext
  <2>7. QED
    BY <2>2, <2>3, <2>6, RegistryCopied
<1>2. CASE PublishValues(t)
  <2>1. /\ pc[t] = "publishValues" /\ pc[t] \in InMap
        /\ values' = T.values /\ keys' = keys
        /\ pc' = [pc EXCEPT ![t] = "leave"]
    BY <1>2 DEF PublishValues, InMap
  <2>2. T.keys = keys
    BY <2>1, WalkNow DEF WalkOk
  <2>3. \A u \in Everyone : pc[u] = "publishValues" => u = t
    BY <2>1, Alone DEF IInv, InMap
  <2>4. \A u \in Everyone : pc'[u] # "publishValues"
    BY <2>1, <2>3 DEF IInv, ExclusionInv
  <2>5. Registry = Reg(T.keys, T.values) /\ Registry' = Reg(keys', values')
    BY <2>1, <2>3, <2>4, Publisher, NoPublisherNext
  <2>6. QED
    BY <2>1, <2>2, <2>5
<1>3. QED
  BY <1>1, <1>2

(* The store of the value is where an add takes effect, ...                *)
LEMMA PutValueRegisters ==
  ASSUME IInv, NEW t \in Everyone, PutValue(t)
  PROVE  /\ pending[t].op = "add"
         /\ pending[t].service \in Services
         /\ pending[t].id = IdOf[pending[t].service]
         /\ Registry' = [Registry EXCEPT ![pending[t].id] = pending[t].service]
<1> DEFINE n == Length(values)
           i == index[t]
           label == IF size > resizeThreshold THEN "grow" ELSE "leave"
<1>1. /\ pc[t] = "store" /\ pc[t] \in InMap \ {"publishValues"}
      /\ pc[t] \in Probing /\ label # "publishValues"
      /\ values' = [values EXCEPT ![i] = pending[t].service]
      /\ pc' = [pc EXCEPT ![t] = label] /\ keys' = keys
  BY DEF PutValue, Stored, InMap, Probing
<1>2. Sound(keys, values, n)
  BY <1>1, SoundNow
<1>3. /\ i \in Slots(n) /\ ClearTo(keys, values, n, pending[t].id, i)
      /\ keys[i] = pending[t].id
  BY <1>1, WalkNow DEF WalkOk
<1>4. PICK s \in Services : pending[t] = AddCall(s)
  BY <1>1, WalkNow, CallFacts DEF CallOk
<1>5. pending[t].op = "add" /\ pending[t].id = IdOf[s] /\ pending[t].service = s
  BY <1>4, CallFacts
<1>6. Sound(keys, values', n)
  BY <1>1, <1>2, <1>3, <1>5, StoreKeepsSound
<1>7. values'[i] = s /\ \A j \in Slots(n) : j # i => values'[j] = values[j]
  BY <1>1, <1>2, <1>3, <1>5 DEF Sound
<1>8. Reg(keys, values') = [Reg(keys, values) EXCEPT ![IdOf[s]] = s]
  BY <1>2, <1>3, <1>5, <1>6, <1>7, RegistryStored
<1>9. Registry = Reg(keys, values) /\ Registry' = Reg(keys, values')
  <2> HIDE DEF label
  <2>1. QED
    BY <1>1, InsideRegistry
<1>10. QED
  BY <1>5, <1>8, <1>9

(* ... and a lookup has seen what the registry holds when it leaves.       *)
LEMMA LookupReads ==
  ASSUME IInv, NEW t \in Everyone, LeaveGetService(t)
  PROVE  /\ pending[t].op = "find" /\ pending[t].id \in Ids
         /\ seen[t] = Registry[pending[t].id]
<1>1. /\ pc[t] = "probed" /\ pc[t] \in InMap \ {"publishValues"}
      /\ pc[t] \in Probing /\ pending[t].op = "find"
  BY DEF LeaveGetService, InMap, Probing
<1>2. Sound(keys, values, Length(values)) /\ pending[t].id \in Ids
  BY <1>1, SoundNow, ProbingCall
<1>3. /\ index[t] \in Slots(Length(values)) /\ seen[t] = values[index[t]]
      /\ ClearTo(keys, values, Length(values), pending[t].id, index[t])
      /\ values[index[t]] = NULL \/ keys[index[t]] = pending[t].id
  BY <1>1, WalkNow DEF WalkOk
<1>4. Reg(keys, values)[pending[t].id] = values[index[t]]
  BY <1>2, <1>3, RegistryRead
<1>5. \A u \in Everyone : pc[u] # "publishValues"
  BY <1>1, Alone DEF IInv, InMap
<1>6. QED
  BY <1>1, <1>2, <1>3, <1>4, <1>5, NoPublisher

(* Making a call touches neither the table nor who publishes one.          *)
LEMMA CallsQuiet ==
  ASSUME IInv, ConstructorPuts \/ \E t \in Threads : Call(t)
  PROVE  Registry' = Registry
<1>1. PICK t \in Everyone, label \in {"idle", "enter", "probe"} :
         pc[t] = "idle" /\ pc' = [pc EXCEPT ![t] = label]
  <2>1. CASE ConstructorPuts
    BY <2>1 DEF ConstructorPuts, EnterMap, Everyone
  <2>2. ASSUME NEW t \in Threads, Call(t)
        PROVE  pc[t] = "idle" /\ \E label \in {"idle", "enter", "probe"} :
                                    pc' = [pc EXCEPT ![t] = label]
    BY <2>2 DEF Call, AddService, Request, RequestUndecodable, CanCall,
       IInv, ExclusionInv, Everyone
  <2>3. QED
    BY <2>1, <2>2 DEF Everyone
<1>2. UNCHANGED <<keys, values, temp>>
  BY DEF ConstructorPuts, Call, AddService, Request, RequestUndecodable, table
<1>3. \A u \in Everyone : pc'[u] = "publishValues"
         <=> pc[u] = "publishValues"
  BY <1>1 DEF IInv, ExclusionInv
<1>4. QED
  BY <1>2, <1>3, SameTable
-----------------------------------------------------------------------------
(* ServiceRegistry, step by step.                                          *)
LEMMA InitRefines == Init => Abstract!Init
<1> SUFFICES ASSUME Init PROVE Abstract!Init
  OBVIOUS
<1> DEFINE n == MinCapacity
<1>1. n \in Nat \ {0}
  BY RSocketAssumption
<1>2. Sound(keys, values, n) /\ \A i \in Slots(n) : values[i] = NULL
  BY <1>1, EmptySound DEF Init, EmptyTable
<1>3. Registry = Reg(keys, values)
  BY NoPublisher DEF Init
<1>4. \A id \in Ids : Registry[id] = NULL
  BY <1>2, <1>3, RegistryMiss
<1>5. Registry = [id \in Ids |-> Registry[id]]
  BY <1>3, RegistryIsFunction
<1>6. Registry = [id \in Ids |-> NULL]
  BY <1>4, <1>5
<1>7. QED
  BY <1>6 DEF Init, Abstract!Init, NoCall, Abstract!NoCall

(* A thread's call is announced, ...                                       *)
LEMMA InvokeRefines ==
  ASSUME IInv, NEW t \in Everyone, pc[t] = "idle", UNCHANGED found,
         Registry' = Registry,
         \/ \E s \in Services : pending' = [pending EXCEPT ![t] = AddCall(s)]
         \/ \E id \in Ids : pending' = [pending EXCEPT ![t] = FindCall(id)]
  PROVE  Abstract!Next
<1>1. pending[t] = NoCall
  BY WalkNow DEF CallOk, Probing
<1>2. Abstract!Invoke(t)
  BY <1>1 DEF Abstract!Invoke, NoCall, AddCall, FindCall, Abstract!NoCall,
     Abstract!AddCall, Abstract!FindCall
<1>3. QED
  BY <1>2 DEF Abstract!Next

(* A call is an invocation of the registry.                                *)
LEMMA CallRefines ==
  ASSUME IInv, NEW t \in Threads, Call(t)
  PROVE  Abstract!Next \/ UNCHANGED Abstract!vars
<1>1. Registry' = Registry /\ t \in Everyone
  BY CallsQuiet DEF Everyone
<1>2. pc[t] = "idle" /\ UNCHANGED found
  BY DEF Call, AddService, Request, RequestUndecodable, CanCall
<1>3. CASE RequestUndecodable(t)
  BY <1>1, <1>3 DEF RequestUndecodable, Abstract!vars
<1>4. CASE AddService(t) \/ Request(t)
  BY <1>1, <1>2, <1>4, InvokeRefines DEF AddService, Request
<1>5. QED
  BY <1>3, <1>4 DEF Call

(* A put of the constructor is an invocation of the registry.              *)
LEMMA ConstructorPutsRefines ==
  ASSUME IInv, ConstructorPuts
  PROVE  Abstract!Next
<1>1. Registry' = Registry /\ Constructor \in Everyone
  BY CallsQuiet DEF Everyone
<1>2. Head(toConstruct) \in Services
  BY DEF ConstructorPuts, IInv, ExclusionInv
<1>3. QED
  BY <1>1, <1>2, InvokeRefines DEF ConstructorPuts

(* ... takes effect at one step, and all other steps stutter.              *)
LEMMA StepRefines ==
  ASSUME IInv, NEW t \in Everyone, Step(t)
  PROVE  Abstract!Next \/ UNCHANGED Abstract!vars
<1>1. CASE PutValue(t)
  <2>1. /\ pending[t].op = "add"
        /\ Registry' = [Registry EXCEPT ![pending[t].id] = pending[t].service]
    BY <1>1, PutValueRegisters
  <2>2. pending' = [pending EXCEPT ![t] = NoCall] /\ UNCHANGED found
    BY <1>1 DEF PutValue
  <2>3. Abstract!Add(t)
    BY <2>1, <2>2 DEF Abstract!Add, NoCall, Abstract!NoCall
  <2>4. QED
    BY <2>3 DEF Abstract!Next
<1>2. CASE LeaveGetService(t)
  <2>1. pending[t].op = "find" /\ seen[t] = Registry[pending[t].id]
    BY <1>2, LookupReads
  <2>2. Registry' = Registry
    BY <1>2, QuietSteps
  <2>3. /\ found' = [found EXCEPT ![t] = seen[t]]
        /\ pending' = [pending EXCEPT ![t] = NoCall]
    BY <1>2 DEF LeaveGetService, FoundBy
  <2>4. Abstract!Find(t)
    BY <2>1, <2>2, <2>3 DEF Abstract!Find, NoCall, Abstract!NoCall
  <2>5. QED
    BY <2>4 DEF Abstract!Next
<1>3. CASE \/ EnterMonitor(t) \/ ReadValue(t) \/ CompareKey(t) \/ PutKey(t)
           \/ Grow(t) \/ GrowFails(t) \/ RehashSlot(t) \/ PublishKeys(t)
           \/ PublishValues(t) \/ LeavePut(t) \/ Dispatch(t)
  <2>1. Registry' = Registry
    BY <1>3, QuietSteps, PutKeyQuiet, PublishQuiet
  <2>2. UNCHANGED <<pending, found>>
    BY <1>3 DEF EnterMonitor, ReadValue, CompareKey, PutKey, Grow, GrowFails,
       RehashSlot, PublishKeys, PublishValues, LeavePut, Dispatch
  <2>3. QED
    BY <2>1, <2>2 DEF Abstract!vars
<1>4. QED
  BY <1>1, <1>2, <1>3 DEF Step

(* A step is a step of the registry, or none.                              *)
LEMMA NextRefines ==
  IInv /\ [Next]_vars => Abstract!Next \/ UNCHANGED Abstract!vars
<1> SUFFICES ASSUME IInv, [Next]_vars
             PROVE  Abstract!Next \/ UNCHANGED Abstract!vars
  OBVIOUS
<1>1. CASE UNCHANGED vars
  <2>1. Registry' = Registry
    BY <1>1, SameTable DEF vars, table, locals
  <2>2. QED
    BY <1>1, <2>1 DEF vars, locals, Abstract!vars
<1>2. QED
  BY <1>1, CallRefines, ConstructorPutsRefines, StepRefines DEF Next

(* RequestHandlingRSocket's calls are linearizable: addService and         *)
(* getService, read by read and write by write, implement the registry in  *)
(* which an add or a lookup is one step between its call and its return.   *)
THEOREM ImplementsServiceRegistry == Spec => Refinement
<1>1. IInv /\ [Next]_vars => [Abstract!Next]_(Abstract!vars)
  BY NextRefines
<1>2. QED
  BY <1>1, InitRefines, AlwaysIInv, PTL DEF Spec, Refinement, Abstract!Spec
-----------------------------------------------------------------------------
(* The constructor's services: each is registered, or it is still to be    *)
(* put, or its put is running.                                             *)
InitialIds == {IdOf[InitialServices[i]] : i \in DOMAIN InitialServices}

RegisteredInv ==
  \A id \in InitialIds :
    \/ Registry[id] # NULL
    \/ \E j \in DOMAIN toConstruct : IdOf[toConstruct[j]] = id
    \/ pending[Constructor].id = id

(* What the end of a request says: it was handed to a service registered   *)
(* under its ids, and was not refused if the constructor had one for them. *)
AnswerOk(label, f, o, r) ==
  /\ label = "dispatch" /\ f # NULL => IdOf[f] = r.id
  /\ label = "dispatch" /\ f = NULL => r.id \notin InitialIds
  /\ o.kind = "handled" => IdOf[o.service] = r.id
  /\ o = NotFound => r.id \notin InitialIds

AnswerInv ==
  \A t \in Threads : AnswerOk(pc[t], found[t], outcome[t], request[t])

(* The constructor's services have ids.                                    *)
LEMMA InitialIdsAreIds == InitialIds \subseteq Ids
<1>1. \A i \in DOMAIN InitialServices : InitialServices[i] \in Services
  BY RSocketAssumption
<1>2. QED
  BY <1>1, RSocketAssumption DEF InitialIds

(* No step takes a registration away.                                      *)
LEMMA RegisteredStays ==
  ASSUME IInv, [Next]_vars, NEW id \in Ids, Registry[id] # NULL
  PROVE  Registry'[id] # NULL
<1>1. ASSUME NEW t \in Everyone, PutValue(t) PROVE Registry'[id] # NULL
  <2>1. /\ pending[t].service \in Services
        /\ Registry' = [Registry EXCEPT ![pending[t].id] = pending[t].service]
    BY <1>1, PutValueRegisters
  <2>2. DOMAIN Registry = Ids
    BY DEF Registry, RegistryIn
  <2>3. pending[t].service # NULL
    BY <2>1, RSocketAssumption
  <2>4. QED
    BY <2>1, <2>2, <2>3
<1>2. CASE UNCHANGED vars
  <2>1. Registry' = Registry
    BY <1>2, SameTable DEF vars, table, locals
  <2>2. QED
    BY <2>1
<1>3. ASSUME NEW t \in Everyone, Step(t), ~PutValue(t)
      PROVE  Registry'[id] # NULL
  BY <1>3, QuietSteps, PutKeyQuiet, PublishQuiet DEF Step
<1>4. QED
  BY <1>1, <1>2, <1>3, CallsQuiet DEF Next

(* Initially all of them are still to be put.                              *)
LEMMA InitRegistered == Init => RegisteredInv
BY DEF Init, RegisteredInv, InitialIds

(* From the constructor's list into its put, from there into the table,    *)
(* and there they stay.                                                    *)
LEMMA NextRegistered == IInv /\ RegisteredInv /\ [Next]_vars => RegisteredInv'
<1> SUFFICES ASSUME IInv, RegisteredInv, [Next]_vars, NEW id \in InitialIds
             PROVE  \/ Registry'[id] # NULL
                    \/ \E j \in DOMAIN toConstruct' : IdOf[toConstruct'[j]] = id
                    \/ pending'[Constructor].id = id
  BY DEF RegisteredInv
<1>1. id \in Ids /\ id # NULL
  BY InitialIdsAreIds, RSocketAssumption
<1>2. CASE Registry[id] # NULL
  BY <1>1, <1>2, RegisteredStays
<1>3. CASE ConstructorPuts
  <2>1. /\ toConstruct # <<>> /\ toConstruct \in Seq(Services)
        /\ toConstruct' = Tail(toConstruct) /\ pc[Constructor] = "idle"
        /\ pending' = [pending EXCEPT ![Constructor] = AddCall(Head(toConstruct))]
    BY <1>3 DEF ConstructorPuts, IInv, ExclusionInv
  <2>2. pending'[Constructor].id = IdOf[Head(toConstruct)]
    BY <2>1 DEF IInv, ExclusionInv, Everyone, AddCall
  <2>3. pending[Constructor].id = NULL
    BY <2>1, WalkNow, CallFacts DEF CallOk, Probing, Everyone
  <2>4. CASE \E j \in DOMAIN toConstruct : IdOf[toConstruct[j]] = id
    <3>1. PICK j \in DOMAIN toConstruct : IdOf[toConstruct[j]] = id
      BY <2>4
    <3>2. CASE j = 1
      BY <2>1, <2>2, <3>1, <3>2
    <3>3. CASE j # 1
      <4>1. /\ j - 1 \in DOMAIN Tail(toConstruct)
            /\ Tail(toConstruct)[j - 1] = toConstruct[j]
        BY <2>1, <3>1, <3>3
      <4>2. QED
        BY <2>1, <3>1, <4>1
    <3>4. QED
      BY <3>2, <3>3
  <2>5. QED
    BY <1>1, <1>2, <2>3, <2>4 DEF RegisteredInv
<1>4. CASE \E t \in Threads : Call(t)
  <2>1. PICK t \in Threads : Call(t)
    BY <1>4
  <2>2. toConstruct' = toConstruct
    BY <2>1 DEF Call, AddService, Request, RequestUndecodable
  <2>3. pending'[Constructor] = pending[Constructor]
    BY <2>1, RSocketAssumption DEF Call, AddService, Request,
       RequestUndecodable, IInv, ExclusionInv, Everyone
  <2>4. QED
    BY <1>2, <2>2, <2>3 DEF RegisteredInv
<1>5. ASSUME NEW t \in Everyone, Step(t)
      PROVE  \/ Registry'[id] # NULL
             \/ \E j \in DOMAIN toConstruct' : IdOf[toConstruct'[j]] = id
             \/ pending'[Constructor].id = id
  <2>1. toConstruct' = toConstruct
    BY <1>5 DEF Step, EnterMonitor, ReadValue, CompareKey, LeaveGetService,
       PutKey, PutValue, Grow, GrowFails, RehashSlot, PublishKeys,
       PublishValues, LeavePut, Dispatch
  <2>2. CASE PutValue(t) /\ pending[t].id = id
    <3>1. /\ pending[t].service \in Services
          /\ Registry' = [Registry EXCEPT ![id] = pending[t].service]
      BY <2>2, PutValueRegisters
    <3>2. DOMAIN Registry = Ids
      BY DEF Registry, RegistryIn
    <3>3. pending[t].service # NULL
      BY <3>1, RSocketAssumption
    <3>4. QED
      BY <1>1, <3>1, <3>2, <3>3
  <2>3. CASE PutValue(t) /\ pending[t].id # id
    <3>1. pending' = [pending EXCEPT ![t] = NoCall]
      BY <2>3 DEF PutValue
    <3>2. pending[Constructor].id = id => pending'[Constructor].id = id
      BY <2>3, <3>1 DEF IInv, ExclusionInv, Everyone
    <3>3. QED
      BY <1>2, <2>1, <3>2 DEF RegisteredInv
  <2>4. CASE ~PutValue(t)
    <3>1. pending'[Constructor] = pending[Constructor]
      <4>1. CASE LeaveGetService(t)
        BY <4>1 DEF LeaveGetService, IInv, ExclusionInv, Everyone
      <4>2. CASE ~LeaveGetService(t)
        BY <1>5, <2>4, <4>2 DEF Step, EnterMonitor, ReadValue, CompareKey,
           PutKey, Grow, GrowFails, RehashSlot, PublishKeys, PublishValues,
           LeavePut, Dispatch
      <4>3. QED
        BY <4>1, <4>2
    <3>2. QED
      BY <1>2, <2>1, <3>1 DEF RegisteredInv
  <2>5. QED
    BY <2>2, <2>3, <2>4
<1>6. CASE UNCHANGED vars
  <2>1. UNCHANGED <<toConstruct, pending>>
    BY <1>6 DEF vars, locals
  <2>2. QED
    BY <1>2, <2>1 DEF RegisteredInv
<1>7. QED
  BY <1>3, <1>4, <1>5, <1>6 DEF Next

(* What a lookup returns.                                                  *)
LEMMA LookupAnswer ==
  ASSUME IInv, RegisteredInv, NEW t \in Threads, LeaveGetService(t)
  PROVE  /\ seen[t] # NULL => IdOf[seen[t]] = request[t].id
         /\ seen[t] = NULL => request[t].id \notin InitialIds
<1>1. /\ t \in Everyone /\ pc[t] = "probed"
      /\ pc[t] \in InMap \ {"publishValues"}
  BY DEF LeaveGetService, InMap, Everyone
<1>2. request[t].id = pending[t].id /\ seen[t] = Registry[pending[t].id]
  BY <1>1, LookupReads, WalkNow DEF CallOk
<1>3. ASSUME seen[t] # NULL PROVE IdOf[seen[t]] = request[t].id
  <2>1. Sound(keys, values, Length(values))
    BY <1>1, SoundNow
  <2>2. /\ index[t] \in Slots(Length(values)) /\ seen[t] = values[index[t]]
        /\ values[index[t]] = NULL \/ keys[index[t]] = pending[t].id
    BY <1>1, WalkNow DEF WalkOk, Probing
  <2>3. QED
    BY <1>2, <1>3, <2>1, <2>2 DEF Sound
<1>4. ASSUME seen[t] = NULL, request[t].id \in InitialIds PROVE FALSE
  <2>1. toConstruct = <<>> /\ pc[Constructor] = "idle"
    BY <1>1 DEF IInv, ExclusionInv, Constructed
  <2>2. pending[Constructor].id = NULL
    BY <2>1, WalkNow, CallFacts DEF CallOk, Probing, Everyone
  <2>3. request[t].id # NULL
    BY <1>4, InitialIdsAreIds, RSocketAssumption
  <2>4. ~ \E i \in DOMAIN toConstruct :
             IdOf[toConstruct[i]] = request[t].id
    BY <2>1
  <2>5. Registry[request[t].id] = NULL
    BY <1>2, <1>4
  <2>6. QED
    BY <1>4, <2>2, <2>3, <2>4, <2>5 DEF RegisteredInv
<1>5. QED
  BY <1>3, <1>4

(* A step by which one thread may change what is said of it alone.         *)
LEMMA AnswerStep ==
  ASSUME IInv, AnswerInv, NEW t \in Everyone,
         NEW label, pc' = [pc EXCEPT ![t] = label],
         \A u \in Everyone : u # t =>
            /\ found'[u] = found[u] /\ request'[u] = request[u]
            /\ outcome'[u] = outcome[u],
         AnswerOk(label, found'[t], outcome'[t], request'[t])
  PROVE  AnswerInv'
<1>1. pc'[t] = label /\ \A u \in Everyone : u # t => pc'[u] = pc[u]
  BY DEF IInv, ExclusionInv
<1>2. ASSUME NEW u \in Threads
      PROVE  AnswerOk(pc'[u], found'[u], outcome'[u], request'[u])
  <2>1. CASE u = t
    BY <1>1, <2>1
  <2>2. CASE u # t
    BY <1>1, <2>2 DEF AnswerInv, Everyone
  <2>3. QED
    BY <2>1, <2>2
<1>3. QED
  BY <1>2 DEF AnswerInv

(* What is said of the ends of requests stays true.                        *)
LEMMA NextAnswer ==
  IInv /\ RegisteredInv /\ AnswerInv /\ [Next]_vars => AnswerInv'
<1> SUFFICES ASSUME IInv, RegisteredInv, AnswerInv, [Next]_vars
             PROVE  AnswerInv'
  OBVIOUS
<1>1. ASSUME NEW t \in Everyone, LeaveGetService(t) PROVE AnswerInv'
  <2>1. /\ pc[t] = "probed" /\ pending[t].op = "find"
        /\ pc' = [pc EXCEPT ![t] = "dispatch"]
        /\ found' = [found EXCEPT ![t] = seen[t]]
        /\ UNCHANGED <<request, outcome>>
    BY <1>1 DEF LeaveGetService, FoundBy
  <2>2. t \in Threads
    BY <2>1 DEF IInv, ExclusionInv, Everyone
  <2>3. AnswerOk(pc[t], found[t], outcome[t], request[t])
    BY <2>2 DEF AnswerInv
  <2>4. found'[t] = seen[t] /\ \A u \in Everyone : u # t => found'[u] = found[u]
    BY <2>1 DEF IInv, ShapeInv
  <2>5. AnswerOk("dispatch", found'[t], outcome[t], request[t])
    BY <1>1, <2>2, <2>3, <2>4, LookupAnswer DEF AnswerOk
  <2>6. QED
    BY <2>1, <2>4, <2>5, AnswerStep
<1>2. ASSUME NEW t \in Everyone, Dispatch(t) PROVE AnswerInv'
  <2>1. /\ pc[t] = "dispatch" /\ pc' = [pc EXCEPT ![t] = "idle"]
        /\ UNCHANGED <<request, found>>
    BY <1>2 DEF Dispatch
  <2>2. t \in Threads
    BY <2>1 DEF IInv, ExclusionInv, InMap, Everyone
  <2>3. AnswerOk("dispatch", found[t], outcome[t], request[t])
    BY <2>1, <2>2 DEF AnswerInv
  <2>4. PICK o : /\ outcome' = [outcome EXCEPT ![t] = o]
                 /\ \/ found[t] = NULL /\ o = NotFound
                    \/ found[t] # NULL /\ o = Handled(found[t])
                    \/ o = Failure(request[t].interaction)
    BY <1>2 DEF Dispatch
  <2>5. /\ outcome'[t] = o
        /\ \A u \in Everyone : u # t => outcome'[u] = outcome[u]
    BY <2>4 DEF IInv, ShapeInv
  <2>6. AnswerOk("idle", found[t], o, request[t])
    BY <2>3, <2>4 DEF AnswerOk, NotFound, Handled, Failure
  <2>7. QED
    BY <2>1, <2>5, <2>6, AnswerStep
<1>3. ASSUME NEW t \in Threads, Call(t) PROVE AnswerInv'
  <2>1. t \in Everyone /\ pc[t] = "idle" /\ UNCHANGED found
    BY <1>3 DEF Call, AddService, Request, RequestUndecodable, CanCall, Everyone
  <2>2. PICK label \in {"idle", "enter"} : pc' = [pc EXCEPT ![t] = label]
    BY <1>3, <2>1 DEF Call, AddService, Request, RequestUndecodable, IInv,
       ExclusionInv
  <2>3. PICK o, r :
           /\ o \in {None} \cup {Failure(i) : i \in Interactions}
           /\ outcome' = [outcome EXCEPT ![t] = o]
           /\ request' = [request EXCEPT ![t] = r]
    BY <1>3 DEF Call, AddService, Request, RequestUndecodable
  <2>4. /\ outcome'[t] = o
        /\ \A u \in Everyone : u # t =>
              outcome'[u] = outcome[u] /\ request'[u] = request[u]
    <3>1. /\ outcome'[t] = o
          /\ \A u \in Everyone : u # t => outcome'[u] = outcome[u]
      BY <2>1, <2>3 DEF IInv, ShapeInv
    <3>2. \A u \in Everyone : u # t => request'[u] = request[u]
      BY <2>1, <2>3 DEF IInv, ShapeInv
    <3>3. QED
      BY <3>1, <3>2
  <2>5. o # NotFound /\ o.kind # "handled"
    BY <2>3 DEF None, Failure, NotFound
  <2>6. AnswerOk(label, found'[t], outcome'[t], request'[t])
    BY <2>2, <2>4, <2>5 DEF AnswerOk
  <2>7. QED
    BY <2>1, <2>2, <2>4, <2>6, AnswerStep
<1>4. ASSUME NEW t \in Everyone, GrowFails(t) PROVE AnswerInv'
  <2>1. PICK label \in {"failed", "leave"} : pc' = [pc EXCEPT ![t] = label]
    BY <1>4 DEF GrowFails
  <2>2. /\ UNCHANGED <<request, found>>
        /\ outcome' = [outcome EXCEPT ![t] = NotGrown]
    BY <1>4 DEF GrowFails
  <2>3. /\ outcome'[t] = NotGrown
        /\ \A u \in Everyone : u # t => outcome'[u] = outcome[u]
    BY <2>2 DEF IInv, ShapeInv
  <2>4. AnswerOk(label, found[t], NotGrown, request[t])
    BY DEF AnswerOk, NotGrown, NotFound
  <2>5. QED
    BY <2>1, <2>2, <2>3, <2>4, AnswerStep
<1>5. ASSUME NEW t \in Everyone, Step(t), ~LeaveGetService(t), ~Dispatch(t),
             ~GrowFails(t)
      PROVE  AnswerInv'
  <2>1. /\ UNCHANGED <<request, found, outcome>>
        /\ \A u \in Threads : pc'[u] = "dispatch" => pc[u] = "dispatch"
    BY <1>5 DEF Step, EnterMonitor, EnterMap, ReadValue, CompareKey, PutKey,
       PutValue, Grow, RehashSlot, PublishKeys, PublishValues, LeavePut,
       IInv, ExclusionInv, Everyone
  <2>2. QED
    BY <2>1 DEF AnswerInv, AnswerOk
<1>6. CASE ConstructorPuts
  <2>1. /\ UNCHANGED <<request, found, outcome>>
        /\ \A u \in Threads : pc'[u] = "dispatch" => pc[u] = "dispatch"
    BY <1>6 DEF ConstructorPuts, EnterMap, IInv, ExclusionInv, Everyone
  <2>2. QED
    BY <2>1 DEF AnswerInv, AnswerOk
<1>7. CASE UNCHANGED vars
  BY <1>7 DEF vars, locals, AnswerInv
<1>8. QED
  BY <1>1, <1>2, <1>3, <1>4, <1>5, <1>6, <1>7 DEF Next, Step

(* Nothing is said before the first request.                               *)
LEMMA InitAnswer == Init => AnswerInv
BY DEF Init, AnswerInv, AnswerOk, None, NotFound, Everyone

(* It holds in every state.                                                *)
LEMMA AlwaysAnswer == Spec => []AnswerInv
<1>1. Spec => [](IInv /\ RegisteredInv)
  BY InitKeeps, NextKeeps, InitRegistered, NextRegistered, PTL DEF Spec
<1>2. QED
  BY <1>1, InitAnswer, NextAnswer, PTL DEF Spec

(* fireAndForget, requestResponse, requestStream and requestChannel hand a *)
(* request to a service whose own namespace and service ids are those in   *)
(* its metadata.                                                           *)
THEOREM AlwaysDispatchedByIds == Spec => []DispatchedByIds
<1>1. AnswerInv => DispatchedByIds
  BY DEF AnswerInv, AnswerOk, DispatchedByIds
<1>2. QED
  BY <1>1, AlwaysAnswer, PTL

(* A request for a service that the constructor was given is never refused *)
(* with ServiceNotFound, whatever other threads add.                       *)
THEOREM AlwaysInitialServicesFound == Spec => []InitialServicesFound
<1>1. AnswerInv => InitialServicesFound
  BY DEF AnswerInv, AnswerOk, InitialServicesFound, InitialIds
<1>2. QED
  BY <1>1, AlwaysAnswer, PTL
-----------------------------------------------------------------------------
(* Room.  put and get stop at an empty slot or at their key.  While put    *)
(* has its entry to store, and until the larger table is published, the    *)
(* table may be full; that nobody probes it then is the monitor's work.    *)
Growing == {"store", "grow", "rehash", "publishValues"}

(* What a thread's label says of the room in the table it fills.           *)
RoomIn(label, i, T, V, n, s, threshold) ==
  /\ label = "store" => V[i] # NULL \/ Cardinality(Used(V, n)) < s
  /\ label = "rehash" =>
        /\ Cardinality(Used(T.values, 2 * n)) <= Cardinality(Used(V, i))
        /\ threshold < 2 * n
  /\ label = "publishValues" =>
        /\ Cardinality(Used(T.values, 2 * n)) <= s
        /\ threshold < 2 * n

(* size counts at least the entries; it leaves a slot free unless someone  *)
(* is at work to make the table larger, and so does the threshold.         *)
RoomOf(labels, V, n, s, threshold) ==
  /\ Cardinality(Used(V, n)) <= s /\ s <= n
  /\ (\A t \in Everyone : labels[t] \notin Growing) => s < n
  /\ (\A t \in Everyone : labels[t] \notin {"rehash", "publishValues"}) =>
        threshold < n

RoomInv ==
  /\ RoomOf(pc, values, Length(values), size, resizeThreshold)
  /\ \A t \in Everyone : RoomIn(pc[t], index[t], temp[t], values,
                                Length(values), size, resizeThreshold)

(* A thread that probes has an empty slot before it, and has not passed    *)
(* one.                                                                    *)
EmptySlotAhead ==
  \A t \in Everyone :
    pc[t] \in {"probe", "compare"} =>
      \E e \in Slots(Length(values)) :
        /\ values[e] = NULL
        /\ ~OnPath(e, pending[t].id, index[t], Length(values))

(* The threshold of a table leaves a slot free in it.                      *)
LEMMA ThresholdBelow ==
  ASSUME NEW n \in Nat \ {0}
  PROVE  ThresholdFor(n) \in Nat /\ ThresholdFor(n) < n
<1>1. LoadNum \in Nat /\ LoadDen \in Nat \ {0} /\ LoadNum < LoadDen
  BY RSocketAssumption
<1>2. n * LoadNum \in Nat
  BY <1>1
<1>3. n * LoadNum < n * LoadDen
  BY <1>1, SMTT(60)
<1>4. /\ ThresholdFor(n) \in Nat
      /\ LoadDen * ThresholdFor(n) <= n * LoadNum
  BY <1>1, <1>2 DEF ThresholdFor
<1>5. ASSUME n <= ThresholdFor(n) PROVE FALSE
  <2>1. \A a, b, c \in Nat : a <= b => c * a <= c * b
    BY SMTT(60)
  <2>2. LoadDen * n <= LoadDen * ThresholdFor(n)
    BY <1>1, <1>4, <1>5, <2>1
  <2>3. LoadDen * n = n * LoadDen
    BY <1>1
  <2>4. QED
    BY <1>1, <1>2, <1>3, <1>4, <2>2, <2>3
<1>6. QED
  BY <1>4, <1>5

(* Whoever is not in the map is not at work on the table.                  *)
LEMMA RoomOutside ==
  ASSUME NEW label, label \notin Growing, NEW i, NEW T, NEW V, NEW n, NEW s,
         NEW threshold
  PROVE  RoomIn(label, i, T, V, n, s, threshold)
BY DEF RoomIn, Growing

(* So the thread in the map has to answer for itself only.                 *)
LEMMA RoomStep ==
  ASSUME IInv, NEW t \in Everyone, pc[t] \in InMap,
         NEW label, pc' = [pc EXCEPT ![t] = label],
         NEW n \in Nat, Length(values') = n,
         Cardinality(Used(values', n)) <= size', size' <= n,
         label \notin Growing => size' < n,
         label \notin {"rehash", "publishValues"} => resizeThreshold' < n,
         RoomIn(label, index'[t], temp'[t], values', n, size', resizeThreshold')
  PROVE  RoomInv'
<1>1. pc'[t] = label
  BY DEF IInv, ExclusionInv
<1>2. ASSUME NEW u \in Everyone, u # t
      PROVE  pc'[u] \notin Growing
  <2>1. pc'[u] = pc[u]
    BY <1>2 DEF IInv, ExclusionInv
  <2>2. pc[u] \notin InMap
    BY <1>2, Alone DEF IInv
  <2>3. QED
    BY <2>1, <2>2 DEF Growing, InMap
<1>3. RoomOf(pc', values', Length(values'), size', resizeThreshold')
  BY <1>1, <1>2 DEF RoomOf, Growing
<1>4. ASSUME NEW u \in Everyone
      PROVE  RoomIn(pc'[u], index'[u], temp'[u], values', Length(values'),
                    size', resizeThreshold')
  <2>1. CASE u = t
    BY <1>1, <2>1
  <2>2. CASE u # t
    BY <1>2, <2>2, RoomOutside
  <2>3. QED
    BY <2>1, <2>2
<1>5. QED
  BY <1>3, <1>4 DEF RoomInv

(* A thread that leaves the table alone, and is not at work to make it     *)
(* larger before or after its step, keeps room.                            *)
LEMMA RoomQuiet ==
  ASSUME IInv, RoomInv, NEW t \in Everyone, UNCHANGED <<table, temp>>,
         NEW label, pc' = [pc EXCEPT ![t] = label],
         pc[t] \notin Growing, label \notin Growing,
         \A u \in Everyone : u # t => index'[u] = index[u]
  PROVE  RoomInv'
<1>1. /\ pc'[t] = label
      /\ \A u \in Everyone : u # t => pc'[u] = pc[u]
  BY DEF IInv, ExclusionInv
<1>2. \A u \in Everyone : pc'[u] \in Growing <=> pc[u] \in Growing
  BY <1>1
<1>3. \A u \in Everyone : pc'[u] \in {"rehash", "publishValues"}
                            <=> pc[u] \in {"rehash", "publishValues"}
  BY <1>1 DEF Growing
<1>4. RoomOf(pc', values', Length(values'), size', resizeThreshold')
  BY <1>2, <1>3 DEF RoomInv, RoomOf, table
<1>5. ASSUME NEW u \in Everyone
      PROVE  RoomIn(pc'[u], index'[u], temp'[u], values', Length(values'),
                    size', resizeThreshold')
  <2>1. CASE u = t
    BY <1>1, <2>1, RoomOutside
  <2>2. CASE u # t
    BY <1>1, <2>2 DEF RoomInv, table
  <2>3. QED
    BY <2>1, <2>2
<1>6. QED
  BY <1>4, <1>5 DEF RoomInv

(* What RoomInv says of the thread that takes a step in the map.           *)
LEMMA RoomNow ==
  ASSUME IInv, RoomInv, NEW t \in Everyone, pc[t] \in InMap
  PROVE  /\ Length(values) \in Nat \ {0}
         /\ size \in Nat /\ resizeThreshold \in Nat
         /\ Cardinality(Used(values, Length(values))) \in Nat
         /\ Cardinality(Used(values, Length(values))) <= size
         /\ size <= Length(values)
         /\ pc[t] \notin Growing => size < Length(values)
         /\ pc[t] \notin {"rehash", "publishValues"} =>
              resizeThreshold < Length(values)
         /\ RoomIn(pc[t], index[t], temp[t], values, Length(values), size,
                   resizeThreshold)
<1>1. Length(values) \in Nat \ {0} /\ size \in Nat /\ resizeThreshold \in Nat
  BY DEF IInv, MapInv, TableOk, ShapeInv
<1>2. \A u \in Everyone : u # t => pc[u] \notin InMap
  BY Alone DEF IInv
<1>3. pc[t] \notin Growing => \A u \in Everyone : pc[u] \notin Growing
  BY <1>2 DEF Growing, InMap
<1>4. pc[t] \notin {"rehash", "publishValues"} =>
        \A u \in Everyone : pc[u] \notin {"rehash", "publishValues"}
  BY <1>2 DEF InMap
<1>5. Cardinality(Used(values, Length(values))) \in Nat
  BY <1>1, UsedFinite
<1>6. QED
  BY <1>1, <1>3, <1>4, <1>5 DEF RoomInv, RoomOf

(* A new key is counted before it is stored.                               *)
LEMMA PutKeyRoom ==
  ASSUME IInv, RoomInv, NEW t \in Everyone, PutKey(t)
  PROVE  RoomInv'
<1> DEFINE n == Length(values)
           c == Cardinality(Used(values, n))
<1>1. /\ pc[t] = "probed" /\ pc[t] \in InMap /\ pc[t] \notin Growing
      /\ pc' = [pc EXCEPT ![t] = "store"]
      /\ size' = IF seen[t] = NULL THEN size + 1 ELSE size
      /\ UNCHANGED <<values, resizeThreshold, index, temp>>
  BY DEF PutKey, InMap, Growing
<1>2. /\ n \in Nat \ {0} /\ size \in Nat /\ c \in Nat /\ c <= size /\ size < n
      /\ resizeThreshold < n
  BY <1>1, RoomNow DEF Growing
<1>3. seen[t] = values[index[t]]
  BY <1>1, WalkNow DEF WalkOk
<1>4. /\ c <= size' /\ size' <= n
      /\ values[index[t]] # NULL \/ c < size'
  BY <1>1, <1>2, <1>3
<1>5. RoomIn("store", index[t], temp[t], values, n, size', resizeThreshold)
  BY <1>4 DEF RoomIn
<1> HIDE DEF n
<1>6. Length(values') = n /\ n \in Nat
  BY <1>1, <1>2 DEF n
<1>7. RoomIn("store", index'[t], temp'[t], values', n, size', resizeThreshold')
  BY <1>1, <1>5
<1>8. Cardinality(Used(values', n)) <= size' /\ size' <= n /\ resizeThreshold' < n
  BY <1>1, <1>2, <1>4
<1>9. "store" \in Growing /\ "store" \notin {"rehash", "publishValues"}
  BY DEF Growing
<1>10. QED
  BY <1>1, <1>6, <1>7, <1>8, <1>9, RoomStep

(* Storing uses a slot more only where it was counted.                     *)
LEMMA PutValueRoom ==
  ASSUME IInv, RoomInv, NEW t \in Everyone, PutValue(t)
  PROVE  RoomInv'
<1> DEFINE n == Length(values)
           c == Cardinality(Used(values, n))
           i == index[t]
           label == IF size > resizeThreshold THEN "grow" ELSE "leave"
<1>1. /\ pc[t] = "store" /\ pc[t] \in InMap
      /\ pc' = [pc EXCEPT ![t] = label]
      /\ values' = [values EXCEPT ![i] = pending[t].service]
      /\ UNCHANGED <<size, resizeThreshold, index, temp>>
  BY DEF PutValue, Stored, InMap
<1>2. /\ n \in Nat \ {0} /\ size \in Nat /\ c \in Nat /\ c <= size /\ size <= n
      /\ resizeThreshold \in Nat /\ resizeThreshold < n
      /\ values[i] # NULL \/ c < size
  BY <1>1, RoomNow DEF RoomIn
<1>3. /\ i \in Slots(n)
      /\ values \in [Slots(n) -> Services \cup {NULL}]
  BY <1>1, WalkNow, SoundNow DEF WalkOk, Probing, Sound
<1>4. pending[t].service \in Services /\ pending[t].service # NULL
  <2>1. pending[t].op = "add"
    BY <1>1, WalkNow DEF CallOk
  <2>2. \E s \in Services : pending[t] = AddCall(s)
    BY <1>1, <2>1, ProbingCall, CallFacts DEF Probing, FindCall
  <2>3. QED
    BY <2>2, CallFacts, RSocketAssumption
<1>5. /\ values' \in [Slots(n) -> Services \cup {NULL}]
      /\ values'[i] # NULL
      /\ \A j \in Slots(n) : j # i => values'[j] = values[j]
  BY <1>1, <1>3, <1>4
<1> HIDE DEF n, i
<1>6. Length(values') = n
  BY <1>2, <1>5, LengthOf
<1>7. Cardinality(Used(values', n)) <= size
  <2>1. CASE values[i] = NULL
    <3>1. Cardinality(Used(values', n)) = c + 1
      BY <1>2, <1>3, <1>5, <2>1, OneMoreUsed
    <3>2. QED
      BY <1>2, <2>1, <3>1
  <2>2. CASE values[i] # NULL
    <3>1. Used(values', n) = Used(values, n)
      BY <1>3, <1>5, <2>2 DEF Used
    <3>2. QED
      BY <1>2, <3>1
  <2>3. QED
    BY <2>1, <2>2
<1>8. /\ label \in {"grow", "leave"}
      /\ label \notin Growing => size < n
  BY <1>2 DEF Growing
<1> HIDE DEF label
<1>9. RoomIn(label, index'[t], temp'[t], values', n, size', resizeThreshold')
  BY <1>8 DEF RoomIn
<1>10. QED
  BY <1>1, <1>2, <1>6, <1>7, <1>8, <1>9, RoomStep

(* rehash begins with an empty table of twice as many slots.               *)
LEMMA GrowRoom ==
  ASSUME IInv, RoomInv, NEW t \in Everyone, Grow(t)
  PROVE  RoomInv'
<1> DEFINE n == Length(values)
           T == EmptyTable(2 * n)
<1>1. /\ pc[t] = "grow" /\ pc[t] \in InMap
      /\ resizeThreshold' = ThresholdFor(2 * n)
      /\ temp' = [temp EXCEPT ![t] = T]
      /\ index' = [index EXCEPT ![t] = 0]
      /\ pc' = [pc EXCEPT ![t] = "rehash"]
      /\ UNCHANGED <<values, size>>
  BY DEF Grow, InMap
<1>2. /\ n \in Nat \ {0} /\ 2 * n \in Nat \ {0} /\ size \in Nat /\ size <= n
      /\ Cardinality(Used(values, n)) <= size
  BY <1>1, RoomNow
<1>3. ThresholdFor(2 * n) < 2 * n
  BY <1>2, ThresholdBelow
<1>4. Cardinality(Used(T.values, 2 * n)) = 0
  BY <1>2, EmptySound
<1>5. Cardinality(Used(values, 0)) \in Nat
  BY UsedFinite
<1>6. index'[t] = 0 /\ temp'[t] = T
  BY <1>1 DEF IInv, ShapeInv
<1>7. RoomIn("rehash", 0, T, values, n, size, ThresholdFor(2 * n))
  BY <1>3, <1>4, <1>5 DEF RoomIn
<1> HIDE DEF n, T
<1>8. Length(values') = n /\ n \in Nat
  BY <1>1, <1>2 DEF n
<1>9. RoomIn("rehash", index'[t], temp'[t], values', n, size', resizeThreshold')
  BY <1>1, <1>6, <1>7
<1>10. "rehash" \in Growing
  BY DEF Growing
<1>11. Cardinality(Used(values', n)) <= size' /\ size' <= n
  BY <1>1, <1>2
<1>12. QED
  BY <1>1, <1>8, <1>9, <1>10, <1>11, RoomStep

(* The slots below the next one.                                           *)
LEMMA UsedBelow ==
  ASSUME NEW i \in Nat, NEW V
  PROVE  Cardinality(Used(V, i + 1)) =
           Cardinality(Used(V, i)) + (IF V[i] = NULL THEN 0 ELSE 1)
<1>1. IsFiniteSet(Used(V, i)) /\ Cardinality(Used(V, i)) \in Nat
  BY UsedFinite
<1>2. Slots(i + 1) = Slots(i) \cup {i} /\ i \notin Slots(i)
  BY DEF Slots
<1>3. CASE V[i] = NULL
  <2>1. Used(V, i + 1) = Used(V, i)
    BY <1>2, <1>3 DEF Used
  <2>2. QED
    BY <1>1, <1>3, <2>1
<1>4. CASE V[i] # NULL
  <2>1. Used(V, i + 1) = Used(V, i) \cup {i} /\ i \notin Used(V, i)
    BY <1>2, <1>4 DEF Used
  <2>2. QED
    BY <1>1, <1>4, <2>1, FS_AddElement
<1>5. QED
  BY <1>3, <1>4

(* Copying a slot uses one slot more only for an entry.                    *)
LEMMA RehashSlotRoom ==
  ASSUME IInv, RoomInv, NEW t \in Everyone, RehashSlot(t)
  PROVE  RoomInv'
<1> DEFINE n == Length(values)
           i == index[t]
           T == temp[t]
           m == Length(T.values)
           free == FirstFree(T.values, Home(keys[i], m), m)
           W == temp'[t].values
<1>1. /\ pc[t] = "rehash" /\ pc[t] \in InMap \ {"publishValues"}
      /\ i < capacity[t]
      /\ temp' = IF values[i] = NULL THEN temp
                 ELSE [temp EXCEPT ![t] =
                         [keys   |-> [T.keys EXCEPT ![free] = keys[i]],
                          values |-> [T.values EXCEPT ![free] = values[i]]]]
      /\ index' = [index EXCEPT ![t] = i + 1]
      /\ UNCHANGED <<keys, values, size, resizeThreshold, pc>>
  BY DEF RehashSlot, InMap, table
<1>2. /\ n \in Nat \ {0} /\ 2 * n \in Nat \ {0} /\ size \in Nat /\ size <= n
      /\ Cardinality(Used(values, n)) <= size
      /\ Cardinality(Used(T.values, 2 * n)) <= Cardinality(Used(values, i))
      /\ resizeThreshold < 2 * n
  BY <1>1, RoomNow DEF RoomIn
<1>3. /\ capacity[t] = n /\ i \in 0 .. n
      /\ Copied(keys, values, n, T.keys, T.values, i)
  BY <1>1, WalkNow DEF WalkOk
<1>4. /\ i \in Slots(n) /\ i \in Nat
      /\ m = 2 * n /\ T.values \in [Slots(2 * n) -> Services \cup {NULL}]
  <2>1. T.values \in [Slots(2 * n) -> Services \cup {NULL}]
    BY <1>3 DEF Copied, Sound
  <2>2. m = 2 * n
    BY <1>2, <2>1, LengthOf
  <2>3. QED
    BY <1>1, <1>2, <1>3, <2>1, <2>2 DEF Slots
<1>5. /\ Cardinality(Used(T.values, 2 * n)) \in Nat
      /\ Cardinality(Used(values, i)) \in Nat
  BY <1>2, <1>4, UsedFinite
<1>6. Cardinality(Used(W, 2 * n)) <= Cardinality(Used(values, i + 1))
  <2>1. CASE values[i] = NULL
    <3>1. W = T.values
      BY <1>1, <2>1
    <3>2. QED
      BY <1>2, <1>4, <1>5, <2>1, <3>1, UsedBelow
  <2>2. CASE values[i] # NULL
    <3>1. Sound(keys, values, n)
      BY <1>1, SoundNow
    <3>2. Home(keys[i], 2 * n) \in Slots(2 * n)
      BY <1>2, <1>4, <2>2, <3>1, HomeIsSlot DEF Sound
    <3>3. \E j \in Slots(2 * n) : T.values[j] = NULL
      <4>1. Cardinality(Used(T.values, 2 * n)) < 2 * n
        BY <1>2, <1>3, <1>4, <1>5 DEF Copied, Slots
      <4>2. QED
        BY <1>2, <4>1, HasHole
    <3>4. free \in Slots(2 * n) /\ T.values[free] = NULL
      BY <1>2, <1>4, <3>2, <3>3, FirstFreeIs
    <3> DEFINE T2 == [keys   |-> [T.keys EXCEPT ![free] = keys[i]],
                      values |-> [T.values EXCEPT ![free] = values[i]]]
    <3>5. temp'[t] = T2
      BY <1>1, <2>2 DEF IInv, ShapeInv
    <3>6. W = [T.values EXCEPT ![free] = values[i]]
      BY <3>5
    <3> HIDE DEF W, free
    <3>7. /\ W[free] # NULL
          /\ \A j \in Slots(2 * n) : j # free => W[j] = T.values[j]
      BY <1>4, <2>2, <3>4, <3>6
    <3>8. Cardinality(Used(W, 2 * n)) = Cardinality(Used(T.values, 2 * n)) + 1
      BY <1>2, <3>4, <3>7, OneMoreUsed
    <3>9. QED
      BY <1>2, <1>4, <1>5, <2>2, <3>8, UsedBelow
  <2>3. QED
    BY <2>1, <2>2
<1>7. index'[t] = i + 1
  BY <1>1 DEF IInv, ShapeInv
<1>8. RoomIn("rehash", index'[t], temp'[t], values', n, size', resizeThreshold')
  BY <1>1, <1>2, <1>6, <1>7 DEF RoomIn
<1> HIDE DEF n
<1>9. Length(values') = n /\ n \in Nat
  BY <1>1, <1>2 DEF n
<1>10. "rehash" \in Growing /\ pc' = [pc EXCEPT ![t] = "rehash"]
  BY <1>1 DEF Growing, IInv, ExclusionInv
<1>11. Cardinality(Used(values', n)) <= size' /\ size' <= n
  BY <1>1, <1>2
<1>12. QED
  BY <1>1, <1>8, <1>9, <1>10, <1>11, RoomStep

(* Publishing the keys: every slot has been copied.                        *)
LEMMA PublishKeysRoom ==
  ASSUME IInv, RoomInv, NEW t \in Everyone, PublishKeys(t)
  PROVE  RoomInv'
<1> DEFINE n == Length(values)
<1>1. /\ pc[t] = "rehash" /\ pc[t] \in InMap /\ index[t] = capacity[t]
      /\ pc' = [pc EXCEPT ![t] = "publishValues"]
      /\ UNCHANGED <<values, size, resizeThreshold, temp>>
  BY DEF PublishKeys, InMap
<1>2. /\ n \in Nat \ {0} /\ size \in Nat /\ size <= n
      /\ Cardinality(Used(values, n)) \in Nat
      /\ Cardinality(Used(values, n)) <= size
      /\ Cardinality(Used(temp[t].values, 2 * n))
           <= Cardinality(Used(values, index[t]))
      /\ resizeThreshold < 2 * n
  BY <1>1, RoomNow DEF RoomIn
<1>3. index[t] = n
  BY <1>1, WalkNow DEF WalkOk
<1>4. Cardinality(Used(temp[t].values, 2 * n)) \in Nat
  <2>1. 2 * n \in Nat
    BY <1>2
  <2>2. QED
    BY <2>1, UsedFinite
<1>5. Cardinality(Used(temp[t].values, 2 * n)) <= size
  BY <1>2, <1>3, <1>4
<1>6. RoomIn("publishValues", index'[t], temp'[t], values', n, size',
             resizeThreshold')
  BY <1>1, <1>2, <1>5 DEF RoomIn
<1> HIDE DEF n
<1>7. Length(values') = n /\ n \in Nat
  BY <1>1, <1>2 DEF n
<1>8. "publishValues" \in Growing
  BY DEF Growing
<1>9. Cardinality(Used(values', n)) <= size' /\ size' <= n
  BY <1>1, <1>2
<1>10. QED
  BY <1>1, <1>6, <1>7, <1>8, <1>9, RoomStep

(* Publishing the values: the new table has room.                          *)
LEMMA PublishValuesRoom ==
  ASSUME IInv, RoomInv, NEW t \in Everyone, PublishValues(t)
  PROVE  RoomInv'
<1> DEFINE n == Length(values)
           m == 2 * n
<1>1. /\ pc[t] = "publishValues" /\ pc[t] \in InMap
      /\ values' = temp[t].values
      /\ pc' = [pc EXCEPT ![t] = "leave"]
      /\ UNCHANGED <<size, resizeThreshold>>
  BY DEF PublishValues, InMap
<1>2. /\ n \in Nat \ {0} /\ size \in Nat /\ size <= n
      /\ Cardinality(Used(temp[t].values, m)) <= size
      /\ resizeThreshold < m
  BY <1>1, RoomNow DEF RoomIn
<1>3. temp[t].values \in [Slots(m) -> Services \cup {NULL}]
  BY <1>1, WalkNow DEF WalkOk, Sound
<1>4. m \in Nat /\ size < m
  BY <1>2
<1>5. Length(values') = m
  BY <1>1, <1>3, <1>4, LengthOf
<1>6. "leave" \notin Growing
  BY DEF Growing
<1>7. RoomIn("leave", index'[t], temp'[t], values', m, size', resizeThreshold')
  BY <1>6, RoomOutside
<1> HIDE DEF m
<1>8. Cardinality(Used(values', m)) <= size' /\ size' < m /\ resizeThreshold' < m
  BY <1>1, <1>2, <1>4
<1>9. size' <= m
  BY <1>1, <1>2, <1>4
<1>10. QED
  BY <1>1, <1>4, <1>5, <1>7, <1>8, <1>9, RoomStep

(* The smallest table is empty.                                            *)
LEMMA InitRoom == Init => RoomInv
<1> SUFFICES ASSUME Init PROVE RoomInv
  OBVIOUS
<1> DEFINE n == MinCapacity
<1>1. /\ values = EmptyTable(n).values /\ size = 0
      /\ resizeThreshold = ThresholdFor(n)
      /\ \A t \in Everyone : pc[t] = "idle"
  BY DEF Init
<1>2. n \in Nat \ {0}
  BY RSocketAssumption
<1>3. values \in [Slots(n) -> {NULL}]
  BY <1>1 DEF EmptyTable
<1>4. Length(values) = n
  BY <1>2, <1>3, LengthOf
<1>5. Cardinality(Used(values, n)) = 0
  BY <1>1, <1>2, EmptySound
<1>6. ThresholdFor(n) < n
  BY <1>2, ThresholdBelow
<1>7. "idle" \notin Growing
  BY DEF Growing
<1> HIDE DEF n
<1>8. RoomOf(pc, values, n, size, resizeThreshold)
  BY <1>1, <1>2, <1>5, <1>6 DEF RoomOf
<1>9. QED
  BY <1>1, <1>4, <1>7, <1>8, RoomOutside DEF RoomInv

(* Every step keeps room, as long as no growth fails: one that does may    *)
(* leave the threshold of the larger table over the table it has.          *)
LEMMA NextRoom ==
  IInv /\ RoomInv /\ ~GrowthFailed' /\ [Next]_vars => RoomInv'
<1> SUFFICES ASSUME IInv, RoomInv, ~GrowthFailed', [Next]_vars PROVE RoomInv'
  OBVIOUS
<1> USE DEF Growing
<1>1. CASE ConstructorPuts
  <2>1. /\ Constructor \in Everyone /\ pc[Constructor] = "idle"
        /\ pc' = [pc EXCEPT ![Constructor] = "probe"]
        /\ UNCHANGED <<table, temp>>
        /\ \A u \in Everyone : u # Constructor => index'[u] = index[u]
    BY <1>1 DEF ConstructorPuts, EnterMap, Everyone, IInv, ShapeInv
  <2>2. QED
    BY <2>1, RoomQuiet
<1>2. ASSUME NEW t \in Threads, Call(t) PROVE RoomInv'
  <2>1. t \in Everyone /\ pc[t] = "idle"
    BY <1>2 DEF Call, AddService, Request, RequestUndecodable, CanCall, Everyone
  <2>2. CASE AddService(t) \/ Request(t)
    <3>1. /\ pc' = [pc EXCEPT ![t] = "enter"]
          /\ UNCHANGED <<table, temp, index>>
      BY <2>2 DEF AddService, Request
    <3>2. QED
      BY <2>1, <3>1, RoomQuiet
  <2>3. CASE RequestUndecodable(t)
    <3>1. /\ pc' = [pc EXCEPT ![t] = "idle"]
          /\ UNCHANGED <<table, temp, index>>
      BY <2>1, <2>3 DEF RequestUndecodable, IInv, ExclusionInv
    <3>2. QED
      BY <2>1, <3>1, RoomQuiet
  <2>4. QED
    BY <1>2, <2>2, <2>3 DEF Call
<1>3. ASSUME NEW t \in Everyone, Step(t) PROVE RoomInv'
  <2>1. CASE EnterMonitor(t)
    <3>1. /\ pc[t] = "enter" /\ pc' = [pc EXCEPT ![t] = "probe"]
          /\ UNCHANGED <<table, temp>>
          /\ \A u \in Everyone : u # t => index'[u] = index[u]
      BY <2>1 DEF EnterMonitor, EnterMap, IInv, ShapeInv
    <3>2. QED
      BY <3>1, RoomQuiet
  <2>2. CASE ReadValue(t)
    <3> DEFINE label == IF values[index[t]] = NULL THEN "probed" ELSE "compare"
    <3>1. /\ pc[t] = "probe" /\ pc' = [pc EXCEPT ![t] = label]
          /\ label \notin Growing
          /\ UNCHANGED <<table, temp, index>>
      BY <2>2 DEF ReadValue
    <3> HIDE DEF label
    <3>2. QED
      BY <3>1, RoomQuiet
  <2>3. CASE CompareKey(t)
    <3>1. /\ pc[t] = "compare" /\ UNCHANGED <<table, temp>>
          /\ \A u \in Everyone : u # t => index'[u] = index[u]
          /\ \/ pc' = [pc EXCEPT ![t] = "probed"]
             \/ pc' = [pc EXCEPT ![t] = "probe"]
      BY <2>3 DEF CompareKey, IInv, ShapeInv
    <3>2. QED
      BY <3>1, RoomQuiet
  <2>4. CASE LeaveGetService(t)
    <3>1. /\ pc[t] = "probed" /\ pc' = [pc EXCEPT ![t] = "dispatch"]
          /\ UNCHANGED <<table, temp, index>>
      BY <2>4 DEF LeaveGetService
    <3>2. QED
      BY <3>1, RoomQuiet
  <2>5. CASE LeavePut(t)
    <3>1. /\ pc[t] = "leave" /\ pc' = [pc EXCEPT ![t] = "idle"]
          /\ UNCHANGED <<table, temp>>
          /\ \A u \in Everyone : u # t => index'[u] = index[u]
      BY <2>5 DEF LeavePut, IInv, ShapeInv
    <3>2. QED
      BY <3>1, RoomQuiet
  <2>6. CASE Dispatch(t)
    <3>1. /\ pc[t] = "dispatch" /\ pc' = [pc EXCEPT ![t] = "idle"]
          /\ UNCHANGED <<table, temp>>
          /\ \A u \in Everyone : u # t => index'[u] = index[u]
      BY <2>6 DEF Dispatch, IInv, ShapeInv
    <3>2. QED
      BY <3>1, RoomQuiet
  <2>7. CASE GrowFails(t)
    <3>1. outcome'[t] = NotGrown
      BY <2>7 DEF GrowFails, IInv, ShapeInv
    <3>2. QED
      BY <3>1 DEF GrowthFailed
  <2>8. QED
    BY <1>3, <2>1, <2>2, <2>3, <2>4, <2>5, <2>6, <2>7, PutKeyRoom, PutValueRoom,
       GrowRoom, RehashSlotRoom, PublishKeysRoom, PublishValuesRoom DEF Step
<1>4. CASE UNCHANGED vars
  <2>1. UNCHANGED <<pc, values, size, resizeThreshold, index, temp>>
    BY <1>4 DEF vars, table, locals
  <2>2. QED
    BY <2>1 DEF RoomInv
<1>5. QED
  BY <1>1, <1>2, <1>3, <1>4 DEF Next

(* An entry is never the last thing a probe can meet.                      *)
LEMMA RoomAhead == IInv /\ RoomInv => EmptySlotAhead
<1> SUFFICES ASSUME IInv, RoomInv, NEW t \in Everyone,
                    pc[t] \in {"probe", "compare"}
             PROVE  \E e \in Slots(Length(values)) :
                      /\ values[e] = NULL
                      /\ ~OnPath(e, pending[t].id, index[t], Length(values))
  BY DEF EmptySlotAhead
<1> DEFINE n == Length(values)
<1>1. pc[t] \in InMap /\ pc[t] \in Probing /\ pc[t] \notin Growing
  BY DEF InMap, Probing, Growing
<1>2. /\ n \in Nat \ {0} /\ size < n /\ size \in Nat
      /\ Cardinality(Used(values, n)) \in Nat
      /\ Cardinality(Used(values, n)) <= size
  BY <1>1, RoomNow
<1>3. PICK e \in Slots(n) : values[e] = NULL
  BY <1>2, HasHole
<1>4. ClearTo(keys, values, n, pending[t].id, index[t])
  BY <1>1, WalkNow DEF WalkOk
<1>5. QED
  BY <1>3, <1>4 DEF ClearTo

(* There is room in every state until a growth fails.                      *)
LEMMA AlwaysRoomInv == Spec /\ []~GrowthFailed => []RoomInv
BY AlwaysIInv, InitRoom, NextRoom, PTL DEF Spec

(* put's and get's loops, `while (null != values[index])`, have an empty   *)
(* slot to stop at, and it lies before them, in every behaviour in which   *)
(* no growth of the table fails.  (After a failed one there may be none:   *)
(* LookupsReturn.)                                                         *)
THEOREM AlwaysEmptySlotAhead == Spec /\ []~GrowthFailed => []EmptySlotAhead
BY AlwaysIInv, AlwaysRoomInv, RoomAhead, PTL

(* How many slots a probe for id has passed.                               *)
Passed(id, i, n) == Distance(Home(id, n), i, n)

(* A turn of the loop.                                                     *)
Turn(t) == pc[t] = "compare" /\ pc'[t] = "probe"

ProbeAdvances ==
  \A t \in Everyone :
    Turn(t) => Passed(pending'[t].id, index'[t], Length(values'))
                 = Passed(pending[t].id, index[t], Length(values)) + 1

(* Only CompareKey ends one.                                               *)
LEMMA TurnIsCompare ==
  ASSUME IInv, [Next]_vars, NEW t \in Everyone, Turn(t)
  PROVE  CompareKey(t) /\ keys[index[t]] # pending[t].id
<1>1. pc[t] = "compare" /\ pc'[t] = "probe"
  BY DEF Turn
<1>2. ASSUME NEW u \in Everyone, pc[u] # "compare",
             \A w \in Everyone : w # u => pc'[w] = pc[w]
      PROVE  FALSE
  BY <1>1, <1>2
<1>3. ~UNCHANGED pc
  BY <1>1
<1>4. ~UNCHANGED vars
  BY <1>3 DEF vars, locals
<1>5. ~ConstructorPuts
  <2> SUFFICES ASSUME ConstructorPuts PROVE FALSE
    OBVIOUS
  <2>1. /\ pc[Constructor] = "idle" /\ Constructor \in Everyone
        /\ \A w \in Everyone : w # Constructor => pc'[w] = pc[w]
    BY DEF ConstructorPuts, EnterMap, Everyone, IInv, ExclusionInv
  <2>2. QED
    BY <1>2, <2>1
<1>6. ASSUME NEW u \in Threads, Call(u) PROVE FALSE
  <2>1. u \in Everyone /\ pc[u] = "idle"
    BY <1>6 DEF Call, AddService, Request, RequestUndecodable, CanCall, Everyone
  <2>2. \A w \in Everyone : w # u => pc'[w] = pc[w]
    BY <1>6 DEF Call, AddService, Request, RequestUndecodable, IInv, ExclusionInv
  <2>3. QED
    BY <1>2, <2>1, <2>2
<1>7. ASSUME NEW u \in Everyone, Step(u)
      PROVE  CompareKey(u)
  <2> SUFFICES ASSUME ~CompareKey(u) PROVE FALSE
    OBVIOUS
  <2>1. pc[u] # "compare"
    BY <1>7 DEF Step, EnterMonitor, ReadValue, LeaveGetService, PutKey,
       PutValue, Grow, GrowFails, RehashSlot, PublishKeys, PublishValues,
       LeavePut, Dispatch
  <2>2. \A w \in Everyone : w # u => pc'[w] = pc[w]
    <3>1. CASE EnterMonitor(u)
      BY <3>1 DEF EnterMonitor, EnterMap, IInv, ExclusionInv
    <3>2. CASE ~EnterMonitor(u)
      BY <1>7, <3>2 DEF Step, ReadValue, LeaveGetService, PutKey, PutValue,
         Grow, GrowFails, RehashSlot, PublishKeys, PublishValues, LeavePut,
         Dispatch, IInv, ExclusionInv
    <3>3. QED
      BY <3>1, <3>2
  <2>3. QED
    BY <1>2, <2>1, <2>2
<1>8. PICK u \in Everyone : CompareKey(u)
  BY <1>4, <1>5, <1>6, <1>7 DEF Next
<1>9. u = t /\ keys[index[u]] # pending[u].id
  BY <1>1, <1>8 DEF CompareKey, IInv, ExclusionInv
<1>10. QED
  BY <1>8, <1>9

(* Unless a slot is the last one before home, the next is one farther.     *)
LEMMA DistanceNext ==
  ASSUME NEW n \in Nat \ {0}, NEW h \in Slots(n), NEW i \in Slots(n),
         NEW e \in Slots(n), Distance(h, i, n) < Distance(h, e, n)
  PROVE  Distance(h, NextSlot(i, n), n) = Distance(h, i, n) + 1
BY DEF Distance, Slots, NextSlot

(* Each turn of the loop takes a probe one slot farther from the home of   *)
(* its key, never around the table again, unless a growth has failed: a    *)
(* probe of a table of n slots ends within n turns.                        *)
THEOREM AlwaysProbeAdvances ==
  Spec /\ []~GrowthFailed => [][ProbeAdvances]_vars
<1>1. ASSUME IInv, RoomInv, [Next]_vars PROVE ProbeAdvances
  <2> SUFFICES ASSUME NEW t \in Everyone, Turn(t)
               PROVE  Passed(pending'[t].id, index'[t], Length(values'))
                        = Passed(pending[t].id, index[t], Length(values)) + 1
    BY DEF ProbeAdvances
  <2> DEFINE n == Length(values)
             i == index[t]
             id == pending[t].id
             h == Home(id, n)
  <2>1. CompareKey(t) /\ keys[i] # id
    BY <1>1, TurnIsCompare
  <2>2. /\ pc[t] = "compare" /\ pc[t] \in InMap /\ pc[t] \in Probing
        /\ UNCHANGED <<values, pending>>
        /\ index' = [index EXCEPT ![t] = NextSlot(@, capacity[t])]
    BY <2>1 DEF CompareKey, table, InMap, Probing
  <2>3. capacity[t] = n /\ i \in Slots(n) /\ values[i] # NULL
    BY <1>1, <2>2, WalkNow DEF WalkOk
  <2>4. n \in Nat \ {0} /\ id \in Ids
    BY <1>1, <2>2, RoomNow, ProbingCall
  <2>5. index'[t] = NextSlot(i, n)
    BY <1>1, <2>2, <2>3 DEF IInv, ShapeInv
  <2>6. PICK e \in Slots(n) : values[e] = NULL /\ ~OnPath(e, id, i, n)
    BY <1>1, <2>2, RoomAhead DEF EmptySlotAhead
  <2>7. h \in Slots(n)
    BY <2>4, HomeIsSlot
  <2>8. ~(Distance(h, e, n) < Distance(h, i, n))
    BY <2>6 DEF OnPath
  <2>9. e # i
    BY <2>3, <2>6
  <2> HIDE DEF n, i, h
  <2>10. /\ Distance(h, e, n) # Distance(h, i, n)
         /\ Distance(h, e, n) \in Nat /\ Distance(h, i, n) \in Nat
    BY <2>3, <2>4, <2>6, <2>7, <2>9, DistanceInjective, DistanceRange
  <2>11. Distance(h, i, n) < Distance(h, e, n)
    BY <2>8, <2>10
  <2>12. Distance(h, NextSlot(i, n), n) = Distance(h, i, n) + 1
    BY <2>3, <2>4, <2>6, <2>7, <2>11, DistanceNext
  <2>13. QED
    BY <2>2, <2>5, <2>12 DEF Passed, n, i, h
<1>2. QED
  BY <1>1, AlwaysIInv, AlwaysRoomInv, PTL DEF Spec
=============================================================================
