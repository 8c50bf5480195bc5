----------------------- MODULE RequestHandlingRSocket -----------------------
(***************************************************************************)
(* rs/RequestHandlingRSocket.java: threads add services to one             *)
(* BiInt2ObjectMap and dispatch requests through it.  addService and       *)
(* getService are synchronized methods of the socket; the constructor puts *)
(* its services into the map before any other thread has the socket.       *)
(*                                                                         *)
(* The map is seen here the way another thread would see it: put and get   *)
(* are broken into their reads and writes of the shared arrays, and the    *)
(* growth of the table publishes its two arrays one after the other.  That *)
(* threads do not see it in between is the work of the monitor.  (The      *)
(* table itself, one call at a time, is BiInt2ObjectMap.tla.)              *)
(***************************************************************************)
EXTENDS Integers, Sequences, FiniteSets

CONSTANTS
  Threads,          \* threads that share the socket
  Constructor,      \* the thread that constructs it
  Services, Ids, IdOf,
  InitialServices,  \* the constructor's arguments, a sequence
  Interactions,     \* the interaction models requests use
  HashOf,           \* the folded hash of an id
  ZeroId,           \* the id whose key is 0, as in a fresh array of keys
  MinCapacity, LoadNum, LoadDen,
  MaxCapacity,      \* the largest table there may be (2^30 in Java)
  AllocationMayFail,\* whether a new array may be refused
  NULL,
  CallsPerThread    \* bound: how many calls a thread makes

ASSUME RSocketAssumption ==
  /\ Constructor \notin Threads
  /\ NULL \notin Services \cup Ids \cup Threads \cup {Constructor}
  /\ IdOf \in [Services -> Ids]
  /\ HashOf \in [Ids -> Nat]
  /\ InitialServices \in Seq(Services)
  /\ ZeroId \in Ids
  /\ MinCapacity \in Nat \ {0} /\ MaxCapacity \in Nat
  /\ AllocationMayFail \in BOOLEAN
  /\ LoadNum \in Nat \ {0} /\ LoadDen \in Nat \ {0} /\ LoadNum < LoadDen
  /\ CallsPerThread \in Nat

VARIABLES
  keys, values, size, resizeThreshold,  \* the map, shared by all threads
  monitor,                              \* the thread inside, or NULL
  toConstruct,                          \* constructor's services still to put
  pc, pending, capacity, index, seen, temp,  \* a thread's own locals
  request,                              \* the last request a thread served
  found,                                \* what its getService returned
  outcome,                              \* what its last call ended in
  calls                                 \* calls made so far

table  == <<keys, values, size, resizeThreshold>>
locals == <<pc, pending, capacity, index, seen, temp, request, found, outcome,
            calls>>
vars   == <<table, monitor, toConstruct, locals>>

Everyone == Threads \cup {Constructor}

NoCall       == [op |-> "none", id |-> NULL, service |-> NULL]
AddCall(s)   == [op |-> "add", id |-> IdOf[s], service |-> s]
FindCall(id) == [op |-> "find", id |-> id, service |-> NULL]

NoRequest == [interaction |-> "none", id |-> NULL]

(* How a call ends: the service a request was handed to, or an error.  An  *)
(* exception reaches the caller as the error of the returned Mono or Flux  *)
(* ("signalled"), except in requestChannel, which has no try block: it is  *)
(* thrown out of the transformer into SwitchTransform ("thrown").          *)
(* addService may end in the exception of a table that could not grow.     *)
None       == [kind |-> "none", service |-> NULL]
NotGrown   == [kind |-> "notGrown", service |-> NULL]
Handled(s) == [kind |-> "handled", service |-> s]
NotFound   == [kind |-> "ServiceNotFound", service |-> NULL]
Failure(i) == [kind |-> IF i = "requestChannel" THEN "thrown" ELSE "signalled",
               service |-> NULL]
-----------------------------------------------------------------------------
(* The table, as in BiInt2ObjectMap.                                       *)

Slots(n)        == 0 .. n - 1
Home(id, n)     == HashOf[id] % n
NextSlot_Mutant(i, n) == i + 1
NextSlot(i, n)  == IF i + 1 = n THEN 0 ELSE i + 1
ThresholdFor_Mutant(n) == n
ThresholdFor(n) == (n * LoadNum) \div LoadDen
Length(array)   == Cardinality(DOMAIN array)

EmptyTable(n) == [keys   |-> [i \in Slots(n) |-> ZeroId],
                  values |-> [i \in Slots(n) |-> NULL]]

Distance(a, b, n) == IF a <= b THEN b - a ELSE b + n - a

(* The slot where rehash's inner loop stops.                               *)
FirstFree(V, home, n) ==
  CHOOSE i \in Slots(n) :
    /\ V[i] = NULL
    /\ \A j \in Slots(n) :
          Distance(home, j, n) < Distance(home, i, n) => V[j] # NULL

-----------------------------------------------------------------------------
Init ==
  /\ keys = EmptyTable(MinCapacity).keys
  /\ values = EmptyTable(MinCapacity).values
  /\ size = 0 /\ resizeThreshold = ThresholdFor(MinCapacity)
  /\ monitor = NULL
  /\ toConstruct = InitialServices
  /\ pc = [t \in Everyone |-> "idle"]
  /\ pending = [t \in Everyone |-> NoCall]
  /\ capacity = [t \in Everyone |-> 0] /\ index = [t \in Everyone |-> 0]
  /\ seen = [t \in Everyone |-> NULL]
  /\ temp = [t \in Everyone |-> EmptyTable(0)]
  /\ request = [t \in Everyone |-> NoRequest]
  /\ found = [t \in Everyone |-> NULL]
  /\ outcome = [t \in Everyone |-> None]
  /\ calls = [t \in Everyone |-> 0]

Constructed_Mutant == TRUE

(* No other thread has the socket before its constructor has returned.     *)
Constructed == toConstruct = <<>> /\ pc[Constructor] = "idle"
-----------------------------------------------------------------------------
(* Calls on the socket.                                                    *)

(* A thread's put or get starts inside the map: the mask is taken from the *)
(* values array of that moment.                                            *)
EnterMap(t, call) ==
  /\ capacity' = [capacity EXCEPT ![t] = Length(values)]
  /\ index' = [index EXCEPT ![t] = Home(call.id, Length(values))]
  /\ pc' = [pc EXCEPT ![t] = "probe"]

(* The constructor's loop calls put without the monitor.                   *)
ConstructorPuts ==
  /\ toConstruct # <<>> /\ pc[Constructor] = "idle"
  /\ LET call == AddCall(Head(toConstruct))
     IN  /\ pending' = [pending EXCEPT ![Constructor] = call]
         /\ EnterMap(Constructor, call)
  /\ toConstruct' = Tail(toConstruct)
  /\ UNCHANGED <<table, monitor, seen, temp, request, found, outcome, calls>>

CanCall(t) == Constructed /\ pc[t] = "idle" /\ calls[t] < CallsPerThread

AddService(t) ==
  /\ CanCall(t)
  /\ \E s \in Services : pending' = [pending EXCEPT ![t] = AddCall(s)]
  /\ pc' = [pc EXCEPT ![t] = "enter"]
  /\ calls' = [calls EXCEPT ![t] = @ + 1]
  /\ outcome' = [outcome EXCEPT ![t] = None]
  /\ request' = [request EXCEPT ![t] = NoRequest]
  /\ UNCHANGED <<table, monitor, toConstruct, capacity, index, seen, temp,
                 found>>

(* fireAndForget, requestResponse, requestStream and requestChannel: the   *)
(* ids are read from the metadata, then getService is called.              *)
Request(t) ==
  /\ CanCall(t)
  /\ \E i \in Interactions, id \in Ids :
        /\ pending' = [pending EXCEPT ![t] = FindCall(id)]
        /\ request' = [request EXCEPT ![t] = [interaction |-> i, id |-> id]]
  /\ pc' = [pc EXCEPT ![t] = "enter"]
  /\ calls' = [calls EXCEPT ![t] = @ + 1]
  /\ outcome' = [outcome EXCEPT ![t] = None]
  /\ UNCHANGED <<table, monitor, toConstruct, capacity, index, seen, temp,
                 found>>

(* A payload without decodable metadata: the read of the ids throws.       *)
RequestUndecodable(t) ==
  /\ CanCall(t)
  /\ \E i \in Interactions : outcome' = [outcome EXCEPT ![t] = Failure(i)]
  /\ calls' = [calls EXCEPT ![t] = @ + 1]
  /\ request' = [request EXCEPT ![t] = NoRequest]
  /\ UNCHANGED <<table, monitor, toConstruct, pc, pending, capacity, index,
                 seen, temp, found>>

MayEnter_Mutant(t) == TRUE

(* addService and getService are synchronized on the socket.               *)
MayEnter(t) == monitor = NULL

EnterMonitor(t) ==
  /\ pc[t] = "enter" /\ MayEnter(t)
  /\ monitor' = t
  /\ EnterMap(t, pending[t])
  /\ UNCHANGED <<table, toConstruct, pending, seen, temp, request, found,
                 outcome, calls>>
-----------------------------------------------------------------------------
(* put and get: while (null != values[index]) { if (key == keys[index])    *)
(* break; ... }, one read of a shared array at a time.                     *)
ReadValue(t) ==
  /\ pc[t] = "probe"
  /\ seen' = [seen EXCEPT ![t] = values[index[t]]]
  /\ pc' = [pc EXCEPT ![t] = IF values[index[t]] = NULL THEN "probed"
                                                        ELSE "compare"]
  /\ UNCHANGED <<table, monitor, toConstruct, pending, capacity, index, temp,
                 request, found, outcome, calls>>

CompareKey(t) ==
  /\ pc[t] = "compare"
  /\ IF keys[index[t]] = pending[t].id
       THEN /\ pc' = [pc EXCEPT ![t] = "probed"]
            /\ UNCHANGED <<index, seen>>
       ELSE /\ pc' = [pc EXCEPT ![t] = "probe"]
            /\ index' = [index EXCEPT ![t] = NextSlot(@, capacity[t])]
            /\ seen' = [seen EXCEPT ![t] = NULL]
  /\ UNCHANGED <<table, monitor, toConstruct, pending, capacity, temp,
                 request, found, outcome, calls>>

FoundBy_Mutant(t) == [u \in Everyone |-> seen[t]]

(* What a lookup returns goes into a local of its thread.                  *)
FoundBy(t) == [found EXCEPT ![t] = seen[t]]

(* get returns what it saw, and getService leaves the monitor.             *)
LeaveGetService(t) ==
  /\ pc[t] = "probed" /\ pending[t].op = "find"
  /\ found' = FoundBy(t)
  /\ pending' = [pending EXCEPT ![t] = NoCall]
  /\ seen' = [seen EXCEPT ![t] = NULL]
  /\ monitor' = NULL
  /\ pc' = [pc EXCEPT ![t] = "dispatch"]
  /\ UNCHANGED <<table, toConstruct, capacity, index, temp, request, outcome,
                 calls>>

(* put writes the key of a new entry, ...                                  *)
PutKey(t) ==
  /\ pc[t] = "probed" /\ pending[t].op = "add"
  /\ IF seen[t] = NULL
       THEN /\ size' = size + 1
            /\ keys' = [keys EXCEPT ![index[t]] = pending[t].id]
       ELSE UNCHANGED <<size, keys>>
  /\ pc' = [pc EXCEPT ![t] = "store"]
  /\ seen' = [seen EXCEPT ![t] = NULL]
  /\ UNCHANGED <<values, resizeThreshold, monitor, toConstruct, pending,
                 capacity, index, temp, request, found, outcome, calls>>

Stored_Mutant(t) == IF values[index[t]] = NULL
                      THEN [values EXCEPT ![index[t]] = pending[t].service]
                      ELSE values

Stored(t) == [values EXCEPT ![index[t]] = pending[t].service]

(* ... then the value, and looks whether the table must grow.              *)
PutValue(t) ==
  /\ pc[t] = "store"
  /\ values' = Stored(t)
  /\ pending' = [pending EXCEPT ![t] = NoCall]
  /\ pc' = [pc EXCEPT ![t] = IF size > resizeThreshold THEN "grow" ELSE "leave"]
  /\ UNCHANGED <<keys, size, resizeThreshold, monitor, toConstruct, capacity,
                 index, seen, temp, request, found, outcome, calls>>

(* The entry is stored.  If the table cannot grow, put ends in an          *)
(* exception: at the largest capacity before anything has changed, in an   *)
(* allocation after rehash has set the threshold of the larger table.  A   *)
(* thread leaves the monitor with it; a constructor that throws leaves no  *)
(* socket behind.                                                          *)
GrowFails(t) ==
  LET n == 2 * Length(values)
  IN  /\ pc[t] = "grow"
      /\ \/ /\ n > MaxCapacity
            /\ UNCHANGED resizeThreshold
         \/ /\ n <= MaxCapacity /\ AllocationMayFail
            /\ resizeThreshold' = ThresholdFor(n)
      /\ outcome' = [outcome EXCEPT ![t] = NotGrown]
      /\ pc' = [pc EXCEPT ![t] = IF t = Constructor THEN "failed" ELSE "leave"]
      /\ UNCHANGED <<keys, values, size, monitor, toConstruct, pending, capacity,
                     index, seen, temp, request, found, calls>>

(* rehash sets the threshold, allocates two arrays of its own, ...         *)
Grow(t) ==
  LET n == 2 * Length(values)
  IN  /\ pc[t] = "grow" /\ n <= MaxCapacity
      /\ resizeThreshold' = ThresholdFor(n)
      /\ temp' = [temp EXCEPT ![t] = EmptyTable(n)]
      /\ capacity' = [capacity EXCEPT ![t] = Length(values)]
      /\ index' = [index EXCEPT ![t] = 0]
      /\ pc' = [pc EXCEPT ![t] = "rehash"]
      /\ UNCHANGED <<keys, values, size, monitor, toConstruct, pending, seen,
                     request, found, outcome, calls>>

(* ... fills them from the old ones slot by slot, ...                      *)
RehashSlot(t) ==
  LET i == index[t]
      new == temp[t]
      n == Length(new.values)
      free == FirstFree(new.values, Home(keys[i], n), n)
  IN  /\ pc[t] = "rehash" /\ i < capacity[t]
      /\ temp' =
           IF values[i] = NULL THEN temp
           ELSE [temp EXCEPT ![t] =
                   [keys   |-> [new.keys EXCEPT ![free] = keys[i]],
                    values |-> [new.values EXCEPT ![free] = values[i]]]]
      /\ index' = [index EXCEPT ![t] = i + 1]
      /\ UNCHANGED <<table, monitor, toConstruct, pc, pending, capacity, seen,
                     request, found, outcome, calls>>

(* ... and publishes the keys, then the values.                            *)
PublishKeys(t) ==
  /\ pc[t] = "rehash" /\ index[t] = capacity[t]
  /\ keys' = temp[t].keys
  /\ index' = [index EXCEPT ![t] = 0]
  /\ pc' = [pc EXCEPT ![t] = "publishValues"]
  /\ UNCHANGED <<values, size, resizeThreshold, monitor, toConstruct, pending,
                 capacity, seen, temp, request, found, outcome, calls>>

PublishValues(t) ==
  /\ pc[t] = "publishValues"
  /\ values' = temp[t].values
  /\ temp' = [temp EXCEPT ![t] = EmptyTable(0)]
  /\ pc' = [pc EXCEPT ![t] = "leave"]
  /\ UNCHANGED <<keys, size, resizeThreshold, monitor, toConstruct, pending,
                 capacity, index, seen, request, found, outcome, calls>>

(* addService ends and leaves the monitor; the constructor's put just      *)
(* returns.                                                                *)
LeavePut(t) ==
  /\ pc[t] = "leave"
  /\ monitor' = IF t = Constructor THEN monitor ELSE NULL
  /\ pc' = [pc EXCEPT ![t] = "idle"]
  /\ capacity' = [capacity EXCEPT ![t] = 0]
  /\ index' = [index EXCEPT ![t] = 0]
  /\ UNCHANGED <<table, toConstruct, pending, seen, temp, request, found,
                 outcome, calls>>

(* Outside the monitor the request goes to the service it found, whose     *)
(* method may throw; or it ends in ServiceNotFound.                        *)
Dispatch(t) ==
  /\ pc[t] = "dispatch"
  /\ \/ /\ found[t] = NULL
        /\ outcome' = [outcome EXCEPT ![t] = NotFound]
     \/ /\ found[t] # NULL
        /\ \/ outcome' = [outcome EXCEPT ![t] = Handled(found[t])]
           \/ outcome' = [outcome EXCEPT ![t] = Failure(request[t].interaction)]
  /\ pc' = [pc EXCEPT ![t] = "idle"]
  /\ capacity' = [capacity EXCEPT ![t] = 0]
  /\ index' = [index EXCEPT ![t] = 0]
  /\ UNCHANGED <<table, monitor, toConstruct, pending, seen, temp, request,
                 found, calls>>
-----------------------------------------------------------------------------
Call(t) == AddService(t) \/ Request(t) \/ RequestUndecodable(t)

Step(t) == \/ EnterMonitor(t)
           \/ ReadValue(t) \/ CompareKey(t) \/ LeaveGetService(t)
           \/ PutKey(t) \/ PutValue(t)
           \/ Grow(t) \/ GrowFails(t)
           \/ RehashSlot(t) \/ PublishKeys(t) \/ PublishValues(t) \/ LeavePut(t)
           \/ Dispatch(t)

Next == \/ ConstructorPuts
        \/ \E t \in Threads : Call(t)
        \/ \E t \in Everyone : Step(t)

Spec == Init /\ [][Next]_vars

(* A thread that has called keeps running and gets a free monitor in the   *)
(* end; the constructor runs to its end.  With CallsPerThread calls each,  *)
(* nobody can take the monitor infinitely often.                           *)
FairSpec == /\ Spec
            /\ WF_vars(ConstructorPuts)
            /\ \A t \in Everyone : WF_vars(Step(t))
-----------------------------------------------------------------------------
(* PROPERTIES *)

InMap == {"probe", "compare", "probed", "store", "grow", "rehash",
          "publishValues", "leave"}

(* Shapes of the shared table and of every thread's locals; an index is    *)
(* always inside the array its thread walks.                               *)
TypeOK ==
  /\ keys \in [Slots(Length(keys)) -> Ids]
  /\ values \in [Slots(Length(values)) -> Services \cup {NULL}]
  /\ size \in Nat /\ resizeThreshold \in Nat
  /\ monitor \in Threads \cup {NULL}
  /\ toConstruct \in Seq(Services)
  /\ pc \in [Everyone -> InMap \cup {"idle", "enter", "dispatch", "failed"}]
  /\ \A t \in Everyone :
       /\ pending[t] \in {NoCall} \cup {AddCall(s) : s \in Services}
                                  \cup {FindCall(id) : id \in Ids}
       /\ pc[t] \in InMap \ {"rehash"} => index[t] < Length(values)
       /\ seen[t] \in Services \cup {NULL}
       /\ found[t] \in Services \cup {NULL}
       /\ calls[t] \in 0 .. CallsPerThread

(* A thread inside the map holds the monitor; while the constructor is     *)
(* inside, nobody else has the socket yet.                                 *)
MutualExclusion ==
  \A t \in Everyone :
    pc[t] \in InMap =>
      IF t = Constructor THEN \A u \in Threads : pc[u] = "idle"
                         ELSE monitor = t

(* A request is handed to a service registered under the ids in its        *)
(* metadata, never to another one.                                         *)
DispatchedByIds ==
  \A t \in Threads :
    outcome[t].kind = "handled" => IdOf[outcome[t].service] = request[t].id

(* The services the socket was constructed with are found by every         *)
(* request, also while other threads make the table grow.                  *)
InitialServicesFound ==
  \A t \in Threads :
    outcome[t] = NotFound =>
      \A i \in DOMAIN InitialServices :
         IdOf[InitialServices[i]] # request[t].id

(* Somebody's put has just ended because the table could not grow.         *)
GrowthFailed == \E t \in Everyone : outcome[t] = NotGrown

(* Unless a growth of the table fails, every call returns: no probe runs   *)
(* on without end, and no thread is left waiting for the monitor.          *)
CallsReturn ==
  []~GrowthFailed => \A t \in Threads : pc[t] # "idle" ~> pc[t] = "idle"

(* "@return value matching the key if found or null if not found"          *)
(* (BiInt2ObjectMap.get, on which getService rests): every lookup returns. *)
LookupsReturn ==
  \A t \in Threads : pending[t].op = "find" ~> pending[t].op # "find"

(* The table that stands for the registry: the new one as soon as its keys *)
(* are published.                                                          *)
Current ==
  IF \E t \in Everyone : pc[t] = "publishValues"
    THEN temp[CHOOSE t \in Everyone : pc[t] = "publishValues"]
    ELSE [keys |-> keys, values |-> values]

RegistryIn(now) ==
  LET used == {i \in DOMAIN now.values : now.values[i] # NULL}
      At(id) == {i \in used : now.keys[i] = id}
  IN  [id \in Ids |-> IF At(id) = {} THEN NULL
                      ELSE now.values[CHOOSE i \in At(id) : TRUE]]

Registry == RegistryIn(Current)

(* Calls of different threads take effect one after the other.             *)
Abstract == INSTANCE ServiceRegistry
              WITH Threads <- Everyone, registry <- Registry

Refinement == Abstract!Spec
=============================================================================
