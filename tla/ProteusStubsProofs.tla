------------------------- MODULE ProteusStubsProofs -------------------------
(***************************************************************************)
(* Proofs about ProteusMetadata.tla and ProteusStubs.tla, for any calls,   *)
(* methods, server versions and bounds, on any interleaving of exchanges,  *)
(* failures and disconnections.                                            *)
(*                                                                         *)
(* 1. No buffer is released twice and no released payload is parsed.       *)
(* 2. What encode writes, the getters read, for any ids and any length of  *)
(*    the caller's metadata.                                               *)
(* 3. Every request that arrives carries the ids and the length of the     *)
(*    metadata it was made with, and invokes its own method or none.       *)
(* 4. It is settled which buffers a call can leave behind, and where a     *)
(*    service can find its metadata released.                              *)
(***************************************************************************)
EXTENDS ProteusStubs, FiniteSetTheorems, TLAPS

Statuses == {"none", "live", "released", "twice"}

(* What the argument says of buffers: the library holds only live ones; a  *)
(* request that has arrived is in its hands; nothing of a single request   *)
(* exists before it is sent, no subscription is reused, and an exchange    *)
(* nobody subscribed to has nothing under way.                             *)
HeldAlive == \A b \in wire : status[b] = "live"

ArrivedHeld ==
  \A x \in Exchanges : server[x] = "arrived" => Buf(x, 1, "request") \in wire

NotYetSent ==
  \A x \in Exchanges :
    client[x] \in {"none", "sending"} /\ ~IsChannel(x) =>
      status[Buf(x, 1, "data")] = "none"

FreshExchanges ==
  \A x \in Exchanges : x[2] > subscriptions[x[1]] => client[x] = "none"

Started ==
  \A x \in Exchanges :
    client[x] = "none" => server[x] = "none" /\ \A b \in wire : b.x # x

ClientStates == {"none", "sending", "waiting", "failed"}
ServerStates == {"none", "arrived", "notFound", "notImplemented",
                 "unsupported", "malformed", "threw", "serving", "failed",
                 "cancelled"}

Shapes ==
  /\ subscriptions \in [Calls -> 0 .. MaxSubscriptions]
  /\ client \in [Exchanges -> ClientStates]
  /\ server \in [Exchanges -> ServerStates]
  /\ status \in [Buffers -> Statuses]
  /\ wire \subseteq Buffers
  /\ parses \in [Exchanges -> SUBSET {"ok", "malformed", "released"}]

IndInv == /\ Shapes /\ ReleasedOnce /\ ParsedAlive
          /\ HeldAlive /\ ArrivedHeld /\ NotYetSent /\ FreshExchanges
          /\ Started
-----------------------------------------------------------------------------
(* Buffers of different places are different.                              *)
LEMMA BufShape ==
  ASSUME NEW x \in Exchanges, NEW e \in 1 .. MaxElements, NEW part \in Parts
  PROVE  /\ Buf(x, e, part) \in Buffers
         /\ Buf(x, e, part).x = x /\ Buf(x, e, part).element = e
         /\ Buf(x, e, part).part = part
BY DEF Buf, Buffers

(* Every call has room for one element.                                    *)
LEMMA FirstElement == 1 \in 1 .. MaxElements
BY StubsAssumption

(* What Update does to a buffer.                                           *)
LEMMA UpdateEffect ==
  ASSUME status \in [Buffers -> Statuses], NEW A, NEW R, Update(A, R)
  PROVE  /\ status' \in [Buffers -> Statuses]
         /\ \A b \in Buffers :
              /\ b \notin A /\ b \notin R => status'[b] = status[b]
              /\ b \in A /\ b \notin R => status'[b] = "live"
              /\ b \in A /\ b \in R => status'[b] = "released"
              /\ b \in R /\ status[b] = "live" => status'[b] = "released"
BY DEF Update, Released, Statuses

(* A step that allocates A and releases R, each of R just allocated or     *)
(* alive, and leaves the library with live buffers of before or new ones,  *)
(* releases nothing twice.                                                 *)
LEMMA BufferStep ==
  ASSUME status \in [Buffers -> Statuses], wire \subseteq Buffers,
         ReleasedOnce, HeldAlive,
         NEW A \in SUBSET Buffers, NEW R \in SUBSET Buffers, Update(A, R),
         wire' \subseteq (wire \cup A) \ R,
         \A b \in R : b \in A \/ status[b] = "live"
  PROVE  /\ status' \in [Buffers -> Statuses] /\ wire' \subseteq Buffers
         /\ ReleasedOnce' /\ HeldAlive'
<1>1. status' \in [Buffers -> Statuses]
  BY UpdateEffect
<1>2. ReleasedOnce'
  <2>1. SUFFICES ASSUME NEW b \in Buffers PROVE status'[b] # "twice"
    BY DEF ReleasedOnce, Buffers, Exchanges
  <2>2. status[b] # "twice"
    BY DEF ReleasedOnce
  <2>3. CASE b \notin A /\ b \notin R
    BY <2>2, <2>3, UpdateEffect
  <2>4. CASE b \in A /\ b \notin R
    BY <2>4, UpdateEffect
  <2>5. CASE b \in R
    BY <2>5, UpdateEffect
  <2>6. QED
    BY <2>3, <2>4, <2>5
<1>3. HeldAlive'
  BY UpdateEffect DEF HeldAlive
<1>4. QED
  BY <1>1, <1>2, <1>3

(* A buffer that was never allocated is not in the library's hands.        *)
LEMMA UnallocatedNotHeld ==
  ASSUME HeldAlive, NEW b, status[b] = "none" PROVE b \notin wire
BY DEF HeldAlive

(* A set of several of an element's buffers.                               *)
LEMMA ElementBuffers ==
  ASSUME NEW x \in Exchanges, NEW e \in 1 .. MaxElements,
         NEW parts \in SUBSET Parts
  PROVE  {Buf(x, e, part) : part \in parts} \subseteq Buffers
BY DEF Buf, Buffers

(* Nothing is allocated or subscribed at first.                            *)
LEMMA InitInv == Init => IndInv
<1> SUFFICES ASSUME Init PROVE IndInv
  OBVIOUS
<1>1. Shapes
  BY StubsAssumption DEF Init, Shapes, Statuses, ClientStates, ServerStates
<1>2. /\ ReleasedOnce /\ ParsedAlive /\ HeldAlive /\ FreshExchanges
      /\ Started
  BY DEF Init, ReleasedOnce, ParsedAlive, HeldAlive, FreshExchanges, Started
<1>3. ArrivedHeld
  BY DEF Init, ArrivedHeld
<1>4. NotYetSent
  BY BufShape, FirstElement DEF Init, NotYetSent, Parts
<1>5. QED
  BY <1>1, <1>2, <1>3, <1>4 DEF IndInv
-----------------------------------------------------------------------------
(* One lemma per action.                                                   *)

(* A subscription starts an exchange of its own.                           *)
LEMMA SubscribeKeeps ==
  ASSUME IndInv, NEW c \in Calls, Subscribe(c) PROVE IndInv'
<1> USE DEF IndInv, Shapes
<1> DEFINE n == subscriptions[c] + 1
<1>1. n \in 1 .. MaxSubscriptions /\ subscriptions'[c] = n
  BY StubsAssumption DEF Subscribe
<1>2. <<c, n>> \in Exchanges /\ client' = [client EXCEPT ![<<c, n>>] = "sending"]
  BY <1>1 DEF Subscribe, Exchanges
<1>3. client[<<c, n>>] = "none"
  BY <1>1, <1>2 DEF FreshExchanges
<1>4. UNCHANGED <<inputs, server, status, wire, parses>>
  BY DEF Subscribe
<1>5. Shapes'
  BY <1>1, <1>2, <1>4, StubsAssumption DEF Subscribe, ClientStates
<1>6. /\ ReleasedOnce' /\ ParsedAlive' /\ HeldAlive' /\ ArrivedHeld'
      /\ Started'
  BY <1>2, <1>4 DEF ReleasedOnce, ParsedAlive, HeldAlive, ArrivedHeld, Started
<1>7. NotYetSent'
  BY <1>2, <1>3, <1>4 DEF NotYetSent, IsChannel, Interaction, MethodOf, inputs
<1>8. FreshExchanges'
  <2>1. SUFFICES ASSUME NEW x \in Exchanges, x[2] > subscriptions'[x[1]]
                 PROVE  client'[x] = "none"
    BY DEF FreshExchanges
  <2>2. x \in Calls \X (1 .. MaxSubscriptions)
    BY DEF Exchanges
  <2>3. x # <<c, n>>
    BY <1>1, <2>1, <2>2
  <2>4. x[2] > subscriptions[x[1]]
    BY <1>1, <2>1, <2>2, StubsAssumption DEF Subscribe
  <2>5. QED
    BY <1>2, <2>3, <2>4 DEF FreshExchanges
<1>9. QED
  BY <1>5, <1>6, <1>7, <1>8

(* What the steps of a started exchange x, other than sending, have in     *)
(* common: they touch buffers and the server's side of x only, and leave   *)
(* the client's side alone or failed.                                      *)
LEMMA ExchangeStep ==
  ASSUME IndInv, NEW x \in Exchanges, client[x] # "none",
         NEW A \in SUBSET Buffers, NEW R \in SUBSET Buffers, Update(A, R),
         wire' \subseteq (wire \cup A) \ R,
         \A b \in R : b \in A \/ status[b] = "live",
         \A b \in A : b.x = x /\ b.part # "data",
         client' = client \/ client' = [client EXCEPT ![x] = "failed"],
         \/ server' = server
         \/ \E r \in ServerStates : server' = [server EXCEPT ![x] = r],
         UNCHANGED <<inputs, subscriptions>>
  PROVE  /\ ReleasedOnce' /\ HeldAlive' /\ NotYetSent' /\ FreshExchanges'
         /\ Started'
         /\ parses' \in [Exchanges -> SUBSET {"ok", "malformed", "released"}]
              => Shapes'
<1>1. /\ status' \in [Buffers -> Statuses] /\ wire' \subseteq Buffers
      /\ ReleasedOnce' /\ HeldAlive'
  BY BufferStep DEF IndInv, Shapes
<1>2. \A y \in Exchanges : client'[y] = client[y] \/ (y = x /\ client'[y] = "failed")
  BY DEF IndInv, Shapes
<1>3. client' \in [Exchanges -> ClientStates] /\ server' \in [Exchanges -> ServerStates]
  BY DEF IndInv, Shapes, ClientStates
<1>4. NotYetSent'
  <2>1. SUFFICES ASSUME NEW y \in Exchanges, client'[y] \in {"none", "sending"},
                        ~IsChannel(y)'
                 PROVE  status'[Buf(y, 1, "data")] = "none"
    BY DEF NotYetSent, Buf
  <2> DEFINE data == Buf(y, 1, "data")
  <2>2. client[y] \in {"none", "sending"} /\ ~IsChannel(y)
    BY <1>2, <2>1 DEF IsChannel, Interaction, MethodOf, inputs
  <2>3. status[data] = "none"
    BY <2>2 DEF IndInv, NotYetSent
  <2>4. data \in Buffers /\ data.part = "data"
    BY BufShape, FirstElement DEF Parts
  <2>5. data \notin A /\ data \notin R
    BY <2>3, <2>4
  <2>6. QED
    BY <2>3, <2>4, <2>5, UpdateEffect DEF IndInv, Shapes
<1>5. FreshExchanges'
  BY <1>2 DEF IndInv, FreshExchanges
<1>6. Started'
  <2>1. SUFFICES ASSUME NEW y \in Exchanges, client'[y] = "none"
                 PROVE  server'[y] = "none" /\ \A b \in wire' : b.x # y
    BY DEF Started
  <2>2. y # x /\ client[y] = "none"
    BY <1>2, <2>1
  <2>3. server'[y] = server[y]
    BY <2>2 DEF IndInv, Shapes
  <2>4. QED
    BY <2>2, <2>3 DEF IndInv, Started
<1>7. QED
  BY <1>1, <1>3, <1>4, <1>5, <1>6 DEF IndInv, Shapes

(* The same with all that it asks in one place.                            *)
Touched(x, A, R) ==
  /\ client[x] # "none"
  /\ A \in SUBSET Buffers /\ R \in SUBSET Buffers /\ Update(A, R)
  /\ wire' \subseteq (wire \cup A) \ R
  /\ \A b \in R : b \in A \/ status[b] = "live"
  /\ \A b \in A : b.x = x /\ b.part # "data"
  /\ client' = client \/ client' = [client EXCEPT ![x] = "failed"]
  /\ \/ server' = server
     \/ \E r \in ServerStates : server' = [server EXCEPT ![x] = r]
  /\ UNCHANGED <<inputs, subscriptions>>
  /\ parses' \in [Exchanges -> SUBSET {"ok", "malformed", "released"}]

(* A step of one exchange disturbs no other.                               *)
LEMMA TouchedStep ==
  ASSUME IndInv, NEW x \in Exchanges, NEW A, NEW R, Touched(x, A, R)
  PROVE  /\ ReleasedOnce' /\ HeldAlive' /\ NotYetSent' /\ FreshExchanges'
         /\ Started' /\ Shapes'
BY ExchangeStep DEF Touched

(* The same for a step that only releases.                                 *)
LEMMA ReleaseStep ==
  ASSUME IndInv, NEW x \in Exchanges, client[x] # "none",
         NEW R \in SUBSET Buffers, Update({}, R), wire' \subseteq wire \ R,
         \A b \in R : status[b] = "live",
         client' = client \/ client' = [client EXCEPT ![x] = "failed"],
         \/ server' = server
         \/ \E r \in ServerStates : server' = [server EXCEPT ![x] = r],
         UNCHANGED <<inputs, subscriptions>>
  PROVE  /\ ReleasedOnce' /\ HeldAlive' /\ NotYetSent' /\ FreshExchanges'
         /\ Started'
         /\ parses' \in [Exchanges -> SUBSET {"ok", "malformed", "released"}]
              => Shapes'
<1>1. PICK A \in SUBSET Buffers : A = {}
  OBVIOUS
<1>2. Update(A, R) /\ wire' \subseteq (wire \cup A) \ R
  BY <1>1
<1>3. \A b \in A : b.x = x /\ b.part # "data"
  BY <1>1
<1>4. QED
  BY <1>2, <1>3, ExchangeStep

(* The client receives an answer.                                          *)
LEMMA ReceiveKeeps ==
  ASSUME IndInv, NEW x \in Exchanges, NEW e \in 1 .. MaxElements, Receive(x, e)
  PROVE  IndInv'
<1> DEFINE reply == Buf(x, e, "reply")
           response == Buf(x, e, "response")
<1>1. /\ reply \in Buffers /\ response \in Buffers
      /\ reply.part = "reply" /\ response.part = "response" /\ reply.x = x
  BY BufShape DEF Parts
<1>2. /\ client[x] # "none" /\ response \in wire /\ wire' = wire \ {response}
      /\ status[reply] = "none" /\ status[response] = "live"
      /\ UNCHANGED <<inputs, subscriptions, server>>
  BY DEF Receive, IsNext, IndInv, HeldAlive
<1>3. reply \notin wire
  BY <1>2, UnallocatedNotHeld DEF IndInv
<1>4. PICK result \in {"ok", "malformed"} :
        /\ Update({reply}, {response} \cup
                   IF DeserializerReleases(result) THEN {reply} ELSE {})
        /\ parses' = [parses EXCEPT ![x] = @ \cup {result}]
        /\ client' = IF result = "ok" THEN client
                     ELSE [client EXCEPT ![x] = "failed"]
  BY DEF Receive
<1>5. Update({reply}, {response, reply})
  <2>1. {response} \cup {reply} = {response, reply}
    OBVIOUS
  <2>2. QED
    BY <1>4, <2>1 DEF DeserializerReleases
<1>6. parses' \in [Exchanges -> SUBSET {"ok", "malformed", "released"}]
  BY <1>4 DEF IndInv, Shapes
<1>7. /\ ReleasedOnce' /\ HeldAlive' /\ NotYetSent' /\ FreshExchanges'
      /\ Started' /\ Shapes'
  BY <1>1, <1>2, <1>3, <1>4, <1>5, <1>6, ExchangeStep
<1>8. ParsedAlive'
  BY <1>4 DEF IndInv, Shapes, ParsedAlive
<1>9. ArrivedHeld'
  BY <1>1, <1>2, BufShape, FirstElement DEF IndInv, ArrivedHeld, Parts
<1>10. QED
  BY <1>7, <1>8, <1>9 DEF IndInv

(* A request arrives for the parts that were sent.                         *)
LEMMA DeliverKeeps ==
  ASSUME IndInv, NEW x \in Exchanges, NEW e \in 1 .. MaxElements, Deliver(x, e)
  PROVE  IndInv'
<1> DEFINE sent == {b \in wire : b.x = x /\ b.element = e
                                   /\ b.part \in {"metadata", "data"}}
           request == Buf(x, e, "request")
<1>1. request \in Buffers /\ request.part = "request" /\ request.x = x
  BY BufShape DEF Parts
<1>2. /\ sent # {} /\ status[request] = "none"
      /\ Update({request}, sent)
      /\ wire' = (wire \ sent) \cup {request}
      /\ server' = IF e = 1 THEN [server EXCEPT ![x] = "arrived"] ELSE server
      /\ UNCHANGED <<inputs, subscriptions, client, parses>>
  BY DEF Deliver, IsNext
<1>3. sent \subseteq Buffers /\ \A b \in sent : status[b] = "live"
  BY DEF IndInv, Shapes, HeldAlive
<1>4. client[x] # "none"
  BY <1>2 DEF IndInv, Started
<1>5. request \notin sent
  BY <1>1
<1>6. wire' \subseteq (wire \cup {request}) \ sent
  BY <1>2, <1>5
<1>7. server' = server \/ \E r \in ServerStates : server' = [server EXCEPT ![x] = r]
  BY <1>2 DEF ServerStates
<1>8. parses' \in [Exchanges -> SUBSET {"ok", "malformed", "released"}]
  BY <1>2 DEF IndInv, Shapes
<1>9. /\ ReleasedOnce' /\ HeldAlive' /\ NotYetSent' /\ FreshExchanges'
      /\ Started' /\ Shapes'
  <2> HIDE DEF sent, request
  <2>1. {request} \in SUBSET Buffers /\ sent \in SUBSET Buffers
    BY <1>1, <1>3
  <2>2. \A b \in {request} : b.x = x /\ b.part # "data"
    BY <1>1
  <2>3. \A b \in sent : b \in {request} \/ status[b] = "live"
    BY <1>3
  <2>4. Update({request}, sent) /\ client' = client
    BY <1>2
  <2>5. UNCHANGED <<inputs, subscriptions>>
    BY <1>2
  <2>6. Touched(x, {request}, sent)
    BY <1>4, <1>6, <1>7, <1>8, <2>1, <2>2, <2>3, <2>4, <2>5 DEF Touched
  <2>7. QED
    BY <2>6, TouchedStep
<1>10. ParsedAlive'
  BY <1>2 DEF IndInv, ParsedAlive
<1>11. ArrivedHeld'
  <2>1. SUFFICES ASSUME NEW y \in Exchanges, server'[y] = "arrived"
                 PROVE  Buf(y, 1, "request") \in wire'
    BY DEF ArrivedHeld, Buf
  <2>2. CASE y = x /\ e = 1
    BY <1>2, <2>2
  <2>3. CASE ~(y = x /\ e = 1)
    <3>1. server[y] = "arrived"
      BY <1>2, <2>1, <2>3 DEF IndInv, Shapes
    <3>2. Buf(y, 1, "request") \in wire
      BY <3>1 DEF IndInv, ArrivedHeld
    <3>3. Buf(y, 1, "request").part = "request"
      BY BufShape, FirstElement DEF Parts
    <3>4. QED
      BY <1>2, <3>2, <3>3
  <2>4. QED
    BY <2>2, <2>3
<1>12. QED
  BY <1>9, <1>10, <1>11 DEF IndInv

(* The connection loses what it holds of an exchange.                      *)
LEMMA LoseKeeps ==
  ASSUME IndInv, NEW x \in Exchanges, Lose(x) PROVE IndInv'
<1> DEFINE held == {b \in wire : b.x = x}
<1>1. /\ client[x] # "none"
      /\ Update({}, held) /\ wire' = wire \ held
      /\ client' = [client EXCEPT ![x] = "failed"]
      /\ server' = [server EXCEPT ![x] =
                      IF @ \in {"arrived", "serving"} THEN "cancelled" ELSE @]
      /\ UNCHANGED <<inputs, subscriptions, parses>>
  BY DEF Lose
<1>2. held \subseteq Buffers /\ \A b \in held : status[b] = "live"
  BY DEF IndInv, Shapes, HeldAlive
<1>3. \E r \in ServerStates : server' = [server EXCEPT ![x] = r]
  <2>1. server[x] \in ServerStates /\ "cancelled" \in ServerStates
    BY DEF IndInv, Shapes, ServerStates
  <2>2. QED
    BY <1>1, <2>1
<1>4. /\ ReleasedOnce' /\ HeldAlive' /\ NotYetSent' /\ FreshExchanges'
      /\ Started' /\ Shapes'
  <2> HIDE DEF held
  <2>1. held \in SUBSET Buffers
    BY <1>2
  <2>2. wire' \subseteq wire \ held
    BY <1>1
  <2>3. parses' \in [Exchanges -> SUBSET {"ok", "malformed", "released"}]
    BY <1>1 DEF IndInv, Shapes
  <2>4. QED
    BY <1>1, <1>2, <1>3, <2>1, <2>2, <2>3, ReleaseStep
<1>5. ParsedAlive'
  BY <1>1 DEF IndInv, ParsedAlive
<1>6. ArrivedHeld'
  <2>1. SUFFICES ASSUME NEW y \in Exchanges, server'[y] = "arrived"
                 PROVE  Buf(y, 1, "request") \in wire'
    BY DEF ArrivedHeld, Buf
  <2>2. y # x /\ server[y] = "arrived"
    BY <1>1, <2>1 DEF IndInv, Shapes
  <2>3. Buf(y, 1, "request") \in wire /\ Buf(y, 1, "request").x = y
    BY <2>2, BufShape, FirstElement DEF IndInv, ArrivedHeld, Parts
  <2>4. QED
    BY <1>1, <2>2, <2>3
<1>7. QED
  BY <1>4, <1>5, <1>6 DEF IndInv

(* The server pulls a further element.                                     *)
LEMMA PullKeeps ==
  ASSUME IndInv, NEW x \in Exchanges, NEW e \in 1 .. MaxElements, Pull(x, e)
  PROVE  IndInv'
<1> DEFINE request == Buf(x, e, "request")
<1>1. /\ server[x] = "serving" /\ request \in wire /\ wire' = wire \ {request}
      /\ UNCHANGED <<inputs, subscriptions>>
  BY DEF Pull
<1>2. status[request] = "live" /\ request \in Buffers /\ client[x] # "none"
  BY <1>1 DEF IndInv, HeldAlive, Shapes, Started
<1>3. PICK result \in {"ok", "malformed"} :
        /\ parses' = [parses EXCEPT ![x] = @ \cup {result}]
        /\ server' = IF result = "ok" THEN server
                     ELSE [server EXCEPT ![x] = "failed"]
        /\ client' = IF result = "ok" THEN client
                     ELSE [client EXCEPT ![x] = "failed"]
        /\ Update({}, {request})
  BY <1>2 DEF Pull, ParseResults, DeserializerReleases
<1>4. parses' \in [Exchanges -> SUBSET {"ok", "malformed", "released"}]
  BY <1>3 DEF IndInv, Shapes
<1>5. server' = server \/ \E r \in ServerStates : server' = [server EXCEPT ![x] = r]
  BY <1>3 DEF ServerStates
<1>6. /\ ReleasedOnce' /\ HeldAlive' /\ NotYetSent' /\ FreshExchanges'
      /\ Started' /\ Shapes'
  <2> HIDE DEF request
  <2>1. {request} \in SUBSET Buffers
    BY <1>2
  <2>2. wire' \subseteq wire \ {request}
    BY <1>1
  <2>3. \A b \in {request} : status[b] = "live"
    BY <1>2
  <2>4. QED
    BY <1>1, <1>2, <1>3, <1>4, <1>5, <2>1, <2>2, <2>3, ReleaseStep
<1>7. ParsedAlive'
  BY <1>3 DEF IndInv, Shapes, ParsedAlive
<1>8. ArrivedHeld'
  <2>1. SUFFICES ASSUME NEW y \in Exchanges, server'[y] = "arrived"
                 PROVE  Buf(y, 1, "request") \in wire'
    BY DEF ArrivedHeld, Buf
  <2>2. y # x /\ server[y] = "arrived"
    BY <1>1, <1>3, <2>1 DEF IndInv, Shapes
  <2>3. Buf(y, 1, "request") \in wire /\ Buf(y, 1, "request").x = y
    BY <2>2, BufShape, FirstElement DEF IndInv, ArrivedHeld, Parts
  <2>4. request.x = x
    BY BufShape DEF Parts
  <2>5. QED
    BY <1>1, <2>2, <2>3, <2>4
<1>9. QED
  BY <1>6, <1>7, <1>8 DEF IndInv

(* The server answers, or fails to.                                        *)
LEMMA RespondKeeps ==
  ASSUME IndInv, NEW x \in Exchanges, NEW e \in 1 .. MaxElements, Respond(x, e)
  PROVE  IndInv'
<1> DEFINE response == Buf(x, e, "response")
<1>1. /\ server[x] = "serving" /\ status[response] = "none"
      /\ UNCHANGED <<inputs, subscriptions, parses>>
  BY DEF Respond, IsNext
<1>2. /\ response \in Buffers /\ response.x = x /\ response.part = "response"
      /\ response \notin wire /\ client[x] # "none"
  BY <1>1, BufShape, UnallocatedNotHeld DEF IndInv, Started, Parts
<1>3. \/ /\ Update({response}, {}) /\ wire' = wire \cup {response}
         /\ UNCHANGED <<server, client>>
      \/ /\ Update({response}, {response}) /\ wire' = wire
         /\ server' = [server EXCEPT ![x] = "failed"]
         /\ client' = [client EXCEPT ![x] = "failed"]
  BY DEF Respond
<1>4. parses' \in [Exchanges -> SUBSET {"ok", "malformed", "released"}]
  BY <1>1 DEF IndInv, Shapes
<1>5. server' = server \/ \E r \in ServerStates : server' = [server EXCEPT ![x] = r]
  BY <1>3 DEF ServerStates
<1>6. /\ ReleasedOnce' /\ HeldAlive' /\ NotYetSent' /\ FreshExchanges'
      /\ Started' /\ Shapes'
  <2> HIDE DEF response
  <2>1. {} \in SUBSET Buffers /\ {response} \in SUBSET Buffers
    BY <1>2
  <2>2. \A b \in {response} : b.x = x /\ b.part # "data"
    BY <1>2
  <2>3. CASE Update({response}, {}) /\ wire' = wire \cup {response} /\ client' = client
    <3>1. wire' \subseteq (wire \cup {response}) \ {}
      BY <2>3
    <3>2. QED
      BY <1>1, <1>2, <1>4, <1>5, <2>1, <2>2, <2>3, <3>1, ExchangeStep
  <2>4. CASE /\ Update({response}, {response}) /\ wire' = wire
             /\ client' = [client EXCEPT ![x] = "failed"]
    <3>1. wire' \subseteq (wire \cup {response}) \ {response}
      BY <1>2, <2>4
    <3>2. \A b \in {response} : b \in {response}
      OBVIOUS
    <3>3. QED
      BY <1>1, <1>2, <1>4, <1>5, <2>1, <2>2, <2>4, <3>1, <3>2, ExchangeStep
  <2>5. QED
    BY <1>3, <2>3, <2>4
<1>7. ParsedAlive'
  BY <1>1 DEF IndInv, ParsedAlive
<1>8. ArrivedHeld'
  <2>1. SUFFICES ASSUME NEW y \in Exchanges, server'[y] = "arrived"
                 PROVE  Buf(y, 1, "request") \in wire'
    BY DEF ArrivedHeld, Buf
  <2>2. server[y] = "arrived"
    BY <1>3, <2>1 DEF IndInv, Shapes
  <2>3. QED
    BY <1>3, <2>2 DEF IndInv, ArrivedHeld
<1>9. QED
  BY <1>6, <1>7, <1>8 DEF IndInv

(* The dispatch of a request that arrived.                                 *)
LEMMA HandleKeeps ==
  ASSUME IndInv, NEW x \in Exchanges, Handle(x) PROVE IndInv'
<1> DEFINE request == Buf(x, 1, "request")
<1>1. server[x] = "arrived" /\ UNCHANGED <<inputs, subscriptions>>
  BY DEF Handle
<1>2. /\ request \in Buffers /\ request.x = x /\ request \in wire
      /\ status[request] = "live" /\ client[x] # "none"
  BY <1>1, BufShape, FirstElement
  DEF IndInv, ArrivedHeld, HeldAlive, Started, Parts
<1>3. PICK result \in Results(x) :
        /\ server' = [server EXCEPT ![x] = result]
        /\ client' = IF result = "serving" \/ Interaction(x) = "fireAndForget"
                     THEN client
                     ELSE [client EXCEPT ![x] = "failed"]
        /\ Update({}, IF /\ result \notin {"notFound", "notImplemented"}
                         /\ HandlerReleases(Interaction(x))
                      THEN {request} ELSE {})
        /\ parses' = IF IsChannel(x) THEN parses
                     ELSE [parses EXCEPT ![x] = @ \cup
                            IF result = "malformed" THEN {"malformed"}
                            ELSE IF result \in {"threw", "serving"}
                            THEN {"ok"} ELSE {}]
  BY DEF Handle
<1>4. result \in ServerStates /\ result # "arrived"
  BY DEF Results, ServerStates
<1>5. parses' \in [Exchanges -> SUBSET {"ok", "malformed", "released"}] /\ ParsedAlive'
  <2>1. CASE IsChannel(x)
    BY <1>3, <2>1 DEF IndInv, Shapes, ParsedAlive
  <2>2. CASE ~IsChannel(x)
    <3>1. PICK more \in SUBSET {"ok", "malformed"} :
            parses' = [parses EXCEPT ![x] = @ \cup more]
      BY <1>3, <2>2
    <3>2. QED
      BY <3>1 DEF IndInv, Shapes, ParsedAlive
  <2>3. QED
    BY <2>1, <2>2
<1>6. wire' = IF IsChannel(x) THEN wire ELSE wire \ {request}
  BY DEF Handle
<1>7. PICK R \in SUBSET {request} : Update({}, R) /\ wire' \subseteq wire \ R
  <2>1. CASE IsChannel(x)
    <3>1. Update({}, {})
      BY <1>3, <2>1 DEF HandlerReleases, IsChannel
    <3>2. QED
      BY <1>6, <2>1, <3>1
  <2>2. CASE ~IsChannel(x)
    <3>1. Update({}, {}) \/ Update({}, {request})
      BY <1>3
    <3>2. QED
      BY <1>6, <2>2, <3>1
  <2>3. QED
    BY <2>1, <2>2
<1>8. /\ ReleasedOnce' /\ HeldAlive' /\ NotYetSent' /\ FreshExchanges'
      /\ Started' /\ Shapes'
  <2>1. R \in SUBSET Buffers /\ \A b \in R : status[b] = "live"
    BY <1>2, <1>7
  <2>2. client' = client \/ client' = [client EXCEPT ![x] = "failed"]
    BY <1>3
  <2>3. \E r \in ServerStates : server' = [server EXCEPT ![x] = r]
    BY <1>3, <1>4
  <2>4. QED
    BY <1>1, <1>2, <1>5, <1>7, <2>1, <2>2, <2>3, ReleaseStep
<1>9. ArrivedHeld'
  <2>1. SUFFICES ASSUME NEW y \in Exchanges, server'[y] = "arrived"
                 PROVE  Buf(y, 1, "request") \in wire'
    BY DEF ArrivedHeld, Buf
  <2>2. y # x /\ server[y] = "arrived"
    BY <1>3, <1>4, <2>1 DEF IndInv, Shapes
  <2>3. Buf(y, 1, "request") \in wire /\ Buf(y, 1, "request").x = y
    BY <2>2, BufShape, FirstElement DEF IndInv, ArrivedHeld, Parts
  <2>4. QED
    BY <1>2, <1>6, <2>2, <2>3
<1>10. QED
  BY <1>5, <1>8, <1>9 DEF IndInv
-----------------------------------------------------------------------------
(* The two steps that send.                                                *)

(* Client x, which is sending, allocates A (its own buffers, with the data *)
(* not yet allocated if it is a stream), releases R of them at once, and   *)
(* hands the library none of R.                                            *)
LEMMA SendStep ==
  ASSUME IndInv, NEW x \in Exchanges, client[x] = "sending",
         NEW A \in SUBSET Buffers, NEW R \in SUBSET A, Update(A, R),
         wire \subseteq wire', wire' \subseteq (wire \cup A) \ R,
         \A b \in A : b.x = x,
         \/ IsChannel(x) /\ client' = client
         \/ \E s \in {"waiting", "failed"} : client' = [client EXCEPT ![x] = s],
         UNCHANGED <<inputs, subscriptions, server, parses>>
  PROVE  IndInv'
<1>1. /\ status' \in [Buffers -> Statuses] /\ wire' \subseteq Buffers
      /\ ReleasedOnce' /\ HeldAlive'
  <2>1. R \in SUBSET Buffers /\ \A b \in R : b \in A
    OBVIOUS
  <2>2. QED
    BY <2>1, BufferStep DEF IndInv, Shapes
<1>2. client' \in [Exchanges -> ClientStates]
  BY DEF IndInv, Shapes, ClientStates
<1>3. /\ \A y \in Exchanges : y # x => client'[y] = client[y]
      /\ client'[x] # "none"
      /\ IsChannel(x) \/ client'[x] \in {"waiting", "failed"}
  BY DEF IndInv, Shapes
<1>4. NotYetSent'
  <2>1. SUFFICES ASSUME NEW y \in Exchanges, client'[y] \in {"none", "sending"},
                        ~IsChannel(y)'
                 PROVE  status'[Buf(y, 1, "data")] = "none"
    BY DEF NotYetSent, Buf
  <2> DEFINE data == Buf(y, 1, "data")
  <2>2. ~IsChannel(y)
    BY <2>1 DEF IsChannel, Interaction, MethodOf, inputs
  <2>3. y # x /\ client[y] \in {"none", "sending"}
    BY <1>3, <2>1, <2>2
  <2>4. status[data] = "none" /\ data \in Buffers /\ data.x = y
    BY <2>2, <2>3, BufShape, FirstElement DEF IndInv, NotYetSent, Parts
  <2>5. data \notin A /\ data \notin R
    BY <2>3, <2>4
  <2>6. QED
    BY <2>4, <2>5, UpdateEffect DEF IndInv, Shapes
<1>5. FreshExchanges'
  <2>1. SUFFICES ASSUME NEW y \in Exchanges, y[2] > subscriptions[y[1]]
                 PROVE  client'[y] = "none"
    BY DEF FreshExchanges
  <2>2. client[y] = "none"
    BY <2>1 DEF IndInv, FreshExchanges
  <2>3. QED
    BY <1>3, <2>2
<1>6. Started'
  BY <1>3 DEF IndInv, Started
<1>7. ParsedAlive' /\ ArrivedHeld'
  BY DEF IndInv, ParsedAlive, ArrivedHeld, Buf
<1>8. QED
  BY <1>1, <1>2, <1>4, <1>5, <1>6, <1>7 DEF IndInv, Shapes

(* What Fail and Send do, in the terms of SendStep.                        *)
LEMMA FailIsSendStep ==
  ASSUME IndInv, NEW x \in Exchanges, client[x] = "sending",
         NEW A \in SUBSET Buffers, NEW R \in SUBSET A, Fail(x, A, R),
         \A b \in A : b.x = x, \A b \in R : b \notin wire,
         UNCHANGED <<inputs, subscriptions, server, parses>>
  PROVE  IndInv'
<1>1. Update(A, R) /\ wire' = wire /\ client' = [client EXCEPT ![x] = "failed"]
  BY DEF Fail
<1>2. wire \subseteq wire' /\ wire' \subseteq (wire \cup A) \ R
  BY <1>1
<1>3. QED
  BY <1>1, <1>2, SendStep

(* Both ways to send are steps of SendStep.                                *)
LEMMA SendIsSendStep ==
  ASSUME IndInv, NEW x \in Exchanges, client[x] = "sending",
         NEW e \in 1 .. MaxElements, NEW parts \in SUBSET Parts,
         Send(x, e, parts),
         \/ IsChannel(x) /\ client' = client
         \/ client' = [client EXCEPT ![x] = "waiting"],
         UNCHANGED <<inputs, subscriptions, server, parses>>
  PROVE  IndInv'
<1>1. PICK A : A = {Buf(x, e, part) : part \in parts}
  OBVIOUS
<1>2. A \in SUBSET Buffers
  BY <1>1, ElementBuffers
<1>3. \A b \in A : b.x = x
  BY <1>1 DEF Buf
<1>4. Update(A, {}) /\ wire' = wire \cup A
  BY <1>1 DEF Send
<1>5. PICK R \in SUBSET A : R = {}
  OBVIOUS
<1>6. /\ Update(A, R) /\ wire \subseteq wire'
      /\ wire' \subseteq (wire \cup A) \ R
  BY <1>4, <1>5
<1>7. QED
  BY <1>2, <1>3, <1>6, SendStep

(* The first element of a call.                                            *)
LEMMA SendRequestKeeps ==
  ASSUME IndInv, NEW x \in Exchanges, SendRequest(x) PROVE IndInv'
<1> DEFINE md == Buf(x, 1, "metadata")
           data == Buf(x, 1, "data")
<1>1. /\ client[x] = "sending" /\ ~IsChannel(x)
      /\ UNCHANGED <<inputs, subscriptions, server, parses>>
  BY DEF SendRequest
<1>2. md \in Buffers /\ data \in Buffers /\ md.x = x /\ data.x = x
  BY BufShape, FirstElement DEF Parts
<1>3. data \notin wire
  BY <1>1, UnallocatedNotHeld DEF IndInv, NotYetSent
<1>4. CASE Fail(x, {md}, {})
  <2> HIDE DEF md, data
  <2>1. {md} \in SUBSET Buffers /\ {} \in SUBSET {md}
    BY <1>2
  <2>2. (\A b \in {md} : b.x = x) /\ (\A b \in {} : b \notin wire)
    BY <1>2
  <2>3. QED
    BY <1>1, <1>4, <2>1, <2>2, FailIsSendStep
<1>5. CASE Fail(x, {md, data}, {data})
  <2> HIDE DEF md, data
  <2>1. {md, data} \in SUBSET Buffers /\ {data} \in SUBSET {md, data}
    BY <1>2
  <2>2. (\A b \in {md, data} : b.x = x) /\ (\A b \in {data} : b \notin wire)
    BY <1>2, <1>3
  <2>3. QED
    BY <1>1, <1>5, <2>1, <2>2, FailIsSendStep
<1>6. CASE /\ Send(x, 1, {"metadata", "data"})
           /\ client' = [client EXCEPT ![x] = "waiting"]
  <2>1. {"metadata", "data"} \in SUBSET Parts
    BY DEF Parts
  <2>2. QED
    BY <1>1, <1>6, <2>1, FirstElement, SendIsSendStep
<1>7. QED
  BY <1>4, <1>5, <1>6 DEF SendRequest

(* The further ones.                                                       *)
LEMMA SendElementKeeps ==
  ASSUME IndInv, NEW x \in Exchanges, NEW e \in 1 .. MaxElements,
         SendElement(x, e)
  PROVE  IndInv'
<1> DEFINE md == Buf(x, e, "metadata")
           data == Buf(x, e, "data")
<1>1. /\ client[x] = "sending" /\ IsChannel(x) /\ status[data] = "none"
      /\ UNCHANGED <<inputs, subscriptions, server, parses>>
  BY DEF SendElement, IsNext
<1>2. md \in Buffers /\ data \in Buffers /\ md.x = x /\ data.x = x
  BY BufShape DEF Parts
<1>3. data \notin wire
  BY <1>1, UnallocatedNotHeld DEF IndInv
<1>4. CASE Fail(x, {data}, {data})
  <2> HIDE DEF md, data
  <2>1. {data} \in SUBSET Buffers /\ {data} \in SUBSET {data}
    BY <1>2
  <2>2. (\A b \in {data} : b.x = x) /\ (\A b \in {data} : b \notin wire)
    BY <1>2, <1>3
  <2>3. QED
    BY <1>1, <1>4, <2>1, <2>2, FailIsSendStep
<1>5. CASE Fail(x, {data, md}, {})
  <2> HIDE DEF md, data
  <2>1. {data, md} \in SUBSET Buffers /\ {} \in SUBSET {data, md}
    BY <1>2
  <2>2. (\A b \in {data, md} : b.x = x) /\ (\A b \in {} : b \notin wire)
    BY <1>2
  <2>3. QED
    BY <1>1, <1>5, <2>1, <2>2, FailIsSendStep
<1>6. CASE /\ Send(x, e, IF once[x[1]] THEN {"data"} ELSE {"data", "metadata"})
           /\ client' = client
  <2>1. (IF once[x[1]] THEN {"data"} ELSE {"data", "metadata"}) \in SUBSET Parts
    BY DEF Parts
  <2>2. QED
    BY <1>1, <1>6, <2>1, SendIsSendStep
<1>7. QED
  BY <1>4, <1>5, <1>6 DEF SendElement

(* Reading the metadata changes none of what the invariant is about.       *)
LEMMA ReadMetadataKeeps ==
  ASSUME IndInv, NEW x \in Exchanges, ReadMetadata(x) PROVE IndInv'
<1>1. UNCHANGED <<inputs, subscriptions, client, server, status, wire, parses>>
  BY DEF ReadMetadata
<1>2. QED
  BY <1>1
  DEF inputs, IndInv, Shapes, ReleasedOnce, ParsedAlive, HeldAlive,
      ArrivedHeld, NotYetSent, FreshExchanges, Started, IsChannel,
      Interaction, MethodOf
-----------------------------------------------------------------------------
(* Every step keeps the invariant.                                         *)
LEMMA NextInv == IndInv /\ [Next]_vars => IndInv'
<1> SUFFICES ASSUME IndInv, [Next]_vars PROVE IndInv'
  OBVIOUS
<1>1. CASE UNCHANGED vars
  BY <1>1
  DEF vars, inputs, IndInv, Shapes, ReleasedOnce, ParsedAlive, HeldAlive,
      ArrivedHeld, NotYetSent, FreshExchanges, Started, IsChannel,
      Interaction, MethodOf
<1>2. CASE \E c \in Calls : Subscribe(c)
  BY <1>2, SubscribeKeeps
<1>3. CASE \E x \in Exchanges :
             SendRequest(x) \/ Handle(x) \/ ReadMetadata(x) \/ Lose(x)
  BY <1>3, SendRequestKeeps, HandleKeeps, ReadMetadataKeeps, LoseKeeps
<1>4. CASE \E x \in Exchanges : \E e \in 1 .. MaxElements :
             \/ SendElement(x, e) \/ Deliver(x, e) \/ Receive(x, e)
             \/ Pull(x, e) \/ Respond(x, e)
  BY <1>4, SendElementKeeps, DeliverKeeps, ReceiveKeeps, PullKeeps,
     RespondKeeps
<1>5. QED
  BY <1>1, <1>2, <1>3, <1>4 DEF Next

(* No buffer is released a second time, on any path of any call: not by    *)
(* the handler and the deserializer of a channel's first payload, and not  *)
(* when a call is subscribed to again.                                     *)
THEOREM AlwaysReleasedOnce == Spec => []ReleasedOnce
<1>1. IndInv => ReleasedOnce
  BY DEF IndInv
<1>2. QED
  BY <1>1, InitInv, NextInv, PTL DEF Spec

(* No payload is parsed after its release.                                 *)
THEOREM AlwaysParsedAlive == Spec => []ParsedAlive
<1>1. IndInv => ParsedAlive
  BY DEF IndInv
<1>2. QED
  BY <1>1, InitInv, NextInv, PTL DEF Spec
-----------------------------------------------------------------------------
IsBuffer(buf, n) == DOMAIN buf = 0 .. n - 1

(* What fits into a buffer of n bytes.                                     *)
LEMMA BufferFits ==
  ASSUME NEW n \in Nat, NEW buf, IsBuffer(buf, n), NEW offset, NEW size
  PROVE  Fits(buf, offset, size) <=> offset + size <= n
<1>1. Cardinality(0 .. n - 1) = n
  BY FS_Interval
<1>2. QED
  BY <1>1 DEF IsBuffer, Fits

(* Setting changes no length.                                              *)
LEMMA SetKeepsBuffer ==
  ASSUME NEW n \in Nat, NEW buf, IsBuffer(buf, n), NEW offset, NEW size, NEW v
  PROVE  IsBuffer(Set(buf, offset, size, v), n)
BY DEF IsBuffer, Set

(* What was set last at a place is read there.                             *)
LEMMA GetWhatWasSet ==
  ASSUME NEW n \in Nat, NEW buf, IsBuffer(buf, n),
         NEW offset \in Nat, NEW size \in Nat \ {0}, offset + size <= n, NEW v
  PROVE  Get(Set(buf, offset, size, v), offset, size) = v
<1> DEFINE new == Set(buf, offset, size, v)
<1>1. Fits(new, offset, size)
  BY SetKeepsBuffer, BufferFits
<1>2. \A i \in 0 .. size - 1 : new[offset + i] = <<v, i>>
  <2>1. SUFFICES ASSUME NEW i \in 0 .. size - 1
                 PROVE  new[offset + i] = <<v, i>>
    OBVIOUS
  <2>2. /\ offset + i \in DOMAIN buf /\ (offset + i) - offset = i
        /\ offset + i \in offset .. offset + size - 1
    BY DEF IsBuffer
  <2>3. QED
    BY <2>2 DEF Set
<1>3. new[offset] = <<v, 0>>
  <2>1. 0 \in 0 .. size - 1 /\ offset + 0 = offset
    OBVIOUS
  <2>2. QED
    BY <1>2, <2>1
<1>4. new[offset][1] = v
  BY <1>3
<1>5. QED
  BY <1>1, <1>2, <1>4 DEF Get

(* Setting elsewhere changes nothing of what is read.                      *)
LEMMA GetOfOtherPlace ==
  ASSUME NEW n \in Nat, NEW buf, IsBuffer(buf, n),
         NEW offset \in Nat, NEW size \in Nat \ {0}, offset + size <= n,
         NEW other \in Nat, NEW length \in Nat, NEW v,
         other + length <= offset \/ offset + size <= other
  PROVE  Get(Set(buf, other, length, v), offset, size) = Get(buf, offset, size)
<1> DEFINE new == Set(buf, other, length, v)
<1>1. Fits(new, offset, size) /\ Fits(buf, offset, size)
  BY SetKeepsBuffer, BufferFits
<1>2. \A i \in 0 .. size - 1 : new[offset + i] = buf[offset + i]
  <2>1. SUFFICES ASSUME NEW i \in 0 .. size - 1
                 PROVE  new[offset + i] = buf[offset + i]
    OBVIOUS
  <2>2. /\ offset + i \in DOMAIN buf
        /\ offset + i \notin other .. other + length - 1
    BY DEF IsBuffer
  <2>3. QED
    BY <2>2 DEF Set
<1>3. new[offset] = buf[offset]
  <2>1. 0 \in 0 .. size - 1 /\ offset + 0 = offset
    OBVIOUS
  <2>2. QED
    BY <1>2, <2>1
<1>4. QED
  BY <1>1, <1>2, <1>3 DEF Get

(* Every field of the frame is read where encode wrote it, although reader *)
(* and writer each add up the sizes of the fields before it.               *)
THEOREM HeaderReadsBack ==
  ASSUME NEW namespaceId, NEW serviceId, NEW methodId, NEW length
  PROVE  LET buf == Header(directBuffer(computeLength), namespaceId, serviceId,
                           methodId, length)
         IN  /\ namespaceIdOf(buf) = namespaceId
             /\ serviceIdOf(buf) = serviceId
             /\ methodIdOf(buf) = methodId
             /\ metadataLengthOf(buf) = length
<1> DEFINE b0 == directBuffer(computeLength)
           b1 == Set(b0, 0, 2, 1)
           b2 == Set(b1, 2, 4, namespaceId)
           b3 == Set(b2, 6, 4, serviceId)
           b4 == Set(b3, 10, 4, methodId)
           b5 == Set(b4, 14, 4, length)
<1> USE DEF VERSION_SIZE, NAMESPACE_ID_SIZE, SERVICE_ID_SIZE, METHOD_ID_SIZE,
            METADATA_LENGTH_SIZE
<1>1. Header(b0, namespaceId, serviceId, methodId, length) = b5
  BY DEF Header
<1>2. IsBuffer(b0, 18)
  BY DEF IsBuffer, directBuffer, computeLength
<1> HIDE DEF b0
<1>3. IsBuffer(b1, 18)
  BY <1>2, SetKeepsBuffer
<1> HIDE DEF b1
<1>4. IsBuffer(b2, 18)
  BY <1>3, SetKeepsBuffer
<1>5. Get(b2, 2, 4) = namespaceId
  BY <1>3, GetWhatWasSet
<1> HIDE DEF b2
<1>6. IsBuffer(b3, 18)
  BY <1>4, SetKeepsBuffer
<1>7. Get(b3, 2, 4) = namespaceId /\ Get(b3, 6, 4) = serviceId
  BY <1>4, <1>5, GetWhatWasSet, GetOfOtherPlace
<1> HIDE DEF b3
<1>8. IsBuffer(b4, 18)
  BY <1>6, SetKeepsBuffer
<1>9. /\ Get(b4, 2, 4) = namespaceId /\ Get(b4, 6, 4) = serviceId
      /\ Get(b4, 10, 4) = methodId
  BY <1>6, <1>7, GetWhatWasSet, GetOfOtherPlace
<1> HIDE DEF b4
<1>10. /\ Get(b5, 2, 4) = namespaceId /\ Get(b5, 6, 4) = serviceId
       /\ Get(b5, 10, 4) = methodId /\ Get(b5, 14, 4) = length
  BY <1>8, <1>9, GetWhatWasSet, GetOfOtherPlace
<1> HIDE DEF b5
<1>11. QED
  BY <1>1, <1>10
  DEF b0, namespaceIdOf, serviceIdOf, methodIdOf, metadataLengthOf
-----------------------------------------------------------------------------
(* The frame of a request is its own from the moment the library has its   *)
(* first element, for no payload of it goes without metadata: the flag     *)
(* stays unset.                                                            *)
Framed(x) ==
  /\ namespaceIdOf(frames[x]) = Namespace
  /\ serviceIdOf(frames[x]) = Service
  /\ methodIdOf(frames[x]) = MethodOf(x)

FirstSent(x) ==
  \E b \in wire : b.x = x /\ b.element = 1 /\ b.part \in {"metadata", "data"}

FramesWritten ==
  \A x \in Exchanges : server[x] # "none" \/ FirstSent(x) => Framed(x)

(* encode fails if there is anything to read, so an element that could not *)
(* be encoded when it was sent could not be later either (OnlyKnownLeaks). *)
Unread == \A c \in Calls : unread[c] = call[c].length

OtherShapes ==
  /\ serverMethods \in ServerVersions
  /\ call \in [Calls -> [method : Methods, length : MetadataLengths]]
  /\ unread \in [Calls -> MetadataLengths]
  /\ once = [c \in Calls |-> FALSE]
  /\ DOMAIN frames = Exchanges
  /\ invoked \in [Exchanges -> SUBSET Methods]
  /\ stale \subseteq Exchanges

FrameInv == OtherShapes /\ Unread /\ FramesWritten /\ RoutedByOwnIds
-----------------------------------------------------------------------------
(* There are no frames at first.                                           *)
LEMMA FrameInitInv == Init => FrameInv
<1> SUFFICES ASSUME Init PROVE FrameInv
  OBVIOUS
<1>1. OtherShapes /\ Unread
  BY DEF Init, OtherShapes, Unread
<1>2. FramesWritten /\ RoutedByOwnIds
  BY DEF Init, FramesWritten, FirstSent, RoutedByOwnIds
<1>3. QED
  BY <1>1, <1>2 DEF FrameInv

(* A step that writes no frame and invokes nothing keeps the invariant if  *)
(* it hands the library no request and starts no exchange but one whose    *)
(* first element the library had.                                          *)
LEMMA OtherStep ==
  ASSUME FrameInv, UNCHANGED <<inputs, unread, once, frames, invoked>>,
         stale' \subseteq Exchanges,
         \A b \in wire' : b \in wire \/ b.part \notin {"metadata", "data"},
         \A x \in Exchanges :
           server'[x] # "none" => server[x] # "none" \/ FirstSent(x),
         \A x \in Exchanges :
           server'[x] = "unsupported" => server[x] = "unsupported"
  PROVE  FrameInv'
<1>1. OtherShapes' /\ Unread'
  BY DEF FrameInv, OtherShapes, Unread, inputs
<1>2. FramesWritten'
  <2>1. SUFFICES ASSUME NEW x \in Exchanges, server'[x] # "none" \/ FirstSent(x)'
                 PROVE  Framed(x)'
    BY DEF FramesWritten
  <2>2. server[x] # "none" \/ FirstSent(x)
    BY <2>1 DEF FirstSent
  <2>3. Framed(x)
    BY <2>2 DEF FrameInv, FramesWritten
  <2>4. QED
    BY <2>3 DEF Framed, MethodOf, inputs
<1>3. RoutedByOwnIds'
  BY DEF FrameInv, RoutedByOwnIds, MethodOf, inputs
<1>4. QED
  BY <1>1, <1>2, <1>3 DEF FrameInv
-----------------------------------------------------------------------------
(* The call of an exchange, with its metadata unread.                      *)
LEMMA CallOf ==
  ASSUME FrameInv, NEW x \in Exchanges
  PROVE  /\ x[1] \in Calls /\ call[x[1]].length \in Nat
         /\ unread[x[1]] = call[x[1]].length /\ ~once[x[1]]
<1>1. x[1] \in Calls
  BY DEF Exchanges
<1>2. QED
  BY <1>1, StubsAssumption DEF FrameInv, OtherShapes, Unread

(* encode succeeds only if there is nothing to read.                       *)
LEMMA EncodeReadsNothing ==
  ASSUME FrameInv, NEW x \in Exchanges, CanEncode(x), Encode(x)
  PROVE  unread' = unread
<1>1. IsBuffer(directBuffer(computeLength), computeLength) /\ computeLength \in Nat
  BY DEF IsBuffer, directBuffer, computeLength, VERSION_SIZE,
         NAMESPACE_ID_SIZE, SERVICE_ID_SIZE, METHOD_ID_SIZE,
         METADATA_LENGTH_SIZE
<1>2. computeLength + unread[x[1]] <= computeLength
  BY <1>1, BufferFits DEF CanEncode, EncodeFits
<1>3. unread[x[1]] = 0
  BY <1>1, <1>2, CallOf
<1>4. QED
  BY <1>3 DEF Encode, LeftToRead, FrameInv, OtherShapes

(* Sending an element with its metadata.                                   *)
LEMMA SendKeepsFrames ==
  ASSUME FrameInv, NEW x \in Exchanges, NEW e \in 1 .. MaxElements,
         CanEncode(x), Encode(x), Send(x, e, {"metadata", "data"}),
         UNCHANGED <<inputs, once, server, invoked, stale>>
  PROVE  FrameInv'
<1>1. unread' = unread
  BY EncodeReadsNothing
<1>2. frames' = [frames EXCEPT ![x] = IF e = 1 THEN metadataBuf(x) ELSE @]
  BY DEF Send
<1>3. \A b \in wire' : b \in wire \/ (b.x = x /\ b.element = e)
  BY DEF Send, Buf
<1>4. OtherShapes' /\ Unread'
  BY <1>1, <1>2 DEF FrameInv, OtherShapes, Unread, inputs
<1>5. ASSUME e = 1 PROVE Framed(x)'
  <2>1. frames'[x] = metadataBuf(x)
    BY <1>2, <1>5 DEF FrameInv, OtherShapes
  <2>2. /\ namespaceIdOf(metadataBuf(x)) = Namespace
        /\ serviceIdOf(metadataBuf(x)) = Service
        /\ methodIdOf(metadataBuf(x)) = MethodOf(x)
    BY HeaderReadsBack DEF metadataBuf
  <2>3. QED
    BY <2>1, <2>2, CallOf DEF Framed, MethodOf, inputs
<1>6. FramesWritten'
  <2>1. SUFFICES ASSUME NEW y \in Exchanges, server'[y] # "none" \/ FirstSent(y)'
                 PROVE  Framed(y)'
    BY DEF FramesWritten
  <2>2. CASE y = x /\ e = 1
    BY <1>5, <2>2
  <2>3. CASE ~(y = x /\ e = 1)
    <3>1. server[y] # "none" \/ FirstSent(y)
      BY <1>3, <2>1, <2>3 DEF FirstSent
    <3>2. Framed(y)
      BY <3>1 DEF FrameInv, FramesWritten
    <3>3. frames'[y] = frames[y]
      BY <1>2, <2>3 DEF FrameInv, OtherShapes
    <3>4. QED
      BY <3>2, <3>3 DEF Framed, MethodOf, inputs
  <2>4. QED
    BY <2>2, <2>3
<1>7. RoutedByOwnIds'
  BY DEF FrameInv, RoutedByOwnIds, MethodOf, inputs
<1>8. QED
  BY <1>4, <1>6, <1>7 DEF FrameInv

(* A failure sends no frame.                                               *)
LEMMA FailKeepsFrames ==
  ASSUME FrameInv, NEW x \in Exchanges, NEW A, NEW R, Fail(x, A, R),
         UNCHANGED <<inputs, unread, once, server, invoked, stale>>
  PROVE  FrameInv'
<1>1. UNCHANGED <<wire, frames>>
  BY DEF Fail
<1>2. stale' \subseteq Exchanges
  BY DEF FrameInv, OtherShapes
<1>3. QED
  BY <1>1, <1>2, OtherStep

(* A request is framed with its own ids.                                   *)
LEMMA SendRequestKeepsFrames ==
  ASSUME FrameInv, NEW x \in Exchanges, SendRequest(x) PROVE FrameInv'
<1>1. UNCHANGED <<inputs, once, server, invoked, stale>>
  BY DEF SendRequest
<1>2. ASSUME NEW A, NEW R, Fail(x, A, R),
             unread' = unread \/ (CanEncode(x) /\ Encode(x))
      PROVE  FrameInv'
  BY <1>1, <1>2, EncodeReadsNothing, FailKeepsFrames
<1>3. CASE CanEncode(x) /\ Encode(x) /\ Send(x, 1, {"metadata", "data"})
  BY <1>1, <1>3, FirstElement, SendKeepsFrames
<1>4. QED
  BY <1>2, <1>3 DEF SendRequest

(* So is every further element.                                            *)
LEMMA SendElementKeepsFrames ==
  ASSUME FrameInv, NEW x \in Exchanges, NEW e \in 1 .. MaxElements,
         SendElement(x, e)
  PROVE  FrameInv'
<1>1. UNCHANGED <<inputs, server, invoked, stale>> /\ ~once[x[1]]
  BY CallOf DEF SendElement
<1>2. ASSUME NEW A, NEW R, Fail(x, A, R), UNCHANGED <<once, unread>>
      PROVE  FrameInv'
  BY <1>1, <1>2, FailKeepsFrames
<1>3. ASSUME CanEncode(x), Encode(x), Send(x, e, {"data", "metadata"}),
             once' = [once EXCEPT ![x[1]] = OnceAfter(@)]
      PROVE  FrameInv'
  <2>1. once' = once
    BY <1>3, CallOf DEF OnceAfter, FrameInv, OtherShapes
  <2>2. {"data", "metadata"} = {"metadata", "data"}
    OBVIOUS
  <2>3. Send(x, e, {"metadata", "data"})
    BY <1>3, <2>2
  <2>4. QED
    BY <1>1, <1>3, <2>1, <2>3, SendKeepsFrames
<1>4. QED
  BY <1>1, <1>2, <1>3 DEF SendElement
-----------------------------------------------------------------------------
(* What arrives is a request with the frame it was sent with.              *)
LEMMA DeliverKeepsFrames ==
  ASSUME IndInv, FrameInv, NEW x \in Exchanges, NEW e \in 1 .. MaxElements,
         Deliver(x, e)
  PROVE  FrameInv'
<1>1. /\ UNCHANGED <<inputs, unread, once, frames, invoked, stale>>
      /\ server' = IF e = 1 THEN [server EXCEPT ![x] = "arrived"] ELSE server
      /\ e = 1 => FirstSent(x)
  BY DEF Deliver, FirstSent
<1>2. \A b \in wire' : b \in wire \/ b.part \notin {"metadata", "data"}
  BY DEF Deliver, Buf
<1>3. \A y \in Exchanges :
        /\ server'[y] # "none" => server[y] # "none" \/ FirstSent(y)
        /\ server'[y] = "unsupported" => server[y] = "unsupported"
  BY <1>1 DEF IndInv, Shapes
<1>4. QED
  BY <1>1, <1>2, <1>3, OtherStep DEF FrameInv, OtherShapes

(* The other steps of an exchange, but for Handle: they touch the server's *)
(* side only of an exchange that has arrived.                              *)
LEMMA ServerStep ==
  ASSUME IndInv, FrameInv, NEW x \in Exchanges,
         UNCHANGED <<inputs, unread, once, frames, invoked>>,
         stale' \subseteq Exchanges,
         \A b \in wire' : b \in wire \/ b.part \notin {"metadata", "data"},
         \/ server' = server
         \/ server[x] # "none" /\ \E r \in {"failed", "cancelled"} :
                                     server' = [server EXCEPT ![x] = r]
  PROVE  FrameInv'
<1>1. \A y \in Exchanges :
        /\ server'[y] # "none" => server[y] # "none"
        /\ server'[y] = "unsupported" => server[y] = "unsupported"
  BY DEF IndInv, Shapes
<1>2. QED
  BY <1>1, OtherStep

(* Losing an exchange adds nothing to the wire.                            *)
LEMMA LoseKeepsFrames ==
  ASSUME IndInv, FrameInv, NEW x \in Exchanges, Lose(x) PROVE FrameInv'
<1>1. /\ UNCHANGED <<inputs, unread, once, frames, invoked, stale>>
      /\ wire' \subseteq wire
      /\ server' = [server EXCEPT ![x] =
                      IF @ \in {"arrived", "serving"} THEN "cancelled" ELSE @]
  BY DEF Lose
<1>2. \/ server' = server
      \/ server[x] # "none" /\ server' = [server EXCEPT ![x] = "cancelled"]
  BY <1>1 DEF IndInv, Shapes
<1>3. QED
  BY <1>1, <1>2, ServerStep DEF FrameInv, OtherShapes

(* The client receives answers, which carry no ids.                        *)
LEMMA ReceiveKeepsFrames ==
  ASSUME IndInv, FrameInv, NEW x \in Exchanges, NEW e \in 1 .. MaxElements,
         Receive(x, e)
  PROVE  FrameInv'
<1>1. /\ UNCHANGED <<inputs, unread, once, frames, invoked, stale, server>>
      /\ wire' \subseteq wire
  BY DEF Receive
<1>2. QED
  BY <1>1, ServerStep DEF FrameInv, OtherShapes

(* Elements that are pulled carry no new ids.                              *)
LEMMA PullKeepsFrames ==
  ASSUME IndInv, FrameInv, NEW x \in Exchanges, NEW e \in 1 .. MaxElements,
         Pull(x, e)
  PROVE  FrameInv'
<1>1. /\ UNCHANGED <<inputs, unread, once, frames, invoked, stale>>
      /\ wire' \subseteq wire /\ server[x] = "serving"
      /\ server' = server \/ server' = [server EXCEPT ![x] = "failed"]
  BY DEF Pull
<1>2. QED
  BY <1>1, ServerStep DEF FrameInv, OtherShapes

(* Answers carry no ids.                                                   *)
LEMMA RespondKeepsFrames ==
  ASSUME IndInv, FrameInv, NEW x \in Exchanges, NEW e \in 1 .. MaxElements,
         Respond(x, e)
  PROVE  FrameInv'
<1>1. /\ UNCHANGED <<inputs, unread, once, frames, invoked, stale>>
      /\ server[x] = "serving"
      /\ server' = server \/ server' = [server EXCEPT ![x] = "failed"]
  BY DEF Respond
<1>2. \A b \in wire' : b \in wire \/ b.part \notin {"metadata", "data"}
  BY DEF Respond, Buf
<1>3. QED
  BY <1>1, <1>2, ServerStep DEF FrameInv, OtherShapes

(* The step that looks the ids up: they are the request's own.             *)
LEMMA HandleKeepsFrames ==
  ASSUME IndInv, FrameInv, NEW x \in Exchanges, Handle(x) PROVE FrameInv'
<1>1. /\ server[x] = "arrived" /\ wire' \subseteq wire
      /\ UNCHANGED <<inputs, unread, once, frames, stale>>
  BY DEF Handle
<1>2. Framed(x)
  BY <1>1 DEF FrameInv, FramesWritten
<1>3. PICK result \in Results(x) :
        /\ server' = [server EXCEPT ![x] = result]
        /\ invoked' = IF result \in {"threw", "serving"}
                      THEN [invoked EXCEPT ![x] = @ \cup {methodIdOf(frames[x])}]
                      ELSE invoked
  BY DEF Handle
<1>4. MethodOf(x) \in Methods
  BY CallOf DEF MethodOf, FrameInv, OtherShapes
<1>5. OtherShapes' /\ Unread'
  <2>1. invoked' \in [Exchanges -> SUBSET Methods]
    BY <1>2, <1>3, <1>4 DEF Framed, FrameInv, OtherShapes
  <2>2. QED
    BY <1>1, <2>1 DEF FrameInv, OtherShapes, Unread, inputs
<1>6. FramesWritten'
  <2>1. SUFFICES ASSUME NEW y \in Exchanges, server'[y] # "none" \/ FirstSent(y)'
                 PROVE  Framed(y)'
    BY DEF FramesWritten
  <2>2. server[y] # "none" \/ FirstSent(y)
    BY <1>1, <1>3, <2>1 DEF FirstSent, IndInv, Shapes
  <2>3. Framed(y)
    BY <2>2 DEF FrameInv, FramesWritten
  <2>4. QED
    BY <1>1, <2>3 DEF Framed, MethodOf, inputs
<1>7. result = "unsupported" => MethodOf(x) \notin serverMethods
  BY <1>2 DEF Results, Framed, Interaction
<1>8. RoutedByOwnIds'
  <2>1. SUFFICES ASSUME NEW y \in Exchanges
                 PROVE  /\ invoked'[y] \subseteq {MethodOf(y)}
                        /\ server'[y] = "unsupported" => MethodOf(y) \notin serverMethods
    BY <1>1 DEF RoutedByOwnIds, MethodOf, inputs
  <2>2. /\ invoked[y] \subseteq {MethodOf(y)}
        /\ server[y] = "unsupported" => MethodOf(y) \notin serverMethods
    BY DEF FrameInv, RoutedByOwnIds
  <2>3. invoked'[y] \subseteq {MethodOf(y)}
    BY <1>2, <1>3, <2>2 DEF Framed, FrameInv, OtherShapes
  <2>4. server'[y] = "unsupported" => MethodOf(y) \notin serverMethods
    BY <1>3, <1>7, <2>2 DEF IndInv, Shapes
  <2>5. QED
    BY <2>3, <2>4
<1>9. QED
  BY <1>5, <1>6, <1>8 DEF FrameInv
-----------------------------------------------------------------------------
(* Every step keeps the invariant.                                         *)
LEMMA FrameNextInv == IndInv /\ FrameInv /\ [Next]_vars => FrameInv'
<1> SUFFICES ASSUME IndInv, FrameInv, [Next]_vars PROVE FrameInv'
  OBVIOUS
<1>1. CASE UNCHANGED vars
  <2>1. /\ UNCHANGED <<inputs, unread, once, frames, invoked, wire, server, stale>>
    BY <1>1 DEF vars
  <2>2. QED
    BY <2>1, OtherStep DEF FrameInv, OtherShapes
<1>2. ASSUME NEW c \in Calls, Subscribe(c) PROVE FrameInv'
  <2>1. /\ UNCHANGED <<inputs, unread, once, frames, invoked, wire, server, stale>>
    BY <1>2 DEF Subscribe
  <2>2. QED
    BY <2>1, OtherStep DEF FrameInv, OtherShapes
<1>3. ASSUME NEW x \in Exchanges, ReadMetadata(x) PROVE FrameInv'
  <2>1. /\ UNCHANGED <<inputs, unread, once, frames, invoked, wire, server>>
        /\ stale' \subseteq stale \cup {x}
    BY <1>3 DEF ReadMetadata
  <2>2. QED
    BY <2>1, OtherStep DEF FrameInv, OtherShapes
<1>4. CASE \E x \in Exchanges :
             SendRequest(x) \/ Handle(x) \/ ReadMetadata(x) \/ Lose(x)
  BY <1>3, <1>4, SendRequestKeepsFrames, HandleKeepsFrames, LoseKeepsFrames
<1>5. CASE \E x \in Exchanges : \E e \in 1 .. MaxElements :
             \/ SendElement(x, e) \/ Deliver(x, e) \/ Receive(x, e)
             \/ Pull(x, e) \/ Respond(x, e)
  BY <1>5, SendElementKeepsFrames, DeliverKeepsFrames, ReceiveKeepsFrames,
     PullKeepsFrames, RespondKeepsFrames
<1>6. QED
  BY <1>1, <1>2, <1>4, <1>5 DEF Next

(* Both invariants hold in every reachable state.                          *)
LEMMA InvariantsHold == Spec => [](IndInv /\ FrameInv)
<1>1. Init => IndInv /\ FrameInv
  BY InitInv, FrameInitInv
<1>2. IndInv /\ FrameInv /\ [Next]_vars => (IndInv /\ FrameInv)'
  BY NextInv, FrameNextInv
<1>3. QED
  BY <1>1, <1>2, PTL DEF Spec

(* Every reachable state has its shape.                                    *)
THEOREM StubsTypeCorrect == Spec => []TypeOK
<1>1. IndInv /\ FrameInv => TypeOK
  BY DEF IndInv, Shapes, FrameInv, OtherShapes, TypeOK, Statuses, ClientStates,
         ServerStates
<1>2. QED
  BY <1>1, InvariantsHold, PTL

(* A request invokes the method it was made for and no other, and a server *)
(* that answers that it does not support a request has no such method.     *)
THEOREM AlwaysRoutedByOwnIds == Spec => []RoutedByOwnIds
<1>1. FrameInv => RoutedByOwnIds
  BY DEF FrameInv
<1>2. QED
  BY <1>1, InvariantsHold, PTL

(* No request arrives without its ids, whichever subscription of its call  *)
(* it belongs to.                                                          *)
THEOREM AlwaysCarriesIds == Spec => []RequestsCarryIds
<1>1. FrameInv => RequestsCarryIds
  BY DEF FrameInv, FramesWritten, Framed, RequestsCarryIds
<1>2. QED
  BY <1>1, InvariantsHold, PTL
-----------------------------------------------------------------------------
Md(x, e)   == Buf(x, e, "metadata")
Data(x, e) == Buf(x, e, "data")
Req(x, e)  == Buf(x, e, "request")

Elements == 1 .. MaxElements

(* An element is sent with its data, and arrives after it was sent.        *)
DataFirst ==
  \A x \in Exchanges, e \in Elements :
    status[Req(x, e)] # "none" \/ Md(x, e) \in wire =>
      status[Data(x, e)] # "none"

(* Of an element whose metadata leaked, nothing was sent.                  *)
NothingOfIt ==
  \A x \in Exchanges, e \in Elements :
    Md(x, e) \in Leaked => Data(x, e) \notin wire

(* A request that arrived was allocated; one that was read too late was    *)
(* released by then.                                                       *)
ArrivedAllocated ==
  \A x \in Exchanges : server[x] # "none" => status[Req(x, 1)] # "none"

StaleReleased ==
  \A x \in stale : status[Req(x, 1)] \notin {"none", "live"}

LeakInv == /\ KnownLeaks /\ DataFirst /\ NothingOfIt
           /\ ArrivedAllocated /\ StaleReleased
-----------------------------------------------------------------------------
(* The three buffers of an element are three.                              *)
LEMMA ElementParts ==
  ASSUME NEW x \in Exchanges, NEW e \in Elements
  PROVE  /\ Md(x, e) \in Buffers /\ Data(x, e) \in Buffers /\ Req(x, e) \in Buffers
         /\ Md(x, e).part = "metadata" /\ Data(x, e).part = "data"
         /\ Req(x, e).part = "request"
         /\ Md(x, e).x = x /\ Data(x, e).x = x /\ Req(x, e).x = x
         /\ Md(x, e).element = e /\ Data(x, e).element = e
         /\ Req(x, e).element = e
BY BufShape DEF Md, Data, Req, Parts, Elements

(* A buffer is known by its exchange, its element and its part.            *)
LEMMA BufferIs ==
  ASSUME NEW b \in Buffers
  PROVE  /\ b.x \in Exchanges /\ b.element \in Elements
         /\ b = Buf(b.x, b.element, b.part)
         /\ [b EXCEPT !.part = "request"] = Req(b.x, b.element)
BY DEF Buffers, Buf, Req, Elements

(* Nothing is allocated at first.                                          *)
LEMMA LeakInitInv == Init => LeakInv
<1> SUFFICES ASSUME Init PROVE LeakInv
  OBVIOUS
<1>1. KnownLeaks /\ NothingOfIt
  BY DEF Init, KnownLeaks, NothingOfIt, Leaked, Live
<1>2. DataFirst /\ ArrivedAllocated /\ StaleReleased
  BY ElementParts DEF Init, DataFirst, ArrivedAllocated, StaleReleased
<1>3. QED
  BY <1>1, <1>2 DEF LeakInv

(* A buffer that is allocated stays so, and is not alive again.            *)
LEMMA Onward ==
  ASSUME IndInv, NEW A, NEW R, Update(A, R), NEW b \in Buffers
  PROVE  /\ status[b] # "none" => status'[b] # "none"
         /\ status[b] \notin {"none", "live"} /\ b \notin A =>
              status'[b] \notin {"none", "live"}
         /\ b \in A => status'[b] # "none"
         /\ status'[b] = "live" => b \notin R /\ (b \in A \/ status[b] = "live")
         /\ b \notin A /\ b \notin R => status'[b] = status[b]
         /\ status[b] = "none" /\ b \notin A /\ b \in R => status'[b] = "twice"
BY DEF Update, Released, IndInv, Shapes, Statuses

(* What a step must see to: everything it allocates or takes from the      *)
(* library is released, handed to the library or a known leak; a request   *)
(* is allocated once, for an element that was sent; metadata and data are  *)
(* handed over together; a failed client, and a server that found nothing, *)
(* stay as they are.                                                       *)
Tidy(A, R) ==
  /\ A \subseteq Buffers /\ Update(A, R) /\ wire' \subseteq wire \cup A
  /\ \A b \in A \cup wire : b \in R \/ b \in wire' \/ KnownLeak(b)'
  /\ \A b \in wire : b \in R \/ b \in wire' \/ b.part = "request"
  /\ \A x \in Exchanges, e \in Elements :
       /\ Req(x, e) \in A => /\ status[Req(x, e)] = "none"
                             /\ Md(x, e) \in wire \/ Data(x, e) \in wire
       /\ Md(x, e) \in A => IF Md(x, e) \in wire' THEN Data(x, e) \in A
                            ELSE Data(x, e) \notin wire'
       /\ Data(x, e) \in A /\ Data(x, e) \in wire' => Md(x, e) \in wire'
  /\ \A x \in Exchanges :
       /\ client[x] = "failed" => client'[x] = "failed"
       /\ server[x] \in {"notFound", "notImplemented"} => server'[x] = server[x]
       /\ server'[x] # "none" => server[x] # "none" \/ Req(x, 1) \in A
  /\ \A x \in stale' :
       x \in stale \/ (server[x] # "none" /\ status[Req(x, 1)] # "live")

(* A tidy step keeps the invariant.                                        *)
LEMMA TidyKeeps ==
  ASSUME IndInv, IndInv', FrameInv, FrameInv', LeakInv, UNCHANGED inputs,
         NEW A, NEW R, Tidy(A, R)
  PROVE  LeakInv'
<1>1. Update(A, R)
  BY DEF Tidy
<1>2. DataFirst'
  <2>1. SUFFICES ASSUME NEW x \in Exchanges, NEW e \in Elements,
                        status'[Req(x, e)] # "none" \/ Md(x, e) \in wire'
                 PROVE  status'[Data(x, e)] # "none"
    BY DEF DataFirst, Req, Md, Data, Buf, Exchanges, Elements
  <2>2. /\ Data(x, e) \in Buffers /\ Req(x, e) \in Buffers /\ Md(x, e) \in Buffers
    BY ElementParts
  <2>3. CASE status[Data(x, e)] # "none"
    BY <1>1, <2>2, <2>3, Onward
  <2>4. CASE status[Data(x, e)] = "none"
    <3>1. /\ status[Req(x, e)] = "none" /\ Md(x, e) \notin wire
          /\ Data(x, e) \notin wire
      BY <2>4 DEF LeakInv, DataFirst, IndInv, HeldAlive
    <3>2. Req(x, e) \notin A
      BY <3>1 DEF Tidy
    <3>3. CASE Md(x, e) \in wire'
      <4>1. Md(x, e) \in A
        BY <3>1, <3>3 DEF Tidy
      <4>2. Data(x, e) \in A
        BY <3>3, <4>1 DEF Tidy
      <4>3. QED
        BY <1>1, <2>2, <4>2, Onward
    <3>4. CASE Md(x, e) \notin wire'
      <4>1. status'[Req(x, e)] # "none" /\ Req(x, e) \notin wire
        BY <2>1, <3>1, <3>4 DEF IndInv, HeldAlive
      <4>2. QED
        BY <1>1, <2>2, <3>1, <3>2, <4>1, Onward DEF IndInv, ReleasedOnce
    <3>5. QED
      BY <3>3, <3>4
  <2>5. QED
    BY <2>3, <2>4
<1>3. NothingOfIt'
  <2>1. SUFFICES ASSUME NEW x \in Exchanges, NEW e \in Elements,
                        Md(x, e) \in Leaked', Data(x, e) \in wire'
                 PROVE  FALSE
    BY DEF NothingOfIt, Md, Data, Buf, Exchanges, Elements
  <2>2. /\ Md(x, e) \in Buffers /\ Md(x, e).part = "metadata"
        /\ status'[Md(x, e)] = "live" /\ Md(x, e) \notin wire'
    BY <2>1, ElementParts DEF Leaked, Live
  <2>3. Md(x, e) \notin A /\ Data(x, e) \notin A
    BY <2>1, <2>2 DEF Tidy
  <2>4. Md(x, e) \notin R /\ status[Md(x, e)] = "live"
    BY <1>1, <2>2, <2>3, Onward
  <2>5. Md(x, e) \notin wire
    BY <2>2, <2>4 DEF Tidy
  <2>6. Data(x, e) \in wire
    BY <2>1, <2>3 DEF Tidy
  <2>7. QED
    BY <2>2, <2>4, <2>5, <2>6 DEF LeakInv, NothingOfIt, Leaked, Live
<1>4. KnownLeaks'
  <2>1. SUFFICES ASSUME NEW b \in Buffers, status'[b] = "live", b \notin wire'
                 PROVE  KnownLeak(b)'
    BY DEF KnownLeaks, Leaked, Live, Buffers, Exchanges
  <2>2. b \notin R /\ (b \in A \/ status[b] = "live")
    BY <1>1, <2>1, Onward
  <2>3. CASE b \in A \cup wire
    BY <2>1, <2>2, <2>3 DEF Tidy
  <2>4. CASE b \notin A \cup wire
    <3>1. b \in Leaked /\ KnownLeak(b)
      BY <2>2, <2>4 DEF LeakInv, KnownLeaks, Leaked, Live
    <3> DEFINE x == b.x
               e == b.element
    <3>2. x \in Exchanges /\ e \in Elements /\ b = Buf(x, e, b.part)
      BY BufferIs
    <3>3. /\ client[x] = "failed" => client'[x] = "failed"
          /\ server[x] \in {"notFound", "notImplemented"} => server'[x] = server[x]
      BY <3>2 DEF Tidy
    <3>4. CASE b.part = "metadata"
      <4>1. b = Md(x, e) /\ [b EXCEPT !.part = "request"] = Req(x, e)
        BY <3>2, <3>4, BufferIs DEF Md
      <4>2. client[x] = "failed" /\ status[Req(x, e)] = "none"
        BY <3>1, <3>4, <4>1 DEF KnownLeak
      <4>3. Md(x, e) \notin wire /\ Data(x, e) \notin wire
        BY <2>4, <3>1, <3>2, <4>1 DEF LeakInv, NothingOfIt
      <4>4. Req(x, e) \notin A /\ Req(x, e) \in Buffers
        BY <3>2, <4>3, ElementParts DEF Tidy
      <4>5. status'[Req(x, e)] = "none"
        BY <1>1, <4>2, <4>4, Onward DEF IndInv, ReleasedOnce
      <4>6. QED
        BY <3>3, <3>4, <4>1, <4>2, <4>5 DEF KnownLeak
    <3>5. CASE b.part = "data"
      <4>1. client[x] = "failed" /\ IsChannel(x) /\ ~CanEncode(x)
        BY <3>1, <3>5 DEF KnownLeak
      <4>2. IsChannel(x)' /\ unread'[x[1]] = unread[x[1]]
        BY <3>2, <4>1
        DEF IsChannel, Interaction, MethodOf, inputs, FrameInv, Unread, Exchanges
      <4>3. ~CanEncode(x)'
        BY <4>1, <4>2 DEF CanEncode
      <4>4. QED
        BY <3>3, <3>5, <4>1, <4>2, <4>3 DEF KnownLeak
    <3>6. CASE b.part = "request"
      <4>1. ~IsChannel(x) /\ server[x] \in {"notFound", "notImplemented"}
        BY <3>1, <3>6 DEF KnownLeak
      <4>2. ~IsChannel(x)'
        BY <4>1 DEF IsChannel, Interaction, MethodOf, inputs
      <4>3. QED
        BY <3>3, <3>6, <4>1, <4>2 DEF KnownLeak
    <3>7. QED
      BY <3>1, <3>4, <3>5, <3>6 DEF KnownLeak
  <2>5. QED
    BY <2>3, <2>4
<1>5. ArrivedAllocated'
  <2>1. SUFFICES ASSUME NEW x \in Exchanges, server'[x] # "none"
                 PROVE  status'[Req(x, 1)] # "none"
    BY DEF ArrivedAllocated, Req, Buf
  <2>2. Req(x, 1) \in Buffers
    BY FirstElement, ElementParts DEF Elements
  <2>3. server[x] # "none" \/ Req(x, 1) \in A
    BY <2>1 DEF Tidy
  <2>4. QED
    BY <1>1, <2>2, <2>3, Onward DEF LeakInv, ArrivedAllocated
<1>6. StaleReleased'
  <2>1. SUFFICES ASSUME NEW x \in stale'
                 PROVE  status'[Req(x, 1)] \notin {"none", "live"}
    BY DEF StaleReleased, Req, Buf
  <2>2. x \in Exchanges
    BY DEF FrameInv, OtherShapes
  <2>3. Req(x, 1) \in Buffers /\ 1 \in Elements
    BY <2>2, FirstElement, ElementParts DEF Elements
  <2>4. status[Req(x, 1)] \notin {"none", "live"} /\ Req(x, 1) \notin A
    <3>1. x \in stale \/ (server[x] # "none" /\ status[Req(x, 1)] # "live")
      BY DEF Tidy
    <3>2. status[Req(x, 1)] \notin {"none", "live"}
      BY <2>2, <3>1 DEF LeakInv, StaleReleased, ArrivedAllocated
    <3>3. Req(x, 1) \in A => status[Req(x, 1)] = "none"
      BY <2>2, <2>3 DEF Tidy
    <3>4. QED
      BY <3>2, <3>3
  <2>5. QED
    BY <1>1, <2>3, <2>4, Onward
<1>7. QED
  BY <1>2, <1>3, <1>4, <1>5, <1>6 DEF LeakInv
-----------------------------------------------------------------------------
(* The steps that allocate nothing, or only a buffer of an answer.         *)
SidesKept ==
  \A x \in Exchanges :
    /\ client[x] = "failed" => client'[x] = "failed"
    /\ server[x] \in {"notFound", "notImplemented"} => server'[x] = server[x]
    /\ server'[x] # "none" => server[x] # "none"

ReadsKept ==
  \A x \in stale' :
    x \in stale \/ (server[x] # "none" /\ status[Req(x, 1)] # "live")

Accounted(A, R) ==
  /\ Update(A, R) /\ wire' \subseteq wire \cup A
  /\ \A b \in A \cup wire :
       b \in R \/ b \in wire' \/ (b.part = "request" /\ KnownLeak(b)')

(* A step that allocates answers only is tidy if it accounts for them,     *)
LEMMA PlainTidy ==
  ASSUME IndInv, NEW A \in SUBSET Buffers, NEW R, Accounted(A, R),
         \A b \in A : b.part \in {"response", "reply"}, SidesKept, ReadsKept
  PROVE  Tidy(A, R)
<1>1. \A x \in Exchanges, e \in Elements :
        Md(x, e) \notin A /\ Data(x, e) \notin A /\ Req(x, e) \notin A
  BY ElementParts
<1>2. QED
  BY <1>1 DEF Tidy, SidesKept, ReadsKept, Accounted

Nothing == {}

(* and so is a step that allocates nothing,                                *)
LEMMA QuietTidy ==
  ASSUME IndInv, NEW R, Accounted(Nothing, R), SidesKept, ReadsKept
  PROVE  \E A, Q : Tidy(A, Q)
<1>1. Nothing \in SUBSET Buffers /\ \A b \in Nothing : b.part \in {"response", "reply"}
  BY DEF Nothing
<1>2. Tidy(Nothing, R)
  BY <1>1, PlainTidy
<1>3. QED
  BY <1>2

(* in particular one that leaves all buffers alone.                        *)
LEMMA NothingDone ==
  ASSUME IndInv, UNCHANGED <<status, wire>> PROVE Accounted(Nothing, Nothing)
BY DEF IndInv, Shapes, Update, Accounted, Nothing

(* One lemma per action: a subscription allocates nothing.                 *)
LEMMA SubscribeTidy ==
  ASSUME IndInv, NEW c \in Calls, Subscribe(c) PROVE \E A, R : Tidy(A, R)
<1>1. UNCHANGED <<status, wire, server, stale>>
  BY DEF Subscribe
<1>2. SidesKept
  <2>1. client[<<c, subscriptions[c] + 1>>] # "failed"
    BY StubsAssumption DEF Subscribe, IndInv, Shapes, FreshExchanges, Exchanges
  <2>2. QED
    BY <1>1, <2>1 DEF Subscribe, IndInv, Shapes, SidesKept
<1>3. ReadsKept /\ Accounted(Nothing, Nothing)
  BY <1>1, NothingDone DEF ReadsKept
<1>4. QED
  BY <1>2, <1>3, QuietTidy

(* A late read of the metadata only shows.                                 *)
LEMMA ReadMetadataTidy ==
  ASSUME IndInv, NEW x \in Exchanges, ReadMetadata(x)
  PROVE  \E A, R : Tidy(A, R)
<1>1. UNCHANGED <<status, wire, server, client>>
  BY DEF ReadMetadata
<1>2. ReadsKept
  BY DEF ReadMetadata, Req, ReadsKept
<1>3. SidesKept /\ Accounted(Nothing, Nothing)
  BY <1>1, NothingDone DEF SidesKept
<1>4. QED
  BY <1>2, <1>3, QuietTidy

(* What the connection loses it releases.                                  *)
LEMMA LoseTidy ==
  ASSUME IndInv, NEW x \in Exchanges, Lose(x) PROVE \E A, R : Tidy(A, R)
<1> DEFINE held == {b \in wire : b.x = x}
<1>1. SidesKept /\ ReadsKept
  BY DEF Lose, IndInv, Shapes, SidesKept, ReadsKept
<1>2. Accounted(Nothing, held)
  BY DEF Lose, Accounted, Nothing, Update
<1> HIDE DEF held
<1>3. QED
  BY <1>1, <1>2, QuietTidy

(* An element that the server pulls is released or a known leak.           *)
LEMMA PullTidy ==
  ASSUME IndInv, NEW x \in Exchanges, NEW e \in Elements, Pull(x, e)
  PROVE  \E A, R : Tidy(A, R)
<1> DEFINE request == Buf(x, e, "request")
<1>1. SidesKept /\ ReadsKept
  BY DEF Pull, IndInv, Shapes, SidesKept, ReadsKept
<1>2. Accounted(Nothing, {request})
  BY DEF Pull, DeserializerReleases, Accounted, Nothing, Update
<1> HIDE DEF request
<1>3. QED
  BY <1>1, <1>2, QuietTidy

(* The client releases the answer that it takes off the wire.              *)
LEMMA ReceiveTidy ==
  ASSUME IndInv, NEW x \in Exchanges, NEW e \in Elements, Receive(x, e)
  PROVE  \E A, R : Tidy(A, R)
<1> DEFINE reply == Buf(x, e, "reply")
           response == Buf(x, e, "response")
<1>1. SidesKept /\ ReadsKept
  BY DEF Receive, IndInv, Shapes, SidesKept, ReadsKept
<1>2. PICK A, R : A = {reply} /\ R = {response} \cup {reply}
  OBVIOUS
<1>3. A \in SUBSET Buffers /\ \A b \in A : b.part \in {"response", "reply"}
  BY <1>2, BufShape DEF Parts, Elements
<1>4. Update(A, R) /\ wire' = wire \ {response}
  BY <1>2 DEF Receive, DeserializerReleases
<1>5. Accounted(A, R)
  BY <1>2, <1>4 DEF Accounted
<1> HIDE DEF reply, response
<1>6. QED
  BY <1>1, <1>3, <1>5, PlainTidy

(* An answer goes on the wire or is released.                              *)
LEMMA RespondTidy ==
  ASSUME IndInv, NEW x \in Exchanges, NEW e \in Elements, Respond(x, e)
  PROVE  \E A, R : Tidy(A, R)
<1> DEFINE response == Buf(x, e, "response")
<1>1. SidesKept /\ ReadsKept
  BY DEF Respond, IndInv, Shapes, SidesKept, ReadsKept
<1>2. PICK A, R : /\ A = {response} /\ Update(A, R)
                  /\ \/ R = {} /\ wire' = wire \cup A
                     \/ R = A /\ wire' = wire
  BY DEF Respond
<1>3. A \in SUBSET Buffers /\ \A b \in A : b.part \in {"response", "reply"}
  BY <1>2, BufShape DEF Parts, Elements
<1>4. Accounted(A, R)
  BY <1>2 DEF Accounted
<1> HIDE DEF response
<1>5. QED
  BY <1>1, <1>3, <1>4, PlainTidy

(* A request without a handler that releases it is the known leak.         *)
LEMMA HandleTidy ==
  ASSUME IndInv, NEW x \in Exchanges, Handle(x) PROVE \E A, R : Tidy(A, R)
<1> DEFINE request == Buf(x, 1, "request")
<1>1. SidesKept /\ ReadsKept
  BY DEF Handle, IndInv, Shapes, SidesKept, ReadsKept
<1>2. PICK result \in Results(x) :
        /\ server' = [server EXCEPT ![x] = result]
        /\ Update({}, IF /\ result \notin {"notFound", "notImplemented"}
                         /\ HandlerReleases(Interaction(x))
                      THEN {request} ELSE {})
  BY DEF Handle
<1>3. wire' = (IF IsChannel(x) THEN wire ELSE wire \ {request}) /\ UNCHANGED inputs
  BY DEF Handle
<1>4. CASE IsChannel(x)
  <2>1. Accounted(Nothing, Nothing)
    BY <1>2, <1>3, <1>4
    DEF Accounted, HandlerReleases, IsChannel, Nothing, Update
  <2>2. QED
    BY <1>1, <2>1, QuietTidy
<1>5. CASE ~IsChannel(x) /\ result \notin {"notFound", "notImplemented"}
  <2>1. Accounted(Nothing, {request})
    BY <1>2, <1>3, <1>5
    DEF Accounted, HandlerReleases, IsChannel, Nothing, Update
  <2> HIDE DEF request
  <2>2. QED
    BY <1>1, <2>1, QuietTidy
<1>6. CASE ~IsChannel(x) /\ result \in {"notFound", "notImplemented"}
  <2>1. request.part = "request" /\ request.x = x
    BY BufShape, FirstElement DEF Parts
  <2>2. server'[x] = result
    BY <1>2 DEF IndInv, Shapes
  <2>3. ~IsChannel(x)'
    BY <1>3, <1>6 DEF IsChannel, Interaction, MethodOf, inputs
  <2>4. KnownLeak(request)'
    BY <1>6, <2>1, <2>2, <2>3 DEF KnownLeak, Buf
  <2>5. Accounted(Nothing, Nothing)
    BY <1>2, <1>3, <1>6, <2>1, <2>4 DEF Accounted, Nothing, Update
  <2>6. QED
    BY <1>1, <2>5, QuietTidy
<1>7. QED
  BY <1>4, <1>5, <1>6
-----------------------------------------------------------------------------
(* The steps that allocate a request's buffers.                            *)

(* Before an element is sent nothing of it is under way.                   *)
LEMMA BeforeSending ==
  ASSUME IndInv, LeakInv, NEW x \in Exchanges, NEW e \in Elements,
         status[Data(x, e)] = "none"
  PROVE  /\ Data(x, e) \notin wire /\ Md(x, e) \notin wire
         /\ status[Req(x, e)] = "none"
BY DEF IndInv, HeldAlive, LeakInv, DataFirst

(* No two elements have a buffer in common.                                *)
LEMMA OwnElement ==
  ASSUME NEW x \in Exchanges, NEW e \in Elements,
         NEW y \in Exchanges, NEW d \in Elements
  PROVE  /\ Md(y, d) \in {Md(x, e), Data(x, e)} => y = x /\ d = e
         /\ Data(y, d) \in {Md(x, e), Data(x, e)} => y = x /\ d = e
         /\ Req(y, d) \notin {Md(x, e), Data(x, e)}
         /\ Md(x, e) # Data(x, e)
BY ElementParts

(* A failure to send: what was allocated is released or a known leak.      *)
LEMMA FailTidy ==
  ASSUME IndInv, LeakInv, NEW x \in Exchanges, NEW e \in Elements,
         client[x] = "sending", status[Data(x, e)] = "none",
         NEW A \in SUBSET {Md(x, e), Data(x, e)}, NEW R, Fail(x, A, R),
         \/ Data(x, e) \in R /\ R \subseteq A
         \/ R = Nothing /\ Data(x, e) \notin A
         \/ R = Nothing /\ IsChannel(x) /\ ~CanEncode(x),
         UNCHANGED <<inputs, server, stale>>,
         unread' = unread \/ Data(x, e) \in R \/ Data(x, e) \notin A
  PROVE  Tidy(A, R)
<1>1. /\ Data(x, e) \notin wire /\ Md(x, e) \notin wire
      /\ status[Req(x, e)] = "none"
  BY BeforeSending
<1>2. /\ Update(A, R) /\ wire' = wire
      /\ client' = [client EXCEPT ![x] = "failed"]
  BY DEF Fail
<1>3. A \subseteq Buffers
  BY ElementParts
<1>4. client'[x] = "failed" /\ SidesKept
  BY <1>2 DEF IndInv, Shapes, SidesKept
<1>5. Md(x, e) \in A => Md(x, e) \in R \/ KnownLeak(Md(x, e))'
  <2>1. /\ Md(x, e) \in Buffers /\ Req(x, e) \in Buffers
        /\ Md(x, e).part = "metadata" /\ Md(x, e).x = x /\ Md(x, e).element = e
    BY ElementParts
  <2>2. Req(x, e) \notin A /\ Req(x, e) \notin R
    BY OwnElement DEF Nothing
  <2>3. status'[Req(x, e)] = "none"
    BY <1>1, <1>2, <2>1, <2>2, Onward
  <2>4. [Md(x, e) EXCEPT !.part = "request"] = Req(x, e)
    BY <2>1, BufferIs
  <2>5. QED
    BY <1>4, <2>1, <2>3, <2>4 DEF KnownLeak, Md, Buf
<1>6. Data(x, e) \in A => Data(x, e) \in R \/ KnownLeak(Data(x, e))'
  <2>1. Data(x, e).part = "data" /\ Data(x, e).x = x
    BY ElementParts
  <2>2. CASE Data(x, e) \in R \/ Data(x, e) \notin A
    BY <2>2
  <2>3. CASE IsChannel(x) /\ ~CanEncode(x) /\ unread' = unread
    <3>1. IsChannel(x)' /\ ~CanEncode(x)'
      BY <2>3 DEF IsChannel, Interaction, MethodOf, inputs, CanEncode
    <3>2. QED
      BY <1>4, <2>1, <3>1 DEF KnownLeak, Data, Buf
  <2>4. QED
    BY <2>2, <2>3
<1>7. \A b \in A \cup wire : b \in R \/ b \in wire' \/ KnownLeak(b)'
  <2>1. SUFFICES ASSUME NEW b \in A \cup wire, b \notin wire
                 PROVE  b \in R \/ KnownLeak(b)'
    BY <1>2
  <2>2. b = Md(x, e) \/ b = Data(x, e)
    BY <2>1
  <2>3. QED
    BY <1>5, <1>6, <2>1, <2>2
<1>8. \A y \in Exchanges, d \in Elements :
        /\ Req(y, d) \notin A
        /\ Md(y, d) \in A => Md(y, d) \notin wire' /\ Data(y, d) \notin wire'
        /\ Data(y, d) \in A => Data(y, d) \notin wire'
  BY <1>1, <1>2, OwnElement
<1>9. ReadsKept
  BY DEF ReadsKept
<1>10. QED
  BY <1>2, <1>3, <1>4, <1>7, <1>8, <1>9 DEF Tidy, SidesKept, ReadsKept

(* A success: both buffers go to the library.                              *)
LEMMA SendTidy ==
  ASSUME IndInv, LeakInv, NEW x \in Exchanges, NEW e \in Elements,
         client[x] = "sending", status[Data(x, e)] = "none",
         Send(x, e, {"metadata", "data"}),
         client' = client \/ client' = [client EXCEPT ![x] = "waiting"],
         UNCHANGED <<server, stale>>
  PROVE  \E A, R : Tidy(A, R)
<1>1. PICK A : A = {Md(x, e), Data(x, e)}
  OBVIOUS
<1>2. {Buf(x, e, part) : part \in {"metadata", "data"}} = A
  BY <1>1 DEF Md, Data
<1>3. wire' = wire \cup A
  BY <1>2 DEF Send
<1>4. Update(A, Nothing)
  BY <1>2 DEF Send, Nothing, Update
<1>5. A \subseteq Buffers
  BY <1>1, ElementParts
<1>6. SidesKept /\ ReadsKept
  BY DEF IndInv, Shapes, SidesKept, ReadsKept
<1>7. \A y \in Exchanges, d \in Elements :
        /\ Req(y, d) \notin A
        /\ Md(y, d) \in A => Md(y, d) \in wire' /\ Data(y, d) \in A
        /\ Data(y, d) \in A => Md(y, d) \in wire'
  BY <1>1, <1>3, OwnElement
<1>8. Tidy(A, Nothing)
  BY <1>3, <1>4, <1>5, <1>6, <1>7 DEF Tidy, SidesKept, ReadsKept
<1>9. QED
  BY <1>8

(* The first element: its two parts become a request or are known leaks.   *)
LEMMA SendRequestTidy ==
  ASSUME IndInv, FrameInv, LeakInv, NEW x \in Exchanges, SendRequest(x)
  PROVE  \E A, R : Tidy(A, R)
<1> DEFINE md == Md(x, 1)
           data == Data(x, 1)
<1>1. /\ client[x] = "sending" /\ ~IsChannel(x)
      /\ UNCHANGED <<inputs, server, stale>>
  BY DEF SendRequest
<1>2. 1 \in Elements /\ status[data] = "none"
  BY <1>1, FirstElement DEF IndInv, NotYetSent, Data, Elements
<1>3. \/ Fail(x, {md}, {})
      \/ Fail(x, {md, data}, {data})
      \/ /\ Send(x, 1, {"metadata", "data"})
         /\ client' = [client EXCEPT ![x] = "waiting"]
  BY DEF SendRequest, Md, Data
<1>4. CASE Fail(x, {md}, {})
  <2>1. PICK A : A = {md}
    OBVIOUS
  <2>2. /\ A \in SUBSET {Md(x, 1), Data(x, 1)} /\ Data(x, 1) \notin A
        /\ Fail(x, A, Nothing)
    BY <1>2, <1>4, <2>1, OwnElement DEF Nothing
  <2>3. Tidy(A, Nothing)
    BY <1>1, <1>2, <2>2, FailTidy
  <2>4. QED
    BY <2>3
<1>5. CASE Fail(x, {md, data}, {data})
  <2>1. PICK A, R : A = {md, data} /\ R = {data}
    OBVIOUS
  <2>2. /\ A \in SUBSET {Md(x, 1), Data(x, 1)} /\ Data(x, 1) \in R
        /\ R \subseteq A /\ Fail(x, A, R)
    BY <1>5, <2>1
  <2>3. Tidy(A, R)
    BY <1>1, <1>2, <2>2, FailTidy
  <2>4. QED
    BY <2>3
<1>6. CASE /\ Send(x, 1, {"metadata", "data"})
           /\ client' = [client EXCEPT ![x] = "waiting"]
  BY <1>1, <1>2, <1>6, SendTidy
<1>7. QED
  BY <1>3, <1>4, <1>5, <1>6

(* And every further one.                                                  *)
LEMMA SendElementTidy ==
  ASSUME IndInv, FrameInv, LeakInv, NEW x \in Exchanges, NEW e \in Elements,
         SendElement(x, e)
  PROVE  \E A, R : Tidy(A, R)
<1> DEFINE md == Md(x, e)
           data == Data(x, e)
<1>1. /\ client[x] = "sending" /\ IsChannel(x) /\ status[data] = "none"
      /\ UNCHANGED <<inputs, server, stale>>
  BY DEF SendElement, IsNext, Data
<1>2. \/ Fail(x, {data}, {data})
      \/ ~CanEncode(x) /\ Fail(x, {data, md}, {}) /\ unread' = unread
      \/ Send(x, e, {"data", "metadata"}) /\ client' = client
  BY CallOf DEF SendElement, Md, Data
<1>3. CASE Fail(x, {data}, {data})
  <2>1. PICK A, R : A = {data} /\ R = {data}
    OBVIOUS
  <2>2. /\ A \in SUBSET {Md(x, e), Data(x, e)} /\ Data(x, e) \in R
        /\ R \subseteq A /\ Fail(x, A, R)
    BY <1>3, <2>1
  <2>3. Tidy(A, R)
    BY <1>1, <2>2, FailTidy
  <2>4. QED
    BY <2>3
<1>4. CASE ~CanEncode(x) /\ Fail(x, {data, md}, {}) /\ unread' = unread
  <2>1. PICK A : A = {data, md}
    OBVIOUS
  <2>2. A \in SUBSET {Md(x, e), Data(x, e)} /\ Fail(x, A, Nothing)
    BY <1>4, <2>1 DEF Nothing
  <2>3. Tidy(A, Nothing)
    BY <1>1, <1>4, <2>2, FailTidy
  <2>4. QED
    BY <2>3
<1>5. CASE Send(x, e, {"data", "metadata"}) /\ client' = client
  <2>1. {"data", "metadata"} = {"metadata", "data"}
    OBVIOUS
  <2>2. Send(x, e, {"metadata", "data"})
    BY <1>5, <2>1
  <2>3. QED
    BY <1>1, <1>5, <2>2, SendTidy
<1>6. QED
  BY <1>2, <1>3, <1>4, <1>5

(* A request arrives: for an element that was sent, once.                  *)
LEMMA DeliverTidy ==
  ASSUME IndInv, LeakInv, NEW x \in Exchanges, NEW e \in Elements, Deliver(x, e)
  PROVE  \E A, R : Tidy(A, R)
<1>1. PICK A, R :
        /\ A = {Req(x, e)}
        /\ R = {b \in wire : b.x = x /\ b.element = e
                               /\ b.part \in {"metadata", "data"}}
  OBVIOUS
<1>2. /\ R # {} /\ status[Req(x, e)] = "none" /\ Update(A, R)
      /\ wire' = (wire \ R) \cup A /\ UNCHANGED <<client, stale>>
      /\ server' = IF e = 1 THEN [server EXCEPT ![x] = "arrived"] ELSE server
  BY <1>1 DEF Deliver, IsNext, Req
<1>3. Md(x, e) \in wire \/ Data(x, e) \in wire
  <2>1. PICK b \in wire : /\ b.x = x /\ b.element = e
                          /\ b.part \in {"metadata", "data"}
    BY <1>1, <1>2
  <2>2. b \in Buffers
    BY DEF IndInv, Shapes
  <2>3. b = Buf(x, e, b.part)
    BY <2>1, <2>2, BufferIs
  <2>4. QED
    BY <2>1, <2>3 DEF Md, Data
<1>4. A \subseteq Buffers
  BY <1>1, ElementParts
<1>5. \A y \in Exchanges, d \in Elements :
        /\ Req(y, d) \in A => y = x /\ d = e
        /\ Md(y, d) \notin A /\ Data(y, d) \notin A
  BY <1>1, ElementParts
<1>6. \A y \in Exchanges :
        /\ client[y] = "failed" => client'[y] = "failed"
        /\ server[y] \in {"notFound", "notImplemented"} => server'[y] = server[y]
        /\ server'[y] # "none" => server[y] # "none" \/ Req(y, 1) \in A
  <2>1. e = 1 => server[x] = "none"
    BY <1>2 DEF LeakInv, ArrivedAllocated
  <2>2. QED
    BY <1>1, <1>2, <2>1 DEF IndInv, Shapes
<1>7. Tidy(A, R)
  BY <1>2, <1>3, <1>4, <1>5, <1>6 DEF Tidy
<1>8. QED
  BY <1>7
-----------------------------------------------------------------------------
(* Every step keeps the invariant.                                         *)
LEMMA LeakNextInv ==
  ASSUME IndInv, IndInv', FrameInv, FrameInv', LeakInv, [Next]_vars
  PROVE  LeakInv'
<1>1. CASE UNCHANGED vars
  BY <1>1
  DEF vars, inputs, LeakInv, KnownLeaks, KnownLeak, Leaked, Live, IsChannel,
      Interaction, MethodOf, CanEncode, DataFirst, NothingOfIt,
      ArrivedAllocated, StaleReleased
<1>2. CASE Next
  <2>1. UNCHANGED inputs
    <3>1. \A c \in Calls : Subscribe(c) => UNCHANGED inputs
      BY DEF Subscribe
    <3>2. \A x \in Exchanges :
            (SendRequest(x) \/ Handle(x) \/ ReadMetadata(x) \/ Lose(x))
              => UNCHANGED inputs
      BY DEF SendRequest, Handle, ReadMetadata, Lose
    <3>3. \A x \in Exchanges, e \in 1 .. MaxElements :
            (SendElement(x, e) \/ Deliver(x, e) \/ Receive(x, e)
              \/ Pull(x, e) \/ Respond(x, e)) => UNCHANGED inputs
      BY DEF SendElement, Deliver, Receive, Pull, Respond
    <3>4. QED
      BY <1>2, <3>1, <3>2, <3>3 DEF Next
  <2>2. \E A, R : Tidy(A, R)
    BY <1>2, SubscribeTidy, SendRequestTidy, HandleTidy, ReadMetadataTidy,
       LoseTidy, SendElementTidy, DeliverTidy, ReceiveTidy, PullTidy,
       RespondTidy
    DEF Next, Elements
  <2>3. QED
    BY <2>1, <2>2, TidyKeeps
<1>3. QED
  BY <1>1, <1>2

(* It holds in every reachable state.                                      *)
LEMMA LeakInvHolds == Spec => [](IndInv /\ FrameInv /\ LeakInv)
<1>1. Init => IndInv /\ FrameInv /\ LeakInv
  BY InitInv, FrameInitInv, LeakInitInv
<1>2. IndInv /\ FrameInv /\ LeakInv /\ [Next]_vars
        => (IndInv /\ FrameInv /\ LeakInv)'
  BY NextInv, FrameNextInv, LeakNextInv
<1>3. QED
  BY <1>1, <1>2, PTL DEF Spec

(* The only buffers a call leaves behind are the known ones: those of an   *)
(* element that could not be sent, and a request that met no handler with  *)
(* a finally block.                                                        *)
THEOREM OnlyKnownLeaks == Spec => []KnownLeaks
<1>1. LeakInv => KnownLeaks
  BY DEF LeakInv
<1>2. QED
  BY <1>1, LeakInvHolds, PTL

(* A service finds its metadata released only after the handler released   *)
(* the request, or after it took the first element of a stream.            *)
THEOREM OnlyKnownStaleReads == Spec => []KnownStaleReads
<1>1. IndInv /\ FrameInv /\ LeakInv => KnownStaleReads
  <2> SUFFICES ASSUME IndInv, LeakInv PROVE KnownStaleReads
    OBVIOUS
  <2>1. \A x \in stale : status[Req(x, 1)] # "live"
    BY DEF LeakInv, StaleReleased
  <2>2. \A x \in stale : Req(x, 1) \notin wire
    BY <2>1 DEF IndInv, HeldAlive
  <2>3. QED
    BY <2>2 DEF KnownStaleReads, Req
<1>2. QED
  BY <1>1, LeakInvHolds, PTL
=============================================================================
