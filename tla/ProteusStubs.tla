---------------------------- MODULE ProteusStubs ----------------------------
(***************************************************************************)
(* The generated client and server (SimpleServiceClient.java and           *)
(* SimpleServiceServer.java, as java_generator.cpp prints them) on the two *)
(* ends of an RSocket connection, with RequestHandlingRSocket in front of  *)
(* the server: which reference-counted buffers a call allocates, who has   *)
(* them and who releases them, on every path.                              *)
(*                                                                         *)
(* A call is a client method called with a message (or a stream of them)   *)
(* and metadata; each subscription to what it returned, a retry included,  *)
(* is an exchange of its own.  Conversions may fail, the service may be    *)
(* missing, older than the client, or throw, and the connection may break. *)
(* Exchanges interleave freely.                                            *)
(***************************************************************************)
EXTENDS ProteusMetadata, Naturals

CONSTANTS
  Calls, Methods,
  InteractionOf,      \* the interaction model of a method
  Namespace, Service, \* the ids of the service
  ServerVersions,     \* the methods a server was generated with, by version
  MetadataLengths,    \* lengths of the metadata callers give
  MaxSubscriptions,   \* bound: subscriptions of one call
  MaxElements         \* bound: elements of a stream, in either direction

ASSUME StubsAssumption ==
  /\ InteractionOf \in [Methods -> {"fireAndForget", "requestResponse",
                                    "requestStream", "requestChannel"}]
  /\ ServerVersions \subseteq SUBSET Methods
  /\ MetadataLengths \subseteq Nat
  /\ MaxSubscriptions \in Nat /\ MaxElements \in Nat \ {0}

VARIABLES
  serverMethods,  \* the methods of the server that runs
  call,           \* the method a call is of, the length of its metadata
  unread,         \* what is left to read of that metadata
  once,           \* the flag of a call with a stream
  subscriptions,  \* how often its result was subscribed to
  client,         \* the client's side of an exchange
  server,         \* the server's side
  frames,         \* the metadata of a request's first payload, as encoded
  status,         \* of every buffer: none, live, released, or released twice
  wire,           \* buffers the RSocket library holds
  parses,         \* what parsing met: ok, malformed, or a released buffer
  invoked,        \* the service methods the server invoked
  stale           \* exchanges whose metadata the service read too late

inputs == <<serverMethods, call>>
vars   == <<inputs, unread, once, subscriptions, client, server, frames, status,
            wire, parses, invoked, stale>>

Exchanges == Calls \X (1 .. MaxSubscriptions)
Parts     == {"metadata", "data", "request", "response", "reply"}
Buffers   == [x : Exchanges, element : 1 .. MaxElements, part : Parts]

Buf(x, e, part) == [x |-> x, element |-> e, part |-> part]

MethodOf(x)    == call[x[1]].method
Interaction(x) == InteractionOf[MethodOf(x)]
IsChannel(x)   == Interaction(x) = "requestChannel"

Live == {b \in Buffers : status[b] = "live"}

(* The element a stream of buffers of this kind comes to next.             *)
IsNext(x, e, part) ==
  /\ status[Buf(x, e, part)] = "none"
  /\ \A d \in 1 .. e - 1 : status[Buf(x, d, part)] # "none"

Released(s) == IF s = "live" THEN "released" ELSE "twice"

(* The new status of buffers: allocated, then released.                    *)
Update(allocated, released) ==
  status' = [b \in Buffers |->
    LET s == IF b \in allocated THEN "live" ELSE status[b]
    IN  IF b \in released THEN Released(s) ELSE s]

Init == /\ serverMethods \in ServerVersions
        /\ call \in [Calls -> [method : Methods, length : MetadataLengths]]
        /\ unread = [c \in Calls |-> call[c].length]
        /\ once = [c \in Calls |-> FALSE]
        /\ subscriptions = [c \in Calls |-> 0]
        /\ client = [x \in Exchanges |-> "none"]
        /\ server = [x \in Exchanges |-> "none"]
        /\ frames = [x \in Exchanges |-> directBuffer(0)]
        /\ status = [b \in Buffers |-> "none"]
        /\ wire = {}
        /\ parses = [x \in Exchanges |-> {}]
        /\ invoked = [x \in Exchanges |-> {}]
        /\ stale = {}
-----------------------------------------------------------------------------
(* The client.                                                             *)

(* Nothing of a request exists before a subscription: defer's supplier     *)
(* and the mapping of a stream run then.                                   *)
Subscribe(c) ==
  /\ subscriptions[c] < MaxSubscriptions
  /\ subscriptions' = [subscriptions EXCEPT ![c] = @ + 1]
  /\ client' = [client EXCEPT ![<<c, subscriptions'[c]>>] = "sending"]
  /\ UNCHANGED <<inputs, unread, once, server, frames, status, wire, parses,
                 invoked, stale>>

metadataBuf(x) ==
  Header(directBuffer(computeLength), Namespace, Service, MethodOf(x),
         unread[x[1]])

CanEncode(x) == EncodeFits(directBuffer(computeLength), unread[x[1]])
Encode(x)    == unread' = [unread EXCEPT ![x[1]] = LeftToRead(@)]

Send(x, e, parts) ==
  LET bufs == {Buf(x, e, part) : part \in parts}
  IN  /\ Update(bufs, {})
      /\ wire' = wire \cup bufs
      /\ frames' = [frames EXCEPT ![x] = IF e = 1 /\ "metadata" \in parts
                                         THEN metadataBuf(x) ELSE @]

Fail(x, allocated, released) ==
  /\ client' = [client EXCEPT ![x] = "failed"]
  /\ Update(allocated, released)
  /\ UNCHANGED <<wire, frames>>

(* The supplier of the three calls with one request: encode the metadata,  *)
(* serialize the message, make the payload.  serialize releases its own    *)
(* buffer if it fails; nobody releases the metadata's.                     *)
SendRequest(x) ==
  /\ client[x] = "sending" /\ ~IsChannel(x)
  /\ LET metadataOf == Buf(x, 1, "metadata")
         data == Buf(x, 1, "data")
     IN  \/ ~CanEncode(x) /\ Fail(x, {metadataOf}, {}) /\ UNCHANGED unread
         \/ CanEncode(x) /\ Fail(x, {metadataOf, data}, {data}) /\ Encode(x)
         \/ /\ CanEncode(x) /\ Encode(x)
            /\ Send(x, 1, {"metadata", "data"})
            /\ client' = [client EXCEPT ![x] = "waiting"]
  /\ UNCHANGED <<inputs, once, subscriptions, server, parses, invoked, stale>>

OnceAfter_Mutant(flag) == TRUE

(* What apply does to the flag, which all subscriptions of a call share:   *)
(* nothing, in neither of its branches.                                    *)
OnceAfter(flag) == flag

(* An element of a stream: serialize, then encode the metadata.            *)
SendElement(x, e) ==
  /\ client[x] = "sending" /\ IsChannel(x)
  /\ IsNext(x, e, "data")
  /\ LET metadataOf == Buf(x, e, "metadata")
         data == Buf(x, e, "data")
         sent == once[x[1]]
     IN  \/ Fail(x, {data}, {data}) /\ UNCHANGED <<once, unread>>
         \/ /\ ~sent /\ ~CanEncode(x) /\ Fail(x, {data, metadataOf}, {})
            /\ UNCHANGED <<once, unread>>
         \/ /\ sent \/ CanEncode(x)
            /\ IF sent THEN UNCHANGED unread ELSE Encode(x)
            /\ Send(x, e, IF sent THEN {"data"} ELSE {"data", "metadata"})
            /\ once' = [once EXCEPT ![x[1]] = OnceAfter(@)]
            /\ UNCHANGED client
  /\ UNCHANGED <<inputs, subscriptions, server, parses, invoked, stale>>

(* What parsing a payload can come to.                                     *)
ParseResults_Mutant(b) == {"ok", "null"}
ParseResults(b) == IF status[b] = "live" THEN {"ok", "malformed"} ELSE {"released"}

DeserializerReleases_Mutant(result) == result = "ok"

(* The deserializers' finally block.                                       *)
DeserializerReleases(result) == TRUE

(* A response arrives: the library has written and released the server's   *)
(* buffer, and the client's deserializer gets a payload.                   *)
Receive(x, e) ==
  LET reply == Buf(x, e, "reply")
      response == Buf(x, e, "response")
  IN  /\ client[x] \in {"sending", "waiting"}
      /\ response \in wire /\ IsNext(x, e, "reply")
      /\ wire' = wire \ {response}
      /\ \E result \in {"ok", "malformed"} :
           /\ Update({reply}, {response} \cup
                      IF DeserializerReleases(result) THEN {reply} ELSE {})
           /\ parses' = [parses EXCEPT ![x] = @ \cup {result}]
           /\ client' = IF result = "ok" THEN client
                        ELSE [client EXCEPT ![x] = "failed"]
      /\ UNCHANGED <<inputs, unread, once, subscriptions, server, frames,
                     invoked, stale>>
-----------------------------------------------------------------------------
(* The RSocket library.                                                    *)

(* It writes and releases the client's payload; the server's side gets its *)
(* own.                                                                    *)
Deliver(x, e) ==
  LET sent == {b \in wire : b.x = x /\ b.element = e
                              /\ b.part \in {"metadata", "data"}}
      request == Buf(x, e, "request")
  IN  /\ sent # {} /\ IsNext(x, e, "request")
      /\ Update({request}, sent)
      /\ wire' = (wire \ sent) \cup {request}
      /\ server' = IF e = 1 THEN [server EXCEPT ![x] = "arrived"] ELSE server
      /\ UNCHANGED <<inputs, unread, once, subscriptions, client, frames,
                     parses, invoked, stale>>

(* The connection breaks, or one side cancels: the library releases what   *)
(* it holds for the exchange.                                              *)
Lose(x) ==
  /\ client[x] \in {"sending", "waiting", "failed"}
  /\ client[x] = "failed" => \E b \in wire : b.x = x
  /\ LET held == {b \in wire : b.x = x}
     IN  Update({}, held) /\ wire' = wire \ held
  /\ client' = [client EXCEPT ![x] = "failed"]
  /\ server' = [server EXCEPT ![x] =
                  IF @ \in {"arrived", "serving"} THEN "cancelled" ELSE @]
  /\ UNCHANGED <<inputs, unread, once, subscriptions, frames, parses, invoked,
                 stale>>
-----------------------------------------------------------------------------
(* The server.                                                             *)

HandlerReleases_Mutant(interaction) == TRUE

(* The handlers with a finally block.  A channel leaves its first payload  *)
(* to the deserializer, which gets it again as the first element.          *)
HandlerReleases(interaction) == interaction # "requestChannel"

Implemented(interaction) ==
  \E m \in serverMethods : InteractionOf[m] = interaction

(* What can come of a request: no service is registered under its ids, the *)
(* server has no method of the interaction model at all, or has a switch   *)
(* without a case for the id; the message is malformed; the service throws *)
(* or returns.                                                             *)
Results(x) ==
  LET m == methodIdOf(frames[x])
      registered == /\ namespaceIdOf(frames[x]) = Namespace
                    /\ serviceIdOf(frames[x]) = Service
  IN  {"notFound"} \cup
      IF ~registered THEN {}
      ELSE IF ~Implemented(Interaction(x)) THEN {"notImplemented"}
      ELSE IF m \notin serverMethods \/ InteractionOf[m] # Interaction(x)
      THEN {"unsupported"}
      ELSE {"threw", "serving"} \cup
           IF IsChannel(x) THEN {} ELSE {"malformed"}

(* RequestHandlingRSocket and then the server's handler.                   *)
Handle(x) ==
  LET request == Buf(x, 1, "request")
  IN  /\ server[x] = "arrived"
      /\ \E result \in Results(x) :
           /\ server' = [server EXCEPT ![x] = result]
           /\ client' = IF result = "serving" \/ Interaction(x) = "fireAndForget"
                        THEN client
                        ELSE [client EXCEPT ![x] = "failed"]
           /\ invoked' = IF result \in {"threw", "serving"}
                         THEN [invoked EXCEPT ![x] = @ \cup {methodIdOf(frames[x])}]
                         ELSE invoked
           /\ parses' = IF IsChannel(x) THEN parses
                        ELSE [parses EXCEPT ![x] = @ \cup
                               IF result = "malformed" THEN {"malformed"}
                               ELSE IF result \in {"threw", "serving"}
                               THEN {"ok"} ELSE {}]
           /\ Update({}, IF /\ result \notin {"notFound", "notImplemented"}
                            /\ HandlerReleases(Interaction(x))
                         THEN {request} ELSE {})
      /\ wire' = IF IsChannel(x) THEN wire ELSE wire \ {request}
      /\ UNCHANGED <<inputs, unread, once, subscriptions, frames, stale>>

(* The service asks for an element of the stream: the deserializer.        *)
Pull(x, e) ==
  LET request == Buf(x, e, "request")
  IN  /\ server[x] = "serving" /\ IsChannel(x)
      /\ request \in wire
      /\ \A d \in 1 .. e - 1 : Buf(x, d, "request") \notin wire
      /\ wire' = wire \ {request}
      /\ \E result \in ParseResults(request) :
           /\ parses' = [parses EXCEPT ![x] = @ \cup {result}]
           /\ server' = IF result = "ok" THEN server
                        ELSE [server EXCEPT ![x] = "failed"]
           /\ client' = IF result = "ok" THEN client
                        ELSE [client EXCEPT ![x] = "failed"]
           /\ Update({}, IF DeserializerReleases(result) THEN {request} ELSE {})
      /\ UNCHANGED <<inputs, unread, once, subscriptions, frames, invoked,
                     stale>>

(* The service answers: the serializer, which releases its buffer if it    *)
(* fails.                                                                  *)
Respond(x, e) ==
  LET response == Buf(x, e, "response")
  IN  /\ server[x] = "serving" /\ Interaction(x) # "fireAndForget"
      /\ IsNext(x, e, "response")
      /\ Interaction(x) = "requestResponse" => e = 1
      /\ \/ /\ Update({response}, {})
            /\ wire' = wire \cup {response}
            /\ UNCHANGED <<server, client>>
         \/ /\ Update({response}, {response})
            /\ server' = [server EXCEPT ![x] = "failed"]
            /\ client' = [client EXCEPT ![x] = "failed"]
            /\ UNCHANGED wire
      /\ UNCHANGED <<inputs, unread, once, subscriptions, frames, parses,
                     invoked, stale>>

(* The service reads the metadata it was given after its method returned:  *)
(* a slice of the request's payload, which shares its reference count.     *)
ReadMetadata(x) ==
  /\ server[x] = "serving"
  /\ stale' = IF status[Buf(x, 1, "request")] = "live" THEN stale
              ELSE stale \cup {x}
  /\ UNCHANGED <<inputs, unread, once, subscriptions, client, server, frames,
                 status, wire, parses, invoked>>

Next ==
  \/ \E c \in Calls : Subscribe(c)
  \/ \E x \in Exchanges :
       \/ SendRequest(x) \/ Handle(x) \/ ReadMetadata(x) \/ Lose(x)
       \/ \E e \in 1 .. MaxElements :
            \/ SendElement(x, e) \/ Deliver(x, e) \/ Receive(x, e)
            \/ Pull(x, e) \/ Respond(x, e)

Spec == Init /\ [][Next]_vars
-----------------------------------------------------------------------------
(* Properties.                                                             *)

(* The shapes of the state.                                                *)
TypeOK ==
  /\ serverMethods \in ServerVersions
  /\ call \in [Calls -> [method : Methods, length : MetadataLengths]]
  /\ unread \in [Calls -> MetadataLengths \cup {0}]
  /\ once \in [Calls -> BOOLEAN]
  /\ subscriptions \in [Calls -> 0 .. MaxSubscriptions]
  /\ client \in [Exchanges -> {"none", "sending", "waiting", "failed"}]
  /\ server \in [Exchanges -> {"none", "arrived", "notFound", "notImplemented",
                               "unsupported", "malformed", "threw", "serving",
                               "failed", "cancelled"}]
  /\ DOMAIN frames = Exchanges
  /\ status \in [Buffers -> {"none", "live", "released", "twice"}]
  /\ wire \subseteq Buffers
  /\ parses \in [Exchanges -> SUBSET {"ok", "malformed", "released"}]
  /\ invoked \in [Exchanges -> SUBSET Methods]
  /\ stale \subseteq Exchanges

(* No buffer is released a second time, though a request passes through    *)
(* two places that release: the handler's finally block                    *)
(* (SimpleServiceServer.java:57) and the deserializer's (:162), and the    *)
(* same call may be subscribed to again (SimpleServiceClient.java:38).     *)
ReleasedOnce == \A b \in Buffers : status[b] # "twice"

(* No payload is parsed after its release: a channel's first payload is    *)
(* still alive when its stream brings it again (SimpleServiceServer.java   *)
(* :103).                                                                  *)
ParsedAlive == \A x \in Exchanges : "released" \notin parses[x]

(* What is neither released nor in the library's hands.                    *)
Leaked == Live \ wire

KnownLeak(b) ==
  \/ /\ b.part = "metadata" /\ client[b.x] = "failed"
     /\ status[[b EXCEPT !.part = "request"]] = "none"
  \/ /\ b.part = "data" /\ client[b.x] = "failed"
     /\ IsChannel(b.x) /\ ~CanEncode(b.x)
  \/ /\ b.part = "request" /\ ~IsChannel(b.x)
     /\ server[b.x] \in {"notFound", "notImplemented"}

(* A call that succeeds leaves no buffer behind, and a failing one only    *)
(* these: the buffers of an element that could not be sent, because encode *)
(* or serialize threw after they were allocated (SimpleServiceClient.java  *)
(* :43 and :100), and the request that reaches no handler with a finally   *)
(* block, because its service is unknown (RequestHandlingRSocket.java:48)  *)
(* or has no method of that interaction model (java_generator.cpp:991).    *)
KnownLeaks == \A b \in Leaked : KnownLeak(b)

(* A request invokes the method it was made for and no other, if the       *)
(* server has it: the server reads the ids where the client wrote them     *)
(* (ProteusMetadata.java:16 and :57).                                      *)
RoutedByOwnIds ==
  \A x \in Exchanges :
    /\ invoked[x] \subseteq {MethodOf(x)}
    /\ server[x] = "unsupported" => MethodOf(x) \notin serverMethods

(* The first payload of every request that arrives carries the ids of its  *)
(* method, of a stream that is subscribed to again too, although all       *)
(* subscriptions of a call share one flag that may leave the metadata out  *)
(* (SimpleServiceClient.java:94 and :119).                                 *)
RequestsCarryIds ==
  \A x \in Exchanges : server[x] # "none" =>
    /\ namespaceIdOf(frames[x]) = Namespace
    /\ serviceIdOf(frames[x]) = Service
    /\ methodIdOf(frames[x]) = MethodOf(x)

(* A service that reads its metadata after its method has returned finds   *)
(* it released only where it had one message and the handler has returned  *)
(* too (SimpleServiceServer.java:57), or where it took the first element   *)
(* of a stream, with which the metadata goes (:103 and :162).              *)
KnownStaleReads ==
  \A x \in stale : IsChannel(x) => Buf(x, 1, "request") \notin wire
=============================================================================
