--------------------------- MODULE JavaGenerator ---------------------------
(***************************************************************************)
(* compiler/src/java_plugin/cpp/java_generator.cpp: the protoc plugin      *)
(* prints an interface, a client and a server for a service, in three      *)
(* passes that each classify every method anew and that each fill the map  *)
(* of template variables (vars in the code, dict here) as they go.         *)
(*                                                                         *)
(* The printed Java is kept as its declarations: what is named, its types, *)
(* the RSocket call or the switch label it stands in.  Whether javac takes *)
(* them (Compiles, WellTyped) and where a call of the client ends up       *)
(* (Reaches) is read off the declarations alone.                           *)
(***************************************************************************)
EXTENDS Naturals, Sequences, Functions

CONSTANTS Services,  \* the services to print: sequences of method descriptors
          NULL

(* A method descriptor has the three facts the printers test and, under    *)
(* the names of the template variables, the strings they print for it.     *)
(* The strings derived from names (LowerMethodName, MethodIdFieldName,     *)
(* MethodId) need not differ between methods: fooBar and foo_bar share the *)
(* first two, and an id is a hash.                                         *)
Keys == {"input_type", "output_type", "lower_method_name", "method_id_name",
         "method_id"}
Facts == {"client_streaming", "server_streaming", "field_count"}

ASSUME GeneratorAssumption ==
  \A service \in Services :
    /\ service \in Seq(Range(service))
    /\ \A m \in Range(service) :
         /\ DOMAIN m = Keys \cup Facts
         /\ m.client_streaming \in BOOLEAN
         /\ m.server_streaming \in BOOLEAN
         /\ m.field_count \in Nat

VARIABLES service,  \* the service being printed
          at,       \* the loop that runs, an index of Loops
          todo,     \* its methods not printed yet
          dict,     \* the template variables
          buckets,  \* the server's four vectors
          printed   \* what each loop has printed

vars == <<service, at, todo, dict, buckets, printed>>

Interactions == {"fireAndForget", "requestResponse", "requestStream",
                 "requestChannel"}

(* The loops over methods, in the order they run; the last four print the  *)
(* switches of the server's handlers.                                      *)
Loops == << "ids", "signatures",
            "clientFields", "clientIdentity", "clientTimed", "clientMethods",
            "serverFields", "serverIdentity", "serverTimed", "buckets",
            "fireAndForget", "requestResponse", "requestStream",
            "requestChannel" >>
FirstOfFile == {"ids", "clientFields", "serverFields"}

Done == at > Len(Loops)
-----------------------------------------------------------------------------
(* Java types.                                                             *)
Mono(item) == [many |-> FALSE, item |-> item]
Flux(item) == [many |-> TRUE, item |-> item]

Mapped(type, item) == [type EXCEPT !.item = item]   \* .map(...)
Single(type)       == [type EXCEPT !.many = FALSE]  \* .single()
AsFlux(type)       == [type EXCEPT !.many = TRUE]   \* .flux()

(* What io.rsocket.RSocket's methods return; the handlers override them.   *)
SocketReturns ==
  [i \in Interactions |->
     CASE i = "fireAndForget"   -> Mono("Void")
       [] i = "requestResponse" -> Mono("Payload")
       [] OTHER                 -> Flux("Payload")]

(* Every printer makes these tests again, and not all in the same order.   *)
Declared(m, output) ==
  IF m.server_streaming THEN Flux(output)
  ELSE IF m.client_streaming THEN Mono(output)
  ELSE IF m.field_count > 0 THEN Mono(output)
  ELSE Mono("Void")

Parameter(m) == IF m.client_streaming THEN "messages" ELSE "message"

Called_Mutant(m) ==
  IF m.server_streaming THEN "requestStream"
  ELSE IF m.client_streaming THEN "requestChannel"
  ELSE IF m.field_count > 0 THEN "requestResponse"
  ELSE "fireAndForget"

(* The method of RSocket the client calls.                                 *)
Called(m) ==
  IF m.client_streaming THEN "requestChannel"
  ELSE IF m.server_streaming THEN "requestStream"
  ELSE IF m.field_count > 0 THEN "requestResponse"
  ELSE "fireAndForget"

Body_Mutant(m, output) ==
  LET response == SocketReturns[Called(m)]
  IN  IF Called(m) = "fireAndForget" THEN response ELSE Mapped(response, output)

(* The type of the expression the client returns.                          *)
Body(m, output) ==
  LET response == SocketReturns[Called(m)]
  IN  IF Called(m) = "fireAndForget" THEN response
      ELSE IF Called(m) = "requestChannel" /\ ~m.server_streaming
           THEN Single(Mapped(response, output))
           ELSE Mapped(response, output)

FieldItem(m, item) ==
  IF m.server_streaming \/ m.client_streaming \/ m.field_count > 0
  THEN item ELSE "Void"

(* The server's handler a method is answered in.                           *)
BucketOf(m) ==
  IF m.client_streaming THEN "requestChannel"
  ELSE IF m.server_streaming THEN "requestStream"
  ELSE IF m.field_count > 0 THEN "requestResponse"
  ELSE "fireAndForget"
-----------------------------------------------------------------------------
NoValues == [k \in Keys |-> NULL]

Init == /\ service \in Services
        /\ at = 1
        /\ todo = service
        /\ dict = NoValues
        /\ buckets = [i \in Interactions |-> <<>>]
        /\ printed = [l \in Range(Loops) |-> <<>>]

(* One turn of a loop: it sets some variables for the method and prints.   *)
Turn(loop, keys, text(_, _)) ==
  /\ ~Done /\ Loops[at] = loop /\ todo # <<>>
  /\ LET m == Head(todo)
         d == [k \in Keys |-> IF k \in keys THEN m[k] ELSE dict[k]]
     IN  /\ dict' = d
         /\ printed' = [printed EXCEPT ![loop] = Append(@, text(m, d))]
  /\ todo' = Tail(todo)
  /\ UNCHANGED <<service, at, buckets>>

PrintId ==
  LET text(m, d) == [name |-> d.method_id_name, value |-> d.method_id]
  IN  Turn("ids", {"method_id_name", "method_id"}, text)

Signature(m, d) == [name |-> d.lower_method_name,
                    returns |-> Declared(m, d.output_type),
                    takes |-> Parameter(m), input |-> d.input_type]

PrintSignature ==
  Turn("signatures", {"input_type", "output_type", "lower_method_name"},
       Signature)

PrintClientField ==
  LET text(m, d) == [name |-> d.lower_method_name,
                     item |-> FieldItem(m, d.output_type)]
  IN  Turn("clientFields", {"output_type", "lower_method_name"}, text)

PrintServerField ==
  LET text(m, d) == [name |-> d.lower_method_name,
                     item |-> FieldItem(m, "Payload")]
  IN  Turn("serverFields", {"lower_method_name"}, text)

(* The assignments in a constructor: identity(), or timed(...) with the    *)
(* method's name as a tag.                                                 *)
PrintAssignment(loop) ==
  LET text(m, d) == [name |-> d.lower_method_name]
  IN  Turn(loop, {"lower_method_name"}, text)

MethodKeys == {"input_type", "output_type", "lower_method_name",
               "method_id_name"}

PrintClientMethod ==
  LET text(m, d) == [signature |-> Signature(m, d),
                     body |-> Body(m, d.output_type),
                     calls |-> Called(m),
                     label |-> d.method_id_name]
  IN  Turn("clientMethods", MethodKeys, text)

FillBucket ==
  /\ ~Done /\ Loops[at] = "buckets" /\ todo # <<>>
  /\ buckets' = [buckets EXCEPT ![BucketOf(Head(todo))] = Append(@, Head(todo))]
  /\ todo' = Tail(todo)
  /\ UNCHANGED <<service, at, dict, printed>>

(* A single answer to a stream of requests is turned into a Flux.          *)
NeedsFlux(handler, m) == handler = "requestChannel" /\ ~m.server_streaming

(* One case of a handler's switch.                                         *)
CaseText(handler, m, d) == [label |-> d.method_id_name,
                            target |-> d.lower_method_name,
                            input |-> d.input_type,
                            flux |-> NeedsFlux(handler, m)]

PrintCase(handler) ==
  LET text(m, d) == CaseText(handler, m, d)
  IN  Turn(handler,
           IF handler = "fireAndForget" THEN MethodKeys \ {"output_type"}
                                        ELSE MethodKeys,
           text)

(* A loop ends; a new file starts with an empty map of variables.          *)
NextLoop ==
  /\ ~Done /\ todo = <<>>
  /\ at' = at + 1
  /\ todo' = IF at = Len(Loops) THEN <<>>
             ELSE IF Loops[at + 1] \in Interactions THEN buckets[Loops[at + 1]]
             ELSE service
  /\ dict' = IF at < Len(Loops) /\ Loops[at + 1] \in FirstOfFile
             THEN NoValues ELSE dict
  /\ UNCHANGED <<service, buckets, printed>>

Next ==
  \/ PrintId \/ PrintSignature
  \/ PrintClientField \/ PrintClientMethod \/ PrintServerField
  \/ \E loop \in {"clientIdentity", "clientTimed", "serverIdentity",
                  "serverTimed"} : PrintAssignment(loop)
  \/ FillBucket
  \/ \E handler \in Interactions : PrintCase(handler)
  \/ NextLoop

Spec == Init /\ [][Next]_vars
-----------------------------------------------------------------------------
(* Properties.                                                             *)

Names(loop, key) == [i \in DOMAIN printed[loop] |-> printed[loop][i][key]]

(* The value of the interface's constant of this name.                     *)
Constant(name) ==
  (CHOOSE id \in Range(printed["ids"]) : id.name = name).value

(* No two declarations of one name, no two cases of one switch with the    *)
(* same constant.  Only javac checks this; protoc accepts the service.     *)
Compiles ==
  /\ IsInjective(Names("ids", "name"))
  /\ IsInjective(Names("clientFields", "name"))
  /\ \A h \in Interactions :
        IsInjective([i \in DOMAIN printed[h] |-> Constant(printed[h][i].label)])

(* The type of a case's expression, from the type of the service method    *)
(* it calls: as it is, or .map(serializer), or that and .flux().           *)
CaseType(handler, case, returns) ==
  IF handler = "fireAndForget" THEN returns
  ELSE IF case.flux THEN AsFlux(Mapped(returns, "Payload"))
  ELSE Mapped(returns, "Payload")

(* The three files agree (java_generator.cpp:359, 565 and 908 classify     *)
(* methods separately): the client implements exactly the interface, every *)
(* body has the type its method declares and passes the transformer of its *)
(* own method, every case of the server calls a method of the interface    *)
(* that takes what the case parses and returns what the handler returns,   *)
(* and the constructors assign every final field.                          *)
WellTyped ==
  Done =>
    /\ Names("clientMethods", "signature") = printed["signatures"]
    /\ \A c \in Range(printed["clientMethods"]) :
         /\ c.body = c.signature.returns
         /\ [name |-> c.signature.name, item |-> c.body.item]
              \in Range(printed["clientFields"])
    /\ \A h \in Interactions : \A case \in Range(printed[h]) :
         /\ \E s \in Range(printed["signatures"]) :
              /\ s.name = case.target
              /\ s.input = case.input
              /\ s.takes = IF h = "requestChannel" THEN "messages" ELSE "message"
              /\ CaseType(h, case, s.returns) = SocketReturns[h]
         /\ [name |-> case.target, item |-> SocketReturns[h].item]
              \in Range(printed["serverFields"])
    /\ \A loop \in {"clientIdentity", "clientTimed"} :
         Names(loop, "name") = Names("clientFields", "name")
    /\ \A loop \in {"serverIdentity", "serverTimed"} :
         Names(loop, "name") = Names("serverFields", "name")

(* The cases a request lands in: those of the handler the client's RSocket *)
(* call ends in, with the id the client's method writes into the metadata. *)
Landing(c) == {case \in Range(printed[c.calls]) :
                 Constant(case.label) = Constant(c.label)}

(* If the files compile, the call of a client's method is answered by the  *)
(* service's method of the same name, and by nothing else: the client      *)
(* (java_generator.cpp:573) and the server (java_generator.cpp:908) chose  *)
(* the same interaction model and wrote the same id.                       *)
Reaches ==
  Done /\ Compiles =>
    \A c \in Range(printed["clientMethods"]) :
      /\ Landing(c) # {}
      /\ \A case \in Landing(c) : case.target = c.signature.name

(* docs/index.md says of fire-and-forget that one needs to return          *)
(* google.Protobuf.Empty; the printers test field_count instead            *)
(* (java_generator.cpp:914).                                               *)
OnlyEmptyIsFireAndForget ==
  \A m \in Range(buckets["fireAndForget"]) :
    m.output_type = "google.protobuf.Empty"
=============================================================================
