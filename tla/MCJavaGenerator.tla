-------------------------- MODULE MCJavaGenerator --------------------------
(* Services of up to three methods of every kind.  Of two methods, names   *)
(* and ids may be the same; output types are Empty or a message of their   *)
(* own, so that a value left over from another method shows.               *)
EXTENDS JavaGenerator

Kinds == [client_streaming : BOOLEAN, server_streaming : BOOLEAN,
          field_count : {0, 1}]

Method(kind, input, output, lower, idName, id) ==
  [client_streaming  |-> kind.client_streaming,
   server_streaming  |-> kind.server_streaming,
   field_count       |-> kind.field_count,
   input_type        |-> input,
   output_type       |-> output,
   lower_method_name |-> lower,
   method_id_name    |-> idName,
   method_id         |-> id]

First(kind) == Method(kind, "In1", "Out1", "l1", "M1", 1)

MCServices ==
  {<<>>}
  \cup {<<First(k)>> : k \in Kinds}
  \cup {<<First(k), Method(j, "In2", "Out2", l, n, i)>> :
          k \in Kinds, j \in Kinds, l \in {"l1", "l2"}, n \in {"M1", "M2"},
          i \in {1, 2}}
  \cup {<<First(k), Method(j, "In2", "Out2", "l2", "M2", 2),
          Method(h, "In3", "Out3", "l3", "M3", i)>> :
          k \in Kinds, j \in Kinds, h \in Kinds, i \in {1, 3}}

(* The unary calls of compiler/src/test/proto/test.proto, and one more     *)
(* that returns google.protobuf.Empty.                                     *)
Unary(fields) == [client_streaming |-> FALSE, server_streaming |-> FALSE,
                  field_count |-> fields]

UnaryCall == Method(Unary(1), "SimpleRequest", "SimpleResponse",
                    "unaryCall", "METHOD_UNARY_CALL", 1)
EmptyCall == Method(Unary(0), "SimpleRequest", "EmptyResponse",
                    "emptyCall", "METHOD_EMPTY_CALL", 2)
FireAndForget == Method(Unary(0), "SimpleRequest", "google.protobuf.Empty",
                        "fireAndForget", "METHOD_FIRE_AND_FORGET", 3)

TestServices == {<<UnaryCall, EmptyCall, FireAndForget>>}
=============================================================================
