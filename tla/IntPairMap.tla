----------------------------- MODULE IntPairMap -----------------------------
(***************************************************************************)
(* What a caller of collections/BiInt2ObjectMap may rely on, with no hash  *)
(* table in sight: a partial function from key pairs to values.  A call is *)
(* announced by Invoke and takes effect in ONE later step; computeIfAbsent *)
(* takes effect in two, because the caller's mapping function runs between *)
(* its lookup and its store and may itself call the map.                   *)
(*                                                                         *)
(* BiInt2ObjectMap.tla implements this specification; the refinement is    *)
(* BiInt2ObjectMap!Refinement.                                             *)
(***************************************************************************)

CONSTANTS Keys,       \* compound keys (namespaceId, serviceId)
          Values,     \* the non-null references that can be stored
          NULL,       \* Java's null
          EXCEPTION   \* the outcome of a call that throws

VARIABLES map,        \* the association, NULL where there is none
          call,       \* the call that has not taken effect yet, or NoCall
          computing,  \* the key whose mapping function is running, or NULL
          result      \* outcome of the last call that took effect

vars == <<map, call, computing, result>>

NoCall == [op |-> "none", key |-> NULL, value |-> NULL]

Ready == call = NoCall

Init == /\ map = [k \in Keys |-> NULL]
        /\ call = NoCall
        /\ computing = NULL
        /\ result = NULL

Invoke(op, k, v) ==
  /\ Ready
  /\ call' = [op |-> op, key |-> k, value |-> v]
  /\ UNCHANGED <<map, computing, result>>

(* put returns what the key was associated with; the growth that follows   *)
(* the store may throw, and then the value is stored all the same.         *)
Put == /\ call.op = "put"
       /\ map' = [map EXCEPT ![call.key] = call.value]
       /\ result' \in {map[call.key], EXCEPTION}
       /\ call' = NoCall
       /\ UNCHANGED computing

Get == /\ call.op = "get"
       /\ result' = map[call.key]
       /\ call' = NoCall
       /\ UNCHANGED <<map, computing>>

Remove == /\ call.op = "remove"
          /\ map' = [map EXCEPT ![call.key] = NULL]
          /\ result' = map[call.key]
          /\ call' = NoCall
          /\ UNCHANGED computing

Clear == /\ Ready
         /\ map' = [k \in Keys |-> NULL]
         /\ result' = NULL
         /\ UNCHANGED <<call, computing>>

Find == /\ call.op = "computeIfAbsent" /\ call.value = NULL
        /\ call' = NoCall
        /\ UNCHANGED map
        /\ \/ /\ map[call.key] # NULL
              /\ result' = map[call.key]
              /\ UNCHANGED computing
           \/ /\ map[call.key] = NULL
              /\ computing' = call.key
              /\ UNCHANGED result

(* The mapping function returns a value, returns null, or throws.          *)
Computed == /\ Ready /\ computing # NULL
            /\ UNCHANGED map
            /\ \/ \E v \in Values :
                    /\ call' = [op |-> "computeIfAbsent",
                                key |-> computing, value |-> v]
                    /\ UNCHANGED <<computing, result>>
               \/ /\ result' \in {NULL, EXCEPTION}
                  /\ computing' = NULL
                  /\ UNCHANGED call

Enter == /\ call.op = "computeIfAbsent" /\ call.value # NULL
         /\ map' = [map EXCEPT ![call.key] = call.value]
         /\ result' \in {call.value, EXCEPTION}
         /\ call' = NoCall
         /\ computing' = NULL

(* compact only moves entries.                                             *)
Compact == /\ Ready
           /\ result' = NULL
           /\ UNCHANGED <<map, call, computing>>

(* Growing or compacting the table may throw; the association stands.      *)
Fail == /\ result' = EXCEPTION
        /\ UNCHANGED <<map, call, computing>>

Next == \/ \E k \in Keys, v \in Values : Invoke("put", k, v)
        \/ \E k \in Keys, op \in {"get", "remove", "computeIfAbsent"} :
              Invoke(op, k, NULL)
        \/ Put \/ Get \/ Remove \/ Clear \/ Compact \/ Find \/ Computed \/ Enter
        \/ Fail

Spec == Init /\ [][Next]_vars
=============================================================================
