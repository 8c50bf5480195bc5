--------------------------- MODULE ServiceRegistry ---------------------------
(***************************************************************************)
(* What RequestHandlingRSocket promises to the threads that use it: one    *)
(* registry of services by (namespaceId, serviceId), in which each         *)
(* addService and each lookup takes effect at a single instant between its *)
(* call and its return.  A later registration under the same ids replaces  *)
(* the earlier one.                                                        *)
(*                                                                         *)
(* RequestHandlingRSocket.tla implements it (its Refinement).              *)
(***************************************************************************)

CONSTANTS Threads,   \* everyone who calls, the constructor included
          Services, Ids, IdOf, NULL

VARIABLES registry,  \* the service found under an id, or NULL
          pending,   \* a thread's call that has not taken effect, or NoCall
          found      \* what a thread's last lookup found

vars == <<registry, pending, found>>

NoCall       == [op |-> "none", id |-> NULL, service |-> NULL]
AddCall(s)   == [op |-> "add", id |-> IdOf[s], service |-> s]
FindCall(id) == [op |-> "find", id |-> id, service |-> NULL]

Init == /\ registry = [id \in Ids |-> NULL]
        /\ pending = [t \in Threads |-> NoCall]
        /\ found = [t \in Threads |-> NULL]

Invoke(t) == /\ pending[t] = NoCall
             /\ \/ \E s \in Services : pending' = [pending EXCEPT ![t] = AddCall(s)]
                \/ \E id \in Ids : pending' = [pending EXCEPT ![t] = FindCall(id)]
             /\ UNCHANGED <<registry, found>>

Add(t) == /\ pending[t].op = "add"
          /\ registry' = [registry EXCEPT ![pending[t].id] = pending[t].service]
          /\ pending' = [pending EXCEPT ![t] = NoCall]
          /\ UNCHANGED found

Find(t) == /\ pending[t].op = "find"
           /\ found' = [found EXCEPT ![t] = registry[pending[t].id]]
           /\ pending' = [pending EXCEPT ![t] = NoCall]
           /\ UNCHANGED registry

Next == \E t \in Threads : Invoke(t) \/ Add(t) \/ Find(t)

Spec == Init /\ [][Next]_vars
=============================================================================
