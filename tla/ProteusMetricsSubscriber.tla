---------------------- MODULE ProteusMetricsSubscriber ----------------------
(***************************************************************************)
(* metrics/ProteusMetricsSubscriber.java: the operator that                *)
(* ProteusMetrics.timed puts between a publisher and its subscriber.  All  *)
(* subscriptions made through one timed() share three counters and one     *)
(* timer (ProteusMetrics.java:18-33).  The source of a subscription        *)
(* signals from one thread; cancel() may come from any other thread at the *)
(* same time, and the AtomicBoolean decides which of them is counted.      *)
(*                                                                         *)
(* onError, onComplete and cancel have one body: compareAndSet, increment, *)
(* record, pass the signal on.  Each of the four is a step here.  request  *)
(* and onNext pass their argument on and touch no field of the operator:   *)
(* they are no steps of this module.                                       *)
(***************************************************************************)
EXTENDS Integers, FiniteSets

CONSTANTS
  Subscriptions,   \* subscriptions made through one timed() operator
  Source,          \* the thread a source signals from
  Cancellers       \* threads that may cancel

ASSUME MetricsAssumption ==
  /\ IsFiniteSet(Subscriptions) /\ IsFiniteSet(Cancellers)
  /\ Source \notin Cancellers

VARIABLES
  \* the object: this.s (is it set), the AtomicBoolean
  subscribed, settled,
  \* the meters
  tally, recorded,
  \* threads inside onError, onComplete or cancel
  pc, signal,
  \* upstream of the operator
  cancelled,       \* has the subscription been cancelled
  rejected,        \* has a second subscription been cancelled
  \* downstream of the operator: the terminal signals the subscriber got
  terminal,
  \* history: the threads whose compareAndSet has returned true
  winners

vars == <<subscribed, settled, tally, recorded, pc, signal, cancelled,
          rejected, terminal, winners>>

Actors   == {Source} \cup Cancellers
Outcomes == {"success", "error", "cancelled"}

(* The counter that each signal increments.                                *)
OutcomeOf == [onComplete |-> "success", onError |-> "error",
              cancel |-> "cancelled"]

Init ==
  /\ subscribed = [s \in Subscriptions |-> FALSE]
  /\ settled = [s \in Subscriptions |-> FALSE]
  /\ tally = [o \in Outcomes |-> 0]
  /\ recorded = 0
  /\ pc = [s \in Subscriptions |-> [a \in Actors |-> "idle"]]
  /\ signal = [s \in Subscriptions |-> [a \in Actors |-> "none"]]
  /\ cancelled = [s \in Subscriptions |-> FALSE]
  /\ rejected = [s \in Subscriptions |-> FALSE]
  /\ terminal = [s \in Subscriptions |-> {}]
  /\ winners = [s \in Subscriptions |-> {}]
-----------------------------------------------------------------------------
(* A source sends onSubscribe first and nothing after its terminal signal. *)
SourceActive(s) == subscribed[s] /\ signal[s][Source] = "none"

OnSubscribe(s) ==
  /\ ~subscribed[s]
  /\ subscribed' = [subscribed EXCEPT ![s] = TRUE]
  /\ UNCHANGED <<settled, tally, recorded, pc, signal, cancelled, rejected,
                 terminal, winners>>

(* Operators.validate cancels a second subscription and keeps the first.   *)
OnSubscribeAgain(s) ==
  /\ SourceActive(s) /\ ~rejected[s]
  /\ rejected' = [rejected EXCEPT ![s] = TRUE]
  /\ UNCHANGED <<subscribed, settled, tally, recorded, pc, signal, cancelled,
                 terminal, winners>>

(* Thread a enters onComplete, onError or cancel.                          *)
Enter(s, a, sig) ==
  /\ signal' = [signal EXCEPT ![s][a] = sig]
  /\ pc' = [pc EXCEPT ![s][a] = "compareAndSet"]
  /\ UNCHANGED <<subscribed, settled, tally, recorded, cancelled, rejected,
                 terminal, winners>>

Terminate(s) == /\ SourceActive(s)
                /\ \E sig \in {"onComplete", "onError"} : Enter(s, Source, sig)

(* A subscriber has the subscription once onSubscribe was passed on to it. *)
Cancel(s, c) == /\ subscribed[s] /\ signal[s][c] = "none"
                /\ Enter(s, c, "cancel")
-----------------------------------------------------------------------------
AfterLosing_Mutant == "idle"

(* Where a thread goes on that finds the subscription settled.             *)
AfterLosing == "forward"

CompareAndSet_Mutant(s, a) ==
  /\ pc[s][a] = "compareAndSet"
  /\ settled' = [settled EXCEPT ![s] = TRUE]
  /\ winners' = [winners EXCEPT ![s] = IF settled[s] THEN @ ELSE @ \cup {a}]
  /\ pc' = [pc EXCEPT ![s][a] = "increment"]
  /\ UNCHANGED <<subscribed, tally, recorded, signal, cancelled, rejected,
                 terminal>>

CompareAndSet(s, a) ==
  /\ pc[s][a] = "compareAndSet"
  /\ settled' = [settled EXCEPT ![s] = TRUE]
  /\ winners' = [winners EXCEPT ![s] = IF settled[s] THEN @ ELSE @ \cup {a}]
  /\ pc' = [pc EXCEPT ![s][a] = IF settled[s] THEN AfterLosing
                                              ELSE "increment"]
  /\ UNCHANGED <<subscribed, tally, recorded, signal, cancelled, rejected,
                 terminal>>

Counter_Mutant(s, a) == IF signal[s][a] = "cancel" THEN "cancelled" ELSE "success"

Counter(s, a) == OutcomeOf[signal[s][a]]

Increment(s, a) ==
  /\ pc[s][a] = "increment"
  /\ tally' = [tally EXCEPT ![Counter(s, a)] = @ + 1]
  /\ pc' = [pc EXCEPT ![s][a] = "record"]
  /\ UNCHANGED <<subscribed, settled, recorded, signal, cancelled, rejected,
                 terminal, winners>>

Record_Mutant(s, a) ==
  /\ pc[s][a] \in {"record", "forward"}
  /\ recorded' = recorded + 1
  /\ pc' = [pc EXCEPT ![s][a] = "forward"]
  /\ UNCHANGED <<subscribed, settled, tally, signal, cancelled, rejected,
                 terminal, winners>>

Record(s, a) ==
  /\ pc[s][a] = "record"
  /\ recorded' = recorded + 1
  /\ pc' = [pc EXCEPT ![s][a] = "forward"]
  /\ UNCHANGED <<subscribed, settled, tally, signal, cancelled, rejected,
                 terminal, winners>>

GoesUpstream_Mutant(sig) == FALSE

(* s.cancel() in cancel, actual.onError() and actual.onComplete() in the   *)
(* other two.                                                              *)
GoesUpstream(sig) == sig = "cancel"

(* A terminal signal goes to the subscriber, a cancel to the source,       *)
(* whether or not it was the one that counted.                             *)
Forward(s, a) ==
  /\ pc[s][a] = "forward"
  /\ pc' = [pc EXCEPT ![s][a] = "idle"]
  /\ IF GoesUpstream(signal[s][a])
       THEN /\ cancelled' = [cancelled EXCEPT ![s] = TRUE]
            /\ UNCHANGED terminal
       ELSE /\ terminal' = [terminal EXCEPT ![s] = @ \cup {signal[s][a]}]
            /\ UNCHANGED cancelled
  /\ UNCHANGED <<subscribed, settled, tally, recorded, signal, rejected,
                 winners>>
-----------------------------------------------------------------------------
Handle(s, a) == \/ CompareAndSet(s, a) \/ Increment(s, a)
                \/ Record(s, a) \/ Forward(s, a)

Next == \E s \in Subscriptions :
          \/ OnSubscribe(s) \/ OnSubscribeAgain(s) \/ Terminate(s)
          \/ \E c \in Cancellers : Cancel(s, c)
          \/ \E a \in Actors : Handle(s, a)

Spec == Init /\ [][Next]_vars

(* A thread that has entered a handler executes it to its end.  No source  *)
(* has to signal and nobody has to cancel.                                 *)
FairSpec == Spec /\ \A s \in Subscriptions, a \in Actors : WF_vars(Handle(s, a))
-----------------------------------------------------------------------------
(* PROPERTIES *)

Pcs == {"idle", "compareAndSet", "increment", "record", "forward"}

(* Shapes of the state; a thread is in a handler only with its signal.     *)
TypeOK ==
  /\ subscribed \in [Subscriptions -> BOOLEAN]
  /\ settled \in [Subscriptions -> BOOLEAN]
  /\ tally \in [Outcomes -> Nat] /\ recorded \in Nat
  /\ pc \in [Subscriptions -> [Actors -> Pcs]]
  /\ signal \in [Subscriptions -> [Actors ->
                   {"none", "onComplete", "onError", "cancel"}]]
  /\ \A s \in Subscriptions, a \in Actors :
        pc[s][a] # "idle" =>
          IF a = Source THEN signal[s][a] \in {"onComplete", "onError"}
                        ELSE signal[s][a] = "cancel"
  /\ cancelled \in [Subscriptions -> BOOLEAN]
  /\ rejected \in [Subscriptions -> BOOLEAN]
  /\ terminal \in [Subscriptions -> SUBSET {"onComplete", "onError"}]
  /\ winners \in [Subscriptions -> SUBSET Actors]

At(label) == {x \in Subscriptions \X Actors : pc[x[1]][x[2]] = label}

Counted == tally["success"] + tally["error"] + tally["cancelled"]

(* However its completion, error and cancellations race, a subscription is *)
(* counted once: what the three counters lack is still in a winner's hands.*)
CountedOnce ==
  Counted + Cardinality(At("increment"))
    = Cardinality({s \in Subscriptions : settled[s]})

(* The timer has one sample for each counted subscription: the rate and    *)
(* the latency a dashboard shows are about the same requests.              *)
OneSampleEach == recorded + Cardinality(At("record")) = Counted

(* Only one thread is between compareAndSet and the end of the recording.  *)
SoleWinner ==
  \A s \in Subscriptions : \A a, b \in Actors :
     /\ pc[s][a] \in {"increment", "record"}
     /\ pc[s][b] \in {"increment", "record"}
     => a = b

(* Subscriptions that a signal of kind sig has ended and whose count has   *)
(* reached a counter.                                                      *)
Landed(sig) == {s \in Subscriptions :
                  \E a \in winners[s] : /\ signal[s][a] = sig
                                        /\ pc[s][a] # "increment"}

(* Whichever thread wins the race for a subscription, the subscription is  *)
(* counted as its signal says: each counter is the number of subscriptions *)
(* ended by a signal of its kind, none taken for another and none missing, *)
(* but for those whose winner is just about to count.                      *)
CountedAsItEnded ==
  \A sig \in {"onComplete", "onError", "cancel"} :
    tally[OutcomeOf[sig]] = Cardinality(Landed(sig))

(* Losing the race for the counter does not swallow a signal: the          *)
(* subscriber hears how its source ended, and a cancel reaches the source. *)
SignalsForwarded ==
  \A s \in Subscriptions :
    /\ signal[s][Source] # "none" ~> terminal[s] = {signal[s][Source]}
    /\ (\E c \in Cancellers : signal[s][c] = "cancel") ~> cancelled[s]
=============================================================================
