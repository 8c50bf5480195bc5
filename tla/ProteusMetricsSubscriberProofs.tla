------------------- MODULE ProteusMetricsSubscriberProofs -------------------
(***************************************************************************)
(* Proofs about ProteusMetricsSubscriber, for any number of subscriptions  *)
(* that share their meters and any number of threads that cancel.          *)
(***************************************************************************)
EXTENDS ProteusMetricsSubscriber, FiniteSetTheorems, TLAPS

(* The initial state has the declared shapes.                              *)
LEMMA InitTypeOK == Init => TypeOK
BY DEF Init, TypeOK, Actors, Outcomes, Pcs

(* Entering a handler keeps the shapes if the thread enters with a signal  *)
(* of its own kind.                                                        *)
LEMMA EnterTypeOK ==
  ASSUME TypeOK, NEW s \in Subscriptions, NEW a \in Actors,
         NEW sig \in {"onComplete", "onError", "cancel"},
         sig = "cancel" <=> a # Source,
         Enter(s, a, sig)
  PROVE  TypeOK'
<1>1. /\ pc' \in [Subscriptions -> [Actors -> Pcs]]
      /\ signal' \in [Subscriptions -> [Actors ->
                        {"none", "onComplete", "onError", "cancel"}]]
  BY DEF TypeOK, Enter, Pcs
<1>2. \A r \in Subscriptions, b \in Actors :
         IF <<r, b>> = <<s, a>>
           THEN signal'[r][b] = sig
           ELSE pc'[r][b] = pc[r][b] /\ signal'[r][b] = signal[r][b]
  BY DEF TypeOK, Enter
<1>3. UNCHANGED <<subscribed, settled, tally, recorded, cancelled, rejected,
                  terminal, winners>>
  BY DEF Enter
<1>4. \A r \in Subscriptions, b \in Actors :
         pc'[r][b] # "idle" =>
           IF b = Source THEN signal'[r][b] \in {"onComplete", "onError"}
                         ELSE signal'[r][b] = "cancel"
  BY <1>2 DEF TypeOK
<1>5. QED
  BY <1>1, <1>3, <1>4 DEF TypeOK

(* Inside a handler a thread has one of the three signals.                 *)
LEMMA HandlerSignal ==
  ASSUME TypeOK, NEW s \in Subscriptions, NEW a \in Actors, pc[s][a] # "idle"
  PROVE  signal[s][a] \in {"onComplete", "onError", "cancel"}
BY DEF TypeOK

(* Every step keeps the shapes.                                            *)
LEMMA NextTypeOK == TypeOK /\ [Next]_vars => TypeOK'
<1> SUFFICES ASSUME TypeOK, [Next]_vars PROVE TypeOK'
  OBVIOUS
<1>1. ASSUME NEW s \in Subscriptions, OnSubscribe(s)
      PROVE  TypeOK'
  BY <1>1 DEF OnSubscribe, TypeOK
<1>2. ASSUME NEW s \in Subscriptions, OnSubscribeAgain(s)
      PROVE  TypeOK'
  BY <1>2 DEF OnSubscribeAgain, TypeOK
<1>3. ASSUME NEW s \in Subscriptions, Terminate(s)
      PROVE  TypeOK'
  <2>1. PICK sig \in {"onComplete", "onError"} : Enter(s, Source, sig)
    BY <1>3 DEF Terminate
  <2>2. Source \in Actors /\ sig # "cancel"
    BY DEF Actors
  <2>3. QED
    BY <2>1, <2>2, EnterTypeOK
<1>4. ASSUME NEW s \in Subscriptions, NEW c \in Cancellers, Cancel(s, c)
      PROVE  TypeOK'
  BY <1>4, EnterTypeOK, MetricsAssumption DEF Cancel, Actors
<1>5. ASSUME NEW s \in Subscriptions, NEW a \in Actors, CompareAndSet(s, a)
      PROVE  TypeOK'
  BY <1>5 DEF CompareAndSet, AfterLosing, Pcs, TypeOK
<1>6. ASSUME NEW s \in Subscriptions, NEW a \in Actors, Increment(s, a)
      PROVE  TypeOK'
  <2>1. Counter(s, a) \in Outcomes
    BY <1>6, HandlerSignal DEF Increment, Counter, OutcomeOf, Outcomes
  <2>2. tally' \in [Outcomes -> Nat]
    BY <1>6, <2>1 DEF Increment, TypeOK
  <2>3. QED
    BY <1>6, <2>2 DEF Increment, Pcs, TypeOK
<1>7. ASSUME NEW s \in Subscriptions, NEW a \in Actors, Record(s, a)
      PROVE  TypeOK'
  BY <1>7 DEF Record, Pcs, TypeOK
<1>8. ASSUME NEW s \in Subscriptions, NEW a \in Actors, Forward(s, a)
       PROVE  TypeOK'
  <2>1. signal[s][a] \in {"onComplete", "onError", "cancel"}
    BY <1>8, HandlerSignal DEF Forward
  <2>2. CASE signal[s][a] = "cancel"
    <3>1. /\ cancelled' \in [Subscriptions -> BOOLEAN]
          /\ UNCHANGED <<terminal, subscribed, settled, tally, recorded, signal,
                         rejected, winners>>
      BY <1>8, <2>2 DEF Forward, GoesUpstream, TypeOK
    <3>2. pc' = [pc EXCEPT ![s][a] = "idle"]
      BY <1>8 DEF Forward
    <3>3. QED
      BY <3>1, <3>2 DEF Pcs, TypeOK
  <2>3. CASE signal[s][a] # "cancel"
    <3>1. terminal[s] \cup {signal[s][a]} \in SUBSET {"onComplete", "onError"}
      BY <2>1, <2>3 DEF TypeOK
    <3>2. terminal' \in [Subscriptions -> SUBSET {"onComplete", "onError"}]
      <4>1. terminal' = [terminal EXCEPT ![s] = terminal[s] \cup {signal[s][a]}]
        BY <1>8, <2>3 DEF Forward, GoesUpstream
      <4>2. terminal \in [Subscriptions -> SUBSET {"onComplete", "onError"}]
        BY DEF TypeOK
      <4>3. QED
        BY <3>1, <4>1, <4>2
    <3>3. /\ pc' = [pc EXCEPT ![s][a] = "idle"]
          /\ UNCHANGED <<cancelled, subscribed, settled, tally, recorded, signal,
                         rejected, winners>>
      BY <1>8, <2>3 DEF Forward, GoesUpstream
    <3>4. QED
      BY <3>2, <3>3 DEF Pcs, TypeOK
  <2>4. QED
    BY <2>2, <2>3
<1>9. CASE UNCHANGED vars
  BY <1>9 DEF vars, TypeOK
<1>10. QED
  BY <1>1, <1>2, <1>3, <1>4, <1>5, <1>6, <1>7, <1>8, <1>9
  DEF Next, Handle

(* Every reachable state has the declared shapes.                          *)
THEOREM TypeCorrect == Spec => []TypeOK
BY InitTypeOK, NextTypeOK, PTL DEF Spec
-----------------------------------------------------------------------------
Counting(s, a) == pc[s][a] \in {"increment", "record"}

(* SoleWinner is inductive once one knows that a winner has settled the    *)
(* subscription: from then on every compareAndSet on it fails.             *)
WinnerInv == /\ TypeOK /\ SoleWinner
             /\ \A s \in Subscriptions, a \in Actors :
                   Counting(s, a) => settled[s]

(* A step after which nobody counts who did not count before, and that     *)
(* leaves what is settled settled, keeps the invariant.                    *)
LEMMA NoNewWinner ==
  ASSUME WinnerInv, TypeOK',
         \A s \in Subscriptions, a \in Actors :
            /\ Counting(s, a)' => Counting(s, a)
            /\ settled[s] => settled'[s]
  PROVE  WinnerInv'
<1>1. SoleWinner'
  BY DEF WinnerInv, SoleWinner, Counting
<1>2. \A s \in Subscriptions, a \in Actors : Counting(s, a)' => settled'[s]
  BY DEF WinnerInv, SoleWinner, Counting
<1>3. QED
  BY <1>1, <1>2 DEF WinnerInv

(* Every step keeps it: only compareAndSet makes a new winner, and only on *)
(* a subscription that nobody has settled.                                 *)
LEMMA NextWinnerInv == WinnerInv /\ [Next]_vars => WinnerInv'
<1> SUFFICES ASSUME WinnerInv, [Next]_vars PROVE WinnerInv'
  OBVIOUS
<1>1. TypeOK /\ TypeOK'
  BY NextTypeOK DEF WinnerInv
<1>2. CASE pc' = pc /\ settled' = settled
  <2>1. \A s \in Subscriptions, a \in Actors : Counting(s, a)' <=> Counting(s, a)
    BY <1>2 DEF Counting
  <2>2. QED
    BY <1>1, <1>2, <2>1, NoNewWinner
<1>3. ASSUME NEW s \in Subscriptions, NEW a \in Actors,
             settled' = settled,
             \E label \in {"compareAndSet", "forward", "idle"} :
                pc' = [pc EXCEPT ![s][a] = label]
      PROVE  WinnerInv'
  <2>1. \A r \in Subscriptions, b \in Actors : Counting(r, b)' => Counting(r, b)
    BY <1>1, <1>3 DEF Counting, TypeOK
  <2>2. QED
    BY <1>1, <1>3, <2>1, NoNewWinner
<1>4. ASSUME NEW s \in Subscriptions, NEW a \in Actors, Increment(s, a)
      PROVE  WinnerInv'
  <2>1. settled' = settled /\ Counting(s, a)
    BY <1>4 DEF Increment, Counting
  <2>2. \A r \in Subscriptions, b \in Actors : Counting(r, b)' => Counting(r, b)
    BY <1>1, <1>4, <2>1 DEF Counting, Increment, TypeOK
  <2>3. QED
    BY <1>1, <2>1, <2>2, NoNewWinner
<1>5. ASSUME NEW s \in Subscriptions, NEW a \in Actors, CompareAndSet(s, a)
      PROVE  WinnerInv'
  <2>1. \A r \in Subscriptions : settled'[r] <=> settled[r] \/ r = s
    BY <1>1, <1>5 DEF CompareAndSet, TypeOK
  <2>2. \A r \in Subscriptions, b \in Actors :
           <<r, b>> # <<s, a>> => pc'[r][b] = pc[r][b]
    BY <1>1, <1>5 DEF CompareAndSet, TypeOK
  <2>3. CASE settled[s]
    <3>1. pc'[s][a] = "forward"
      BY <1>1, <1>5, <2>3 DEF CompareAndSet, AfterLosing, TypeOK
    <3>2. \A r \in Subscriptions, b \in Actors :
             Counting(r, b)' => Counting(r, b)
      BY <2>2, <3>1 DEF Counting
    <3>3. QED
      BY <1>1, <2>1, <3>2, NoNewWinner
  <2>4. CASE ~settled[s]
    <3>1. \A b \in Actors : ~Counting(s, b)
      BY <2>4 DEF WinnerInv
    <3>2. SoleWinner'
      BY <2>2, <3>1 DEF WinnerInv, SoleWinner, Counting
    <3>3. \A r \in Subscriptions, b \in Actors : Counting(r, b)' => settled'[r]
      BY <2>1, <2>2 DEF WinnerInv, Counting
    <3>4. QED
      BY <1>1, <3>2, <3>3 DEF WinnerInv
  <2>5. QED
    BY <2>3, <2>4
<1>6. ASSUME NEW s \in Subscriptions, NEW a \in Actors, Handle(s, a)
      PROVE  WinnerInv'
  <2>1. Record(s, a) => WinnerInv'
    BY <1>3 DEF Record
  <2>2. Forward(s, a) => WinnerInv'
    BY <1>3 DEF Forward
  <2>3. QED
    BY <1>4, <1>5, <1>6, <2>1, <2>2 DEF Handle
<1>7. ASSUME NEW s \in Subscriptions, Terminate(s) \/ \E c \in Cancellers : Cancel(s, c)
      PROVE  WinnerInv'
  <2>1. PICK a \in Actors, sig \in {"onComplete", "onError", "cancel"} :
           Enter(s, a, sig)
    BY <1>7 DEF Terminate, Cancel, Actors
  <2>2. QED
    BY <1>3, <2>1 DEF Enter
<1>8. ASSUME NEW s \in Subscriptions, OnSubscribe(s) \/ OnSubscribeAgain(s)
      PROVE  WinnerInv'
  BY <1>2, <1>8 DEF OnSubscribe, OnSubscribeAgain
<1>9. CASE UNCHANGED vars
  BY <1>2, <1>9 DEF vars
<1>10. QED
  BY <1>6, <1>7, <1>8, <1>9 DEF Next

(* Of the threads that end a subscription at most one is counting it, in   *)
(* every reachable state and for any number of racing threads.             *)
THEOREM AlwaysSoleWinner == Spec => []SoleWinner
<1>1. Init => WinnerInv
  BY InitTypeOK DEF Init, WinnerInv, SoleWinner, Counting
<1>2. WinnerInv => SoleWinner
  BY DEF WinnerInv
<1>3. QED
  BY <1>1, <1>2, NextWinnerInv, PTL DEF Spec
-----------------------------------------------------------------------------
(* What the counters and the timer add up to.                              *)
CountingInv == CountedOnce /\ OneSampleEach

(* The threads at a place, and their number, with f in the place of pc.    *)
Standing(f, label) == {x \in Subscriptions \X Actors : f[x[1]][x[2]] = label}

Owed(f, label) == Cardinality(Standing(f, label))

(* g is f after thread a of subscription s has come to the place `to'.     *)
Moved(f, g, s, a, to) ==
  \A r \in Subscriptions, b \in Actors :
     g[r][b] = IF <<r, b>> = <<s, a>> THEN to ELSE f[r][b]

(* There are finitely many threads at a place.                             *)
LEMMA StandingFinite ==
  ASSUME NEW f, NEW label
  PROVE  IsFiniteSet(Standing(f, label)) /\ Owed(f, label) \in Nat
<1>1. IsFiniteSet(Actors)
  BY MetricsAssumption, FS_AddElement, FS_Union, FS_Singleton DEF Actors
<1>2. IsFiniteSet(Subscriptions \X Actors)
  BY <1>1, MetricsAssumption, FS_Product
<1>3. Standing(f, label) \in SUBSET (Subscriptions \X Actors)
  BY DEF Standing
<1>4. QED
  BY <1>2, <1>3, FS_Subset, FS_CardinalityType DEF Owed

(* A thread that moves on leaves one place and comes to another.           *)
LEMMA Moves ==
  ASSUME NEW f, NEW g, NEW s \in Subscriptions, NEW a \in Actors,
         NEW to \in Pcs, f[s][a] # to, Moved(f, g, s, a, to),
         NEW label \in Pcs
  PROVE  Owed(g, label) = IF label = to THEN Owed(f, label) + 1
                          ELSE IF label = f[s][a] THEN Owed(f, label) - 1
                          ELSE Owed(f, label)
<1>1. CASE label = to
  <2>1. /\ Standing(g, to) = Standing(f, to) \cup {<<s, a>>}
        /\ <<s, a>> \notin Standing(f, to)
    BY DEF Standing, Moved
  <2>2. Cardinality(Standing(f, to) \cup {<<s, a>>})
          = Cardinality(Standing(f, to)) + 1
    BY <2>1, StandingFinite, FS_AddElement
  <2>3. QED
    BY <1>1, <2>1, <2>2 DEF Owed
<1>2. CASE label # to /\ label = f[s][a]
  <2>1. /\ Standing(g, label) = Standing(f, label) \ {<<s, a>>}
        /\ <<s, a>> \in Standing(f, label)
    BY <1>2 DEF Standing, Moved
  <2>2. Cardinality(Standing(f, label) \ {<<s, a>>})
          = Cardinality(Standing(f, label)) - 1
    BY <2>1, StandingFinite, FS_RemoveElement
  <2>3. QED
    BY <1>2, <2>1, <2>2 DEF Owed
<1>3. CASE label # to /\ label # f[s][a]
  <2>1. Standing(g, label) = Standing(f, label)
    BY <1>3 DEF Standing, Moved
  <2>2. QED
    BY <1>3, <2>1 DEF Owed
<1>4. QED
  BY <1>1, <1>2, <1>3

(* The numbers of threads that owe the meters a count or a sample.         *)
Counts  == Owed(pc, "increment")
Samples == Owed(pc, "record")

(* What is owed to the meters is a number.                                 *)
LEMMA OwedType == Counts \in Nat /\ Samples \in Nat
BY StandingFinite DEF Counts, Samples

(* The two properties in terms of what is owed,                            *)
LEMMA CountsMeaning ==
  CountedOnce <=> Counted + Counts = Cardinality({s \in Subscriptions : settled[s]})
BY DEF CountedOnce, Counts, Owed, Standing, At

LEMMA SamplesMeaning == OneSampleEach <=> recorded + Samples = Counted
BY DEF OneSampleEach, Samples, Owed, Standing, At

(* and in the next state.                                                  *)
LEMMA CountsMeaningAfter ==
  CountedOnce' <=> Counted' + Counts'
                     = Cardinality({s \in Subscriptions : settled'[s]})
BY DEF CountedOnce, Counts, Owed, Standing, At

LEMMA SamplesMeaningAfter == OneSampleEach' <=> recorded' + Samples' = Counted'
BY DEF OneSampleEach, Samples, Owed, Standing, At

(* What a step of one thread does to the two numbers.                      *)
LEMMA StepMoves ==
  ASSUME TypeOK, NEW s \in Subscriptions, NEW a \in Actors,
         NEW to \in Pcs, pc[s][a] # to, pc' = [pc EXCEPT ![s][a] = to]
  PROVE  /\ Counts' = IF to = "increment" THEN Counts + 1
                      ELSE IF pc[s][a] = "increment" THEN Counts - 1
                      ELSE Counts
         /\ Samples' = IF to = "record" THEN Samples + 1
                       ELSE IF pc[s][a] = "record" THEN Samples - 1
                       ELSE Samples
<1>1. Moved(pc, pc', s, a, to)
  BY DEF TypeOK, Moved
<1>2. "increment" \in Pcs /\ "record" \in Pcs
  BY DEF Pcs
<1>3. QED
  BY <1>1, <1>2, Moves DEF Counts, Samples

(* Settling a subscription that is not settled adds one to their number.   *)
LEMMA Settles ==
  ASSUME TypeOK, NEW s \in Subscriptions,
         settled' = [settled EXCEPT ![s] = TRUE]
  PROVE  Cardinality({r \in Subscriptions : settled'[r]})
           = Cardinality({r \in Subscriptions : settled[r]})
               + (IF settled[s] THEN 0 ELSE 1)
<1> DEFINE Before == {r \in Subscriptions : settled[r]}
           After  == {r \in Subscriptions : settled'[r]}
<1>1. IsFiniteSet(Before) /\ Cardinality(Before) \in Nat
  BY MetricsAssumption, FS_Subset, FS_CardinalityType
<1>2. \A r \in Subscriptions : settled'[r] <=> (settled[r] \/ r = s)
  BY DEF TypeOK
<1>3. After = Before \cup {s}
  BY <1>2
<1>4. s \in Before <=> settled[s]
  OBVIOUS
<1> HIDE DEF Before, After
<1>5. Cardinality(Before \cup {s})
        = IF s \in Before THEN Cardinality(Before) ELSE Cardinality(Before) + 1
  BY <1>1, FS_AddElement
<1>6. Cardinality(After) = Cardinality(Before) + (IF settled[s] THEN 0 ELSE 1)
  BY <1>1, <1>3, <1>4, <1>5
<1>7. QED
  BY <1>6 DEF Before, After

(* The counters are numbers and so is their sum.                           *)
LEMMA CountedType ==
  ASSUME TypeOK
  PROVE  /\ Counted \in Nat /\ recorded \in Nat
         /\ \A o \in Outcomes : tally[o] \in Nat
BY DEF TypeOK, Counted, Outcomes

(* A step that leaves the meters and what is owed to them alone.           *)
LEMMA NothingOwed ==
  ASSUME TypeOK, CountingInv,
         UNCHANGED <<settled, tally, recorded>>,
         Counts' = Counts, Samples' = Samples
  PROVE  CountingInv'
<1>1. Counted' = Counted
  BY DEF Counted
<1>2. CountedOnce'
  BY <1>1, CountsMeaning, CountsMeaningAfter DEF CountingInv
<1>3. OneSampleEach'
  BY <1>1, SamplesMeaning, SamplesMeaningAfter DEF CountingInv
<1>4. QED
  BY <1>2, <1>3 DEF CountingInv

(* Entering a handler.                                                     *)
LEMMA EnterCounts ==
  ASSUME TypeOK, CountingInv, NEW s \in Subscriptions, NEW a \in Actors,
         NEW sig, pc[s][a] = "idle", Enter(s, a, sig)
  PROVE  CountingInv'
<1>1. pc' = [pc EXCEPT ![s][a] = "compareAndSet"]
  BY DEF Enter
<1>2. "compareAndSet" \in Pcs
  BY DEF Pcs
<1>3. Counts' = Counts /\ Samples' = Samples
  BY <1>1, <1>2, StepMoves
<1>4. QED
  BY <1>3, NothingOwed DEF Enter

(* The winner of the race takes on one count; a loser takes on nothing.    *)
LEMMA CompareAndSetCounts ==
  ASSUME TypeOK, CountingInv, NEW s \in Subscriptions, NEW a \in Actors,
         CompareAndSet(s, a)
  PROVE  CountingInv'
<1>1. Cardinality({r \in Subscriptions : settled'[r]})
        = Cardinality({r \in Subscriptions : settled[r]})
            + (IF settled[s] THEN 0 ELSE 1)
  BY Settles DEF CompareAndSet
<1>2. pc[s][a] = "compareAndSet"
  BY DEF CompareAndSet
<1>3. /\ Counts' = Counts + (IF settled[s] THEN 0 ELSE 1)
      /\ Samples' = Samples
  <2>1. CASE settled[s]
    <3>1. "forward" \in Pcs /\ pc' = [pc EXCEPT ![s][a] = "forward"]
      BY <2>1 DEF CompareAndSet, AfterLosing, Pcs
    <3>2. Counts' = Counts /\ Samples' = Samples
      BY <1>2, <3>1, StepMoves
    <3>3. QED
      BY <2>1, <3>2, OwedType
  <2>2. CASE ~settled[s]
    <3>1. "increment" \in Pcs /\ pc' = [pc EXCEPT ![s][a] = "increment"]
      BY <2>2 DEF CompareAndSet, AfterLosing, Pcs
    <3>2. Counts' = Counts + 1 /\ Samples' = Samples
      BY <1>2, <3>1, StepMoves
    <3>3. QED
      BY <2>2, <3>2, OwedType
  <2>3. QED
    BY <2>1, <2>2
<1>4. /\ Counted' = Counted /\ Counted \in Nat
      /\ recorded' = recorded
  BY CountedType DEF CompareAndSet, Counted
<1>5. CountedOnce'
  BY <1>1, <1>3, <1>4, OwedType, CountsMeaning, CountsMeaningAfter DEF CountingInv
<1>6. OneSampleEach'
  BY <1>3, <1>4, SamplesMeaning, SamplesMeaningAfter DEF CountingInv
<1>7. QED
  BY <1>5, <1>6 DEF CountingInv

(* The counter takes the count over, and a sample is owed for it.          *)
LEMMA IncrementCounts ==
  ASSUME TypeOK, CountingInv, NEW s \in Subscriptions, NEW a \in Actors,
         Increment(s, a)
  PROVE  CountingInv'
<1>1. /\ pc[s][a] = "increment" /\ "record" \in Pcs
      /\ pc' = [pc EXCEPT ![s][a] = "record"]
  BY DEF Increment, Pcs
<1>2. Counts' = Counts - 1 /\ Samples' = Samples + 1
  BY <1>1, StepMoves
<1>3. Counter(s, a) \in Outcomes
  BY HandlerSignal DEF Increment, Counter, OutcomeOf, Outcomes
<1>4. Counted' = Counted + 1
  <2> DEFINE o == Counter(s, a)
  <2>1. tally' = [tally EXCEPT ![o] = @ + 1]
    BY DEF Increment
  <2> HIDE DEF o
  <2>2. \A p \in Outcomes : tally'[p] = IF p = o THEN tally[p] + 1 ELSE tally[p]
    BY <2>1 DEF TypeOK
  <2>3. o \in Outcomes
    BY <1>3 DEF o
  <2>4. QED
    BY <2>2, <2>3, CountedType DEF Counted, Outcomes
<1>5. UNCHANGED <<settled, recorded>>
  BY DEF Increment
<1>6. CountedOnce'
  BY <1>2, <1>4, <1>5, OwedType, CountedType, CountsMeaning, CountsMeaningAfter
     DEF CountingInv
<1>7. OneSampleEach'
  BY <1>2, <1>4, <1>5, OwedType, CountedType, SamplesMeaning, SamplesMeaningAfter
     DEF CountingInv
<1>8. QED
  BY <1>6, <1>7 DEF CountingInv

(* The timer takes its sample.                                             *)
LEMMA RecordCounts ==
  ASSUME TypeOK, CountingInv, NEW s \in Subscriptions, NEW a \in Actors,
         Record(s, a)
  PROVE  CountingInv'
<1>1. /\ pc[s][a] = "record" /\ "forward" \in Pcs
      /\ pc' = [pc EXCEPT ![s][a] = "forward"]
  BY DEF Record, Pcs
<1>2. Counts' = Counts /\ Samples' = Samples - 1
  BY <1>1, StepMoves
<1>3. Counted' = Counted /\ recorded' = recorded + 1 /\ settled' = settled
  BY DEF Record, Counted
<1>4. CountedOnce'
  BY <1>2, <1>3, CountsMeaning, CountsMeaningAfter DEF CountingInv
<1>5. OneSampleEach'
  BY <1>2, <1>3, OwedType, CountedType, SamplesMeaning, SamplesMeaningAfter
     DEF CountingInv
<1>6. QED
  BY <1>4, <1>5 DEF CountingInv

(* Every step keeps the sums.                                              *)
LEMMA NextCountingInv == TypeOK /\ CountingInv /\ [Next]_vars => CountingInv'
<1> SUFFICES ASSUME TypeOK, CountingInv, [Next]_vars PROVE CountingInv'
  OBVIOUS
<1>1. ASSUME UNCHANGED <<settled, tally, recorded, pc>>
      PROVE  CountingInv'
  <2>1. Counts' = Counts /\ Samples' = Samples
    BY <1>1 DEF Counts, Samples
  <2>2. QED
    BY <1>1, <2>1, NothingOwed
<1>2. ASSUME NEW s \in Subscriptions, OnSubscribe(s) \/ OnSubscribeAgain(s)
      PROVE  CountingInv'
  BY <1>1, <1>2 DEF OnSubscribe, OnSubscribeAgain
<1>3. ASSUME NEW s \in Subscriptions, Terminate(s) \/ \E c \in Cancellers : Cancel(s, c)
      PROVE  CountingInv'
  <2>1. PICK a \in Actors, sig \in {"onComplete", "onError", "cancel"} :
           signal[s][a] = "none" /\ Enter(s, a, sig)
    BY <1>3 DEF Terminate, SourceActive, Cancel, Actors
  <2>2. pc[s][a] = "idle"
    BY <2>1, HandlerSignal
  <2>3. QED
    BY <2>1, <2>2, EnterCounts
<1>4. ASSUME NEW s \in Subscriptions, NEW a \in Actors, Handle(s, a)
      PROVE  CountingInv'
  <2>1. CASE Forward(s, a)
    <3>1. /\ pc[s][a] = "forward" /\ "idle" \in Pcs
          /\ pc' = [pc EXCEPT ![s][a] = "idle"]
      BY <2>1 DEF Forward, Pcs
    <3>2. Counts' = Counts /\ Samples' = Samples
      BY <3>1, StepMoves
    <3>3. QED
      BY <2>1, <3>2, NothingOwed DEF Forward
  <2>2. QED
    BY <1>4, <2>1, CompareAndSetCounts, IncrementCounts, RecordCounts DEF Handle
<1>5. CASE UNCHANGED vars
  BY <1>1, <1>5 DEF vars
<1>6. QED
  BY <1>2, <1>3, <1>4, <1>5 DEF Next

(* Nothing is counted or recorded at first.                                *)
LEMMA InitCountingInv == Init => CountingInv
<1> SUFFICES ASSUME Init PROVE CountingInv
  OBVIOUS
<1>1. At("increment") = {} /\ At("record") = {}
  BY DEF Init, At
<1>2. {s \in Subscriptions : settled[s]} = {}
  BY DEF Init
<1>3. Counted = 0 /\ recorded = 0
  BY DEF Init, Counted, Outcomes
<1>4. QED
  BY <1>1, <1>2, <1>3, FS_EmptySet DEF CountingInv, CountedOnce, OneSampleEach

(* All reachable states add up.                                            *)
LEMMA AlwaysCountingInv == Spec => []CountingInv
<1>1. Init => TypeOK /\ CountingInv
  BY InitTypeOK, InitCountingInv
<1>2. (TypeOK /\ CountingInv) /\ [Next]_vars => (TypeOK /\ CountingInv)'
  BY NextTypeOK, NextCountingInv
<1>3. QED
  BY <1>1, <1>2, PTL DEF Spec

(* However completions, errors and cancellations race, each settled        *)
(* subscription is counted once, by one of the three counters.             *)
THEOREM AlwaysCountedOnce == Spec => []CountedOnce
<1>1. CountingInv => CountedOnce
  BY DEF CountingInv
<1>2. QED
  BY <1>1, AlwaysCountingInv, PTL

(* The timer has one sample for each counted subscription, up to those     *)
(* whose thread is between the two updates.                                *)
THEOREM AlwaysOneSampleEach == Spec => []OneSampleEach
<1>1. CountingInv => OneSampleEach
  BY DEF CountingInv
<1>2. QED
  BY <1>1, AlwaysCountingInv, PTL
-----------------------------------------------------------------------------
(* What a thread enters a handler with.                                    *)
Signals == {"onComplete", "onError", "cancel"}

(* The history is that of the handlers: a subscription has a winner once   *)
(* it is settled, and only one; the winner has its signal and is past its  *)
(* compareAndSet, and whoever counts is the winner.                        *)
WonBy ==
  \A s \in Subscriptions :
    /\ winners[s] # {} <=> settled[s]
    /\ \A a, b \in winners[s] : a = b
    /\ \A a \in winners[s] : /\ signal[s][a] \in Signals
                             /\ pc[s][a] # "compareAndSet"
    /\ \A a \in Actors : Counting(s, a) => a \in winners[s]

EndedInv == TypeOK /\ WonBy /\ CountedAsItEnded

(* The subscriptions that have landed are finitely many.                   *)
LEMMA LandedFinite ==
  ASSUME NEW sig
  PROVE  IsFiniteSet(Landed(sig)) /\ Cardinality(Landed(sig)) \in Nat
<1>1. Landed(sig) \in SUBSET Subscriptions
  BY DEF Landed
<1>2. QED
  BY <1>1, MetricsAssumption, FS_Subset, FS_CardinalityType

(* Each signal has a counter of its own.                                   *)
LEMMA OwnCounter ==
  /\ \A sig \in Signals : OutcomeOf[sig] \in Outcomes
  /\ \A sig, other \in Signals :
        OutcomeOf[sig] = OutcomeOf[other] => sig = other
BY DEF Signals, OutcomeOf, Outcomes

(* A step that moves no counter and lands no subscription.                 *)
LEMMA NothingLands ==
  ASSUME CountedAsItEnded, UNCHANGED tally,
         \A sig \in Signals : Landed(sig)' = Landed(sig)
  PROVE  CountedAsItEnded'
BY DEF CountedAsItEnded, Signals

(* Entering a handler: who enters has not won.                             *)
LEMMA EnterEnds ==
  ASSUME EndedInv, TypeOK', NEW s \in Subscriptions, NEW a \in Actors,
         NEW sig \in Signals, signal[s][a] = "none", Enter(s, a, sig)
  PROVE  EndedInv'
<1>1. /\ UNCHANGED <<settled, tally, winners>>
      /\ \A r \in Subscriptions, b \in Actors :
            IF <<r, b>> = <<s, a>>
              THEN signal'[r][b] = sig /\ pc'[r][b] = "compareAndSet"
              ELSE signal'[r][b] = signal[r][b] /\ pc'[r][b] = pc[r][b]
  BY DEF Enter, EndedInv, TypeOK
<1>2. a \notin winners[s]
  BY DEF EndedInv, WonBy, Signals
<1>3. \A r \in Subscriptions : winners[r] \subseteq Actors
  BY DEF EndedInv, TypeOK
<1>4. \A r \in Subscriptions : \A b \in winners[r] :
         signal'[r][b] = signal[r][b] /\ pc'[r][b] = pc[r][b]
  BY <1>1, <1>2, <1>3
<1>5. WonBy'
  <2> SUFFICES ASSUME NEW r \in Subscriptions
               PROVE  /\ winners[r] # {} <=> settled[r]
                      /\ \A b, c \in winners[r] : b = c
                      /\ \A b \in winners[r] : /\ signal'[r][b] \in Signals
                                               /\ pc'[r][b] # "compareAndSet"
                      /\ \A b \in Actors : Counting(r, b)' => b \in winners[r]
    BY <1>1 DEF WonBy
  <2>1. \A b \in Actors : Counting(r, b)' => Counting(r, b)
    BY <1>1 DEF Counting
  <2>2. QED
    BY <1>4, <2>1 DEF EndedInv, WonBy
<1>6. \A kind \in Signals : Landed(kind)' = Landed(kind)
  BY <1>1, <1>4 DEF Landed
<1>7. QED
  BY <1>1, <1>5, <1>6, NothingLands DEF EndedInv

(* compareAndSet: a winner's count is on its way, so its subscription does *)
(* not land by it.                                                         *)
LEMMA CompareAndSetEnds ==
  ASSUME EndedInv, TypeOK', NEW s \in Subscriptions, NEW a \in Actors,
         CompareAndSet(s, a)
  PROVE  EndedInv'
<1>1. /\ pc[s][a] = "compareAndSet" /\ UNCHANGED <<tally, signal>>
      /\ \A r \in Subscriptions : settled'[r] <=> (settled[r] \/ r = s)
      /\ \A r \in Subscriptions : r # s => winners'[r] = winners[r]
      /\ winners'[s] = IF settled[s] THEN winners[s] ELSE winners[s] \cup {a}
  <2>1. \A r \in Subscriptions : settled'[r] <=> (settled[r] \/ r = s)
    BY DEF CompareAndSet, EndedInv, TypeOK
  <2>2. /\ \A r \in Subscriptions : r # s => winners'[r] = winners[r]
        /\ winners'[s] = IF settled[s] THEN winners[s] ELSE winners[s] \cup {a}
    <3>1. winners' = [winners EXCEPT
                        ![s] = IF settled[s] THEN winners[s]
                                             ELSE winners[s] \cup {a}]
      BY DEF CompareAndSet
    <3>2. DOMAIN winners = Subscriptions
      BY DEF EndedInv, TypeOK
    <3>3. QED
      BY <3>1, <3>2
  <2>3. QED
    BY <2>1, <2>2 DEF CompareAndSet
<1>2. \A r \in Subscriptions, b \in Actors :
         IF <<r, b>> = <<s, a>>
           THEN pc'[r][b] = IF settled[s] THEN "forward" ELSE "increment"
           ELSE pc'[r][b] = pc[r][b]
  BY DEF CompareAndSet, AfterLosing, EndedInv, TypeOK
<1>3. /\ a \notin winners[s]
      /\ \A r \in Subscriptions : winners[r] \subseteq Actors
      /\ signal[s][a] \in Signals
  BY <1>1, HandlerSignal DEF EndedInv, WonBy, TypeOK, Signals
<1>4. \A r \in Subscriptions : \A b \in winners[r] : pc'[r][b] = pc[r][b]
  BY <1>2, <1>3
<1>5. CASE settled[s]
  <2>1. \A r \in Subscriptions :
           winners'[r] = winners[r] /\ (settled'[r] <=> settled[r])
    BY <1>1, <1>5
  <2>2. \A r \in Subscriptions, b \in Actors :
           Counting(r, b)' => Counting(r, b)
    BY <1>2, <1>5 DEF Counting
  <2>3. WonBy'
    BY <1>1, <1>4, <2>1, <2>2 DEF EndedInv, WonBy
  <2>4. \A kind \in Signals : Landed(kind)' = Landed(kind)
    BY <1>1, <1>4, <2>1 DEF Landed
  <2>5. QED
    BY <1>1, <2>3, <2>4, NothingLands DEF EndedInv
<1>6. CASE ~settled[s]
  <2>1. winners[s] = {} /\ winners'[s] = {a} /\ settled'[s]
    BY <1>1, <1>6 DEF EndedInv, WonBy
  <2>2. /\ pc'[s][a] = "increment"
        /\ \A b \in Actors : b # a => pc'[s][b] = pc[s][b]
    BY <1>2, <1>6
  <2>3. \A r \in Subscriptions :
           r # s => /\ winners'[r] = winners[r] /\ (settled'[r] <=> settled[r])
                    /\ \A b \in Actors : pc'[r][b] = pc[r][b]
    BY <1>1, <1>2
  <2>4. \A b \in Actors : ~Counting(s, b)
    BY <2>1 DEF EndedInv, WonBy
  <2>5. WonBy'
    <3> SUFFICES ASSUME NEW r \in Subscriptions
                 PROVE  /\ winners'[r] # {} <=> settled'[r]
                        /\ \A b, c \in winners'[r] : b = c
                        /\ \A b \in winners'[r] : /\ signal[r][b] \in Signals
                                                  /\ pc'[r][b] # "compareAndSet"
                        /\ \A b \in Actors : Counting(r, b)' => b \in winners'[r]
      BY <1>1 DEF WonBy
    <3>1. CASE r = s
      BY <1>3, <2>1, <2>2, <2>4, <3>1 DEF Counting
    <3>2. CASE r # s
      <4>1. \A b \in Actors : Counting(r, b)' <=> Counting(r, b)
        BY <2>3, <3>2 DEF Counting
      <4>2. \A b \in winners[r] : pc'[r][b] = pc[r][b]
        BY <1>4
      <4>3. QED
        BY <2>3, <3>2, <4>1, <4>2 DEF EndedInv, WonBy
    <3>3. QED
      BY <3>1, <3>2
  <2>6. \A kind \in Signals : Landed(kind)' = Landed(kind)
    <3>1. \A kind \in Signals, r \in Subscriptions :
             r \in Landed(kind)' <=> r \in Landed(kind)
      <4> SUFFICES ASSUME NEW kind \in Signals, NEW r \in Subscriptions
                   PROVE  r \in Landed(kind)' <=> r \in Landed(kind)
        OBVIOUS
      <4>1. CASE r = s
        BY <2>1, <2>2, <4>1 DEF Landed
      <4>2. CASE r # s
        BY <1>1, <1>4, <2>3, <4>2 DEF Landed
      <4>3. QED
        BY <4>1, <4>2
    <3>2. \A kind : Landed(kind) \subseteq Subscriptions
      BY DEF Landed
    <3>3. \A kind : Landed(kind)' \subseteq Subscriptions
      BY DEF Landed
    <3>4. QED
      BY <3>1, <3>2, <3>3
  <2>7. QED
    BY <1>1, <2>5, <2>6, NothingLands DEF EndedInv
<1>7. QED
  BY <1>5, <1>6

(* increment: the subscription lands on the counter of its winner's signal *)
(* and on no other.                                                        *)
LEMMA IncrementEnds ==
  ASSUME EndedInv, TypeOK', NEW s \in Subscriptions, NEW a \in Actors,
         Increment(s, a)
  PROVE  EndedInv'
<1> DEFINE sig == signal[s][a]
<1>1. pc[s][a] = "increment" /\ UNCHANGED <<settled, signal, winners>>
  BY DEF Increment
<1>2. \A r \in Subscriptions, b \in Actors :
         pc'[r][b] = IF <<r, b>> = <<s, a>> THEN "record" ELSE pc[r][b]
  BY DEF Increment, EndedInv, TypeOK
<1>3. winners[s] = {a} /\ sig \in Signals
  <2>1. a \in winners[s]
    BY <1>1 DEF EndedInv, WonBy, Counting
  <2>2. QED
    BY <2>1 DEF EndedInv, WonBy
<1>4. \A r \in Subscriptions : winners[r] \subseteq Actors
  BY DEF EndedInv, TypeOK
<1>5. WonBy'
  <2>1. \A r \in Subscriptions, b \in Actors : Counting(r, b)' => Counting(r, b)
    BY <1>1, <1>2 DEF Counting
  <2>2. \A r \in Subscriptions : \A b \in winners[r] :
           pc[r][b] # "compareAndSet" => pc'[r][b] # "compareAndSet"
    BY <1>2, <1>4
  <2>3. QED
    BY <1>1, <2>1, <2>2 DEF EndedInv, WonBy
<1>6. \A kind \in Signals :
         Landed(kind)' = IF kind = sig THEN Landed(kind) \cup {s} ELSE Landed(kind)
  <2> SUFFICES ASSUME NEW kind \in Signals
               PROVE  Landed(kind)' = IF kind = sig THEN Landed(kind) \cup {s}
                                                    ELSE Landed(kind)
    OBVIOUS
  <2>1. ASSUME NEW r \in Subscriptions, r # s
        PROVE  r \in Landed(kind)' <=> r \in Landed(kind)
    <3>1. \A b \in winners[r] : pc'[r][b] = pc[r][b]
      BY <1>2, <1>4, <2>1
    <3>2. QED
      BY <1>1, <3>1 DEF Landed
  <2>2. s \in Landed(kind)' <=> kind = sig
    BY <1>1, <1>2, <1>3 DEF Landed
  <2>3. s \notin Landed(kind)
    BY <1>1, <1>3 DEF Landed
  <2>4. Landed(kind) \subseteq Subscriptions /\ Landed(kind)' \subseteq Subscriptions
    BY DEF Landed
  <2>5. QED
    BY <2>1, <2>2, <2>3, <2>4
<1>7. s \notin Landed(sig)
  BY <1>1, <1>3 DEF Landed
<1>8. \A kind \in Signals :
         tally'[OutcomeOf[kind]] = tally[OutcomeOf[kind]]
                                     + (IF kind = sig THEN 1 ELSE 0)
  <2> DEFINE o == Counter(s, a)
  <2>1. o = OutcomeOf[sig] /\ o \in Outcomes
    BY <1>3, OwnCounter DEF Counter
  <2>2. tally' = [tally EXCEPT ![o] = @ + 1]
    BY DEF Increment
  <2> HIDE DEF o, sig
  <2>3. \A p \in Outcomes : tally'[p] = IF p = o THEN tally[p] + 1 ELSE tally[p]
    BY <2>2 DEF EndedInv, TypeOK
  <2>4. \A p \in Outcomes : tally[p] \in Nat
    BY DEF EndedInv, TypeOK
  <2>5. QED
    BY <1>3, <2>1, <2>3, <2>4, OwnCounter
<1> HIDE DEF sig
<1>9. CountedAsItEnded'
  <2> SUFFICES ASSUME NEW kind \in Signals
               PROVE  tally'[OutcomeOf[kind]] = Cardinality(Landed(kind)')
    BY DEF CountedAsItEnded, Signals
  <2>1. tally[OutcomeOf[kind]] = Cardinality(Landed(kind))
    BY DEF EndedInv, CountedAsItEnded, Signals
  <2>2. CASE kind = sig
    <3>1. Cardinality(Landed(kind) \cup {s}) = Cardinality(Landed(kind)) + 1
      BY <1>7, <2>2, LandedFinite, FS_AddElement
    <3>2. QED
      BY <1>6, <1>8, <2>1, <2>2, <3>1
  <2>3. CASE kind # sig
    BY <1>6, <1>8, <2>1, <2>3, LandedFinite
  <2>4. QED
    BY <2>2, <2>3
<1>10. QED
  BY <1>5, <1>9 DEF EndedInv

(* A step that leaves signals, counters and what is settled alone and      *)
(* takes no thread to or from "increment", and none to "record" or         *)
(* "compareAndSet".                                                        *)
LEMMA QuietEnds ==
  ASSUME EndedInv, TypeOK', UNCHANGED <<settled, signal, tally, winners>>,
         \A s \in Subscriptions, a \in Actors :
            /\ pc'[s][a] = "increment" <=> pc[s][a] = "increment"
            /\ pc'[s][a] \in {"record", "compareAndSet"} => pc'[s][a] = pc[s][a]
  PROVE  EndedInv'
<1>1. \A r \in Subscriptions : winners[r] \subseteq Actors
  BY DEF EndedInv, TypeOK
<1>2. \A kind \in Signals : Landed(kind)' = Landed(kind)
  BY <1>1 DEF Landed
<1>3. \A s \in Subscriptions, a \in Actors : Counting(s, a)' => Counting(s, a)
  BY DEF Counting
<1>4. \A s \in Subscriptions : \A a \in winners[s] :
         pc[s][a] # "compareAndSet" => pc'[s][a] # "compareAndSet"
  BY <1>1
<1>5. WonBy'
  BY <1>3, <1>4 DEF EndedInv, WonBy
<1>6. QED
  BY <1>2, <1>5, NothingLands DEF EndedInv

(* Every step keeps the invariant.                                         *)
LEMMA NextEndedInv == EndedInv /\ [Next]_vars => EndedInv'
<1> SUFFICES ASSUME EndedInv, [Next]_vars PROVE EndedInv'
  OBVIOUS
<1>1. TypeOK /\ TypeOK'
  BY NextTypeOK DEF EndedInv
<1>2. ASSUME UNCHANGED <<settled, signal, tally, winners, pc>> PROVE EndedInv'
  BY <1>1, <1>2, QuietEnds
<1>3. ASSUME NEW s \in Subscriptions, OnSubscribe(s) \/ OnSubscribeAgain(s)
      PROVE  EndedInv'
  BY <1>2, <1>3 DEF OnSubscribe, OnSubscribeAgain
<1>4. ASSUME NEW s \in Subscriptions, Terminate(s) \/ \E c \in Cancellers : Cancel(s, c)
      PROVE  EndedInv'
  <2>1. PICK a \in Actors, sig \in Signals :
           signal[s][a] = "none" /\ Enter(s, a, sig)
    BY <1>4 DEF Terminate, SourceActive, Cancel, Actors, Signals
  <2>2. QED
    BY <1>1, <2>1, EnterEnds
<1>5. ASSUME NEW s \in Subscriptions, NEW a \in Actors, Handle(s, a)
      PROVE  EndedInv'
  <2>1. CASE Record(s, a) \/ Forward(s, a)
    <3>1. /\ UNCHANGED <<settled, signal, tally, winners>>
          /\ pc[s][a] \in {"record", "forward"}
          /\ \E label \in {"forward", "idle"} :
                pc' = [pc EXCEPT ![s][a] = label]
      BY <2>1 DEF Record, Forward
    <3>2. \A r \in Subscriptions, b \in Actors :
             /\ pc'[r][b] = "increment" <=> pc[r][b] = "increment"
             /\ pc'[r][b] \in {"record", "compareAndSet"} => pc'[r][b] = pc[r][b]
      BY <1>1, <3>1 DEF TypeOK
    <3>3. QED
      BY <1>1, <3>1, <3>2, QuietEnds
  <2>2. QED
    BY <1>1, <1>5, <2>1, CompareAndSetEnds, IncrementEnds DEF Handle
<1>6. CASE UNCHANGED vars
  BY <1>2, <1>6 DEF vars
<1>7. QED
  BY <1>3, <1>4, <1>5, <1>6 DEF Next

(* Nothing has won or been counted at first.                               *)
LEMMA InitEndedInv == Init => EndedInv
<1> SUFFICES ASSUME Init PROVE EndedInv
  OBVIOUS
<1>1. \A sig \in Signals : Landed(sig) = {} /\ tally[OutcomeOf[sig]] = 0
  BY OwnCounter DEF Init, Landed
<1>2. CountedAsItEnded
  BY <1>1, FS_EmptySet DEF CountedAsItEnded, Signals
<1>3. WonBy
  BY DEF Init, WonBy, Counting
<1>4. QED
  BY <1>2, <1>3, InitTypeOK DEF EndedInv

(* Each counter is the number of subscriptions that a signal of its kind   *)
(* has ended, but for those whose winner is about to count, whichever      *)
(* threads raced for them.                                                 *)
THEOREM AlwaysCountedAsItEnded == Spec => []CountedAsItEnded
<1>1. EndedInv => CountedAsItEnded
  BY DEF EndedInv
<1>2. QED
  BY <1>1, InitEndedInv, NextEndedInv, PTL DEF Spec
=============================================================================
