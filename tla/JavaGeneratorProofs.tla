------------------------ MODULE JavaGeneratorProofs -------------------------
(***************************************************************************)
(* Proofs about JavaGenerator, for any set of services.  The three files   *)
(* are what one function of a method's descriptor prints, loop by loop:    *)
(* whatever an earlier loop left in the map of template variables, no      *)
(* printer reads a variable it has not set itself.                         *)
(***************************************************************************)
EXTENDS JavaGenerator, TLAPS

(* The number of loops; all of them but the tenth, which fills the         *)
(* vectors, print.                                                         *)
N == 14

(* The declaration that the loop prints for a method, from its descriptor  *)
(* alone.                                                                  *)
IdText(m)         == [name |-> m.method_id_name, value |-> m.method_id]
NameText(m)       == [name |-> m.lower_method_name]
FieldText(m, item) == [name |-> m.lower_method_name, item |-> FieldItem(m, item)]
MethodText(m)     == [signature |-> Signature(m, m),
                      body |-> Body(m, m.output_type),
                      calls |-> Called(m),
                      label |-> m.method_id_name]

Text(k, m) == CASE k = 1 -> IdText(m)
                [] k = 2 -> Signature(m, m)
                [] k = 3 -> FieldText(m, m.output_type)
                [] k = 6 -> MethodText(m)
                [] k = 7 -> FieldText(m, "Payload")
                [] k \in {4, 5, 8, 9} -> NameText(m)
                [] OTHER -> CaseText(Loops[k], m, m)

(* The first n of a loop's declarations.                                   *)
Lines(k, source, n) == [j \in 1 .. n |-> Text(k, source[j])]

(* The methods a loop runs over.                                           *)
SourceIn(methods, k, b) == IF k > 10 THEN b[Loops[k]] ELSE methods

(* The methods left, of those of source.                                   *)
Rest(source, left) ==
  /\ left \in Seq(Range(source)) /\ Len(left) <= Len(source)
  /\ \A j \in 1 .. Len(left) : left[j] = source[Len(source) - Len(left) + j]

(* The names of the loops, in their order.                                 *)
LEMMA LoopNames ==
  /\ Len(Loops) = N /\ DOMAIN Loops = 1 .. N
  /\ Loops[1] = "ids" /\ Loops[2] = "signatures" /\ Loops[3] = "clientFields"
  /\ Loops[4] = "clientIdentity" /\ Loops[5] = "clientTimed"
  /\ Loops[6] = "clientMethods" /\ Loops[7] = "serverFields"
  /\ Loops[8] = "serverIdentity" /\ Loops[9] = "serverTimed"
  /\ Loops[10] = "buckets" /\ Loops[11] = "fireAndForget"
  /\ Loops[12] = "requestResponse" /\ Loops[13] = "requestStream"
  /\ Loops[14] = "requestChannel"
BY DEF Loops, N

(* No name stands for two loops.                                           *)
LEMMA LoopsDiffer ==
  ASSUME NEW k \in 1 .. N, NEW j \in 1 .. N, Loops[k] = Loops[j]
  PROVE  k = j
BY LoopNames DEF N

(* The last four loops print the handlers.                                 *)
LEMMA InteractionLoops ==
  ASSUME NEW k \in 1 .. N
  PROVE  Loops[k] \in Interactions <=> k > 10
BY LoopNames DEF N, Interactions

(* One more line.                                                          *)
LEMMA OneMore ==
  ASSUME NEW f, NEW n \in Nat, NEW S, \A j \in 1 .. n + 1 : f[j] \in S
  PROVE  Append([j \in 1 .. n |-> f[j]], f[n + 1]) = [j \in 1 .. n + 1 |-> f[j]]
<1> DEFINE s == [j \in 1 .. n |-> f[j]]
           t == [j \in 1 .. n + 1 |-> f[j]]
<1>1. s \in Seq(S) /\ Len(s) = n
  OBVIOUS
<1>2. t \in Seq(S) /\ Len(t) = n + 1
  OBVIOUS
<1>3. /\ Append(s, f[n + 1]) \in Seq(S)
      /\ Len(Append(s, f[n + 1])) = n + 1
  BY <1>1
<1>4. \A j \in 1 .. n + 1 : Append(s, f[n + 1])[j] = t[j]
  BY <1>1
<1>5. QED
  BY <1>2, <1>3, <1>4

(* A turn takes the first of the methods that are left.                    *)
LEMMA RestTurns ==
  ASSUME NEW source, source \in Seq(Range(source)), NEW left,
         Rest(source, left), left # <<>>
  PROVE  LET n == Len(source) - Len(left)
         IN  /\ n \in Nat /\ n + 1 <= Len(source)
             /\ Head(left) = source[n + 1]
             /\ Rest(source, Tail(left))
             /\ Len(source) - Len(Tail(left)) = n + 1
<1>1. /\ left \in Seq(Range(source)) /\ Len(left) > 0
      /\ Len(source) \in Nat /\ Len(left) \in Nat
  BY DEF Rest
<1>2. /\ Tail(left) \in Seq(Range(source)) /\ Len(Tail(left)) = Len(left) - 1
      /\ Head(left) = left[1]
      /\ \A j \in 1 .. Len(left) - 1 : Tail(left)[j] = left[j + 1]
  BY <1>1
<1>3. QED
  BY <1>1, <1>2 DEF Rest

(* The first n methods are each in the vector of their interaction, and    *)
(* nothing else is in any.                                                 *)
Sorted(methods, b, n) ==
  /\ b \in [Interactions -> Seq(Range(methods))]
  /\ \A h \in Interactions : \A j \in 1 .. Len(b[h]) : BucketOf(b[h][j]) = h
  /\ \A j \in 1 .. n :
        LET own == b[BucketOf(methods[j])]
        IN  \E i \in 1 .. Len(own) : own[i] = methods[j]

(* How many of its methods a loop has printed.                             *)
Turns(k, a, source, left) ==
  IF k < a THEN Len(source) ELSE IF k = a THEN Len(source) - Len(left) ELSE 0

IsPrinted(p, methods, a, left, b) ==
  /\ DOMAIN p = Range(Loops)
  /\ \A k \in 1 .. N :
        k # 10 =>
          LET source == SourceIn(methods, k, b)
          IN  p[Loops[k]] = Lines(k, source, Turns(k, a, source, left))

(* The inductive invariant: what has been printed is Text of the methods   *)
(* that have been printed, and of nothing else.                            *)
PrintInv ==
  /\ service \in Services
  /\ at \in 1 .. N + 1
  /\ at <= N => Rest(SourceIn(service, at, buckets), todo)
  /\ Sorted(service, buckets, Turns(10, at, service, todo))
  /\ IsPrinted(printed, service, at, todo, buckets)

(* Every method has a vector.                                              *)
LEMMA BucketIsInteraction == \A m : BucketOf(m) \in Interactions
BY DEF BucketOf, Interactions

(* What Append does, in the form used below.                               *)
LEMMA AppendFacts ==
  ASSUME NEW S, NEW s \in Seq(S), NEW e \in S
  PROVE  /\ Append(s, e) \in Seq(S)
         /\ Len(Append(s, e)) = Len(s) + 1
         /\ Append(s, e)[Len(s) + 1] = e
         /\ \A j \in 1 .. Len(s) : Append(s, e)[j] = s[j]
OBVIOUS

(* The next method goes into the vector of its interaction.                *)
LEMMA SortedGrows ==
  ASSUME NEW methods, methods \in Seq(Range(methods)), NEW b,
         NEW n \in Nat, n + 1 <= Len(methods), Sorted(methods, b, n),
         NEW c, c = [b EXCEPT ![BucketOf(methods[n + 1])] = Append(@, methods[n + 1])]
  PROVE  Sorted(methods, c, n + 1)
<1> DEFINE m == methods[n + 1]
           h == BucketOf(m)
           S == Range(methods)
<1>1. m \in S /\ h \in Interactions
  BY BucketIsInteraction
<1>2. b \in [Interactions -> Seq(S)]
  BY DEF Sorted
<1>3. /\ c[h] = Append(b[h], m)
      /\ \A g \in Interactions : g # h => c[g] = b[g]
      /\ DOMAIN c = Interactions
      /\ c = [g \in Interactions |-> c[g]]
  BY <1>1, <1>2
<1> HIDE DEF h, m, S
<1>4. /\ c[h] \in Seq(S)
      /\ Len(c[h]) = Len(b[h]) + 1
      /\ c[h][Len(b[h]) + 1] = m
      /\ \A j \in 1 .. Len(b[h]) : c[h][j] = b[h][j]
      /\ Len(b[h]) \in Nat
  <2>1. b[h] \in Seq(S)
    BY <1>1, <1>2
  <2>2. Len(b[h]) \in Nat
    BY <2>1
  <2>3. QED
    BY <1>1, <1>3, <2>1, <2>2, AppendFacts
<1>5. c \in [Interactions -> Seq(S)]
  <2>1. \A g \in Interactions : c[g] \in Seq(S)
    BY <1>2, <1>3, <1>4
  <2>2. QED
    BY <1>3, <2>1
<1>6. ASSUME NEW g \in Interactions, NEW j \in 1 .. Len(c[g])
      PROVE  BucketOf(c[g][j]) = g
  <2>1. CASE g # h
    <3>1. c[g] = b[g]
      BY <1>3, <2>1
    <3>2. QED
      BY <3>1 DEF Sorted
  <2>2. CASE g = h /\ j = Len(b[h]) + 1
    BY <1>4, <2>2 DEF h
  <2>3. CASE g = h /\ j # Len(b[h]) + 1
    <3>1. j \in 1 .. Len(b[h]) /\ c[h][j] = b[h][j]
      BY <1>4, <2>3
    <3>2. BucketOf(b[h][j]) = h
      BY <1>1, <3>1 DEF Sorted
    <3>3. QED
      BY <2>3, <3>1, <3>2
  <2>4. QED
    BY <2>1, <2>2, <2>3
<1>7. ASSUME NEW j \in 1 .. n + 1
      PROVE  \E i \in 1 .. Len(c[BucketOf(methods[j])]) :
                c[BucketOf(methods[j])][i] = methods[j]
  <2> DEFINE g == BucketOf(methods[j])
  <2>1. g \in Interactions
    BY BucketIsInteraction
  <2>2. CASE j = n + 1
    <3>1. g = h /\ methods[j] = m
      BY <2>2 DEF h, m
    <3>2. Len(b[h]) + 1 \in 1 .. Len(c[h]) /\ c[h][Len(b[h]) + 1] = methods[j]
      BY <1>4, <3>1
    <3>3. QED
      BY <3>1, <3>2
  <2>3. CASE j # n + 1
    <3>1. j \in 1 .. n
      BY <2>3
    <3>2. PICK i \in 1 .. Len(b[g]) : b[g][i] = methods[j]
      BY <3>1 DEF Sorted
    <3> HIDE DEF g
    <3>3. i \in 1 .. Len(c[g]) /\ c[g][i] = b[g][i]
      <4>1. CASE g = h
        BY <1>4, <3>2, <4>1
      <4>2. CASE g # h
        <5>1. c[g] = b[g]
          BY <1>3, <2>1, <4>2
        <5>2. QED
          BY <5>1
      <4>3. QED
        BY <4>1, <4>2
    <3>4. QED
      BY <3>2, <3>3 DEF g
  <2>4. QED
    BY <2>2, <2>3
<1>8. QED
  BY <1>5, <1>6, <1>7 DEF Sorted, S

(* A loop runs over a sequence.                                            *)
LEMMA SourceIsSequence ==
  ASSUME PrintInv, NEW k \in 1 .. N
  PROVE  LET source == SourceIn(service, k, buckets)
         IN  source \in Seq(Range(source)) /\ Range(source) \subseteq Range(service)
<1>1. service \in Seq(Range(service))
  BY GeneratorAssumption DEF PrintInv
<1>2. CASE k > 10
  <2>1. Loops[k] \in Interactions
    BY <1>2, InteractionLoops
  <2>2. buckets[Loops[k]] \in Seq(Range(service))
    BY <2>1 DEF PrintInv, Sorted
  <2> DEFINE s == buckets[Loops[k]]
  <2>3. /\ Len(s) \in Nat /\ DOMAIN s = 1 .. Len(s)
        /\ \A j \in 1 .. Len(s) : s[j] \in Range(service)
        /\ s = [j \in 1 .. Len(s) |-> s[j]]
    BY <2>2
  <2>4. Range(s) \subseteq Range(service)
    BY <2>3 DEF Range
  <2>5. \A j \in 1 .. Len(s) : s[j] \in Range(s)
    BY <2>3 DEF Range
  <2>6. s \in Seq(Range(s))
    BY <2>3, <2>5
  <2>7. SourceIn(service, k, buckets) = s
    BY <1>2 DEF SourceIn
  <2>8. QED
    BY <2>4, <2>6, <2>7
<1>3. CASE ~(k > 10)
  BY <1>1, <1>3 DEF SourceIn
<1>4. QED
  BY <1>2, <1>3

(* One turn of a loop that has printed its line of a method's descriptor   *)
(* keeps the invariant.                                                    *)
LEMMA TurnPrints ==
  ASSUME PrintInv, NEW k \in 1 .. N, k # 10, at = k,
         todo # <<>>, todo' = Tail(todo),
         printed' = [printed EXCEPT ![Loops[k]] = Append(@, Text(k, Head(todo)))],
         UNCHANGED <<service, at, buckets>>
  PROVE  PrintInv'
<1> DEFINE source == SourceIn(service, k, buckets)
           n == Len(source) - Len(todo)
<1>1. source \in Seq(Range(source)) /\ Rest(source, todo)
  <2>1. source \in Seq(Range(source))
    BY SourceIsSequence
  <2>2. at <= N
    BY DEF N
  <2>3. QED
    BY <2>1, <2>2 DEF PrintInv
<1>2. /\ n \in Nat /\ n + 1 <= Len(source)
      /\ Head(todo) = source[n + 1]
      /\ Rest(source, Tail(todo))
      /\ Len(source) - Len(Tail(todo)) = n + 1
  BY <1>1, RestTurns
<1>3. Append(Lines(k, source, n), Text(k, source[n + 1])) = Lines(k, source, n + 1)
  <2> DEFINE f == [j \in 1 .. n + 1 |-> Text(k, source[j])]
             S == {f[j] : j \in 1 .. n + 1}
  <2>1. /\ Lines(k, source, n) = [j \in 1 .. n |-> f[j]]
        /\ Lines(k, source, n + 1) = [j \in 1 .. n + 1 |-> f[j]]
        /\ Text(k, source[n + 1]) = f[n + 1]
    BY <1>2 DEF Lines
  <2>2. \A j \in 1 .. n + 1 : f[j] \in S
    OBVIOUS
  <2> HIDE DEF f, S, n
  <2>3. Append([j \in 1 .. n |-> f[j]], f[n + 1]) = [j \in 1 .. n + 1 |-> f[j]]
    BY <1>2, <2>2, OneMore
  <2>4. QED
    BY <2>1, <2>3
<1>4. IsPrinted(printed, service, k, todo, buckets)
  BY DEF PrintInv
<1>5. printed[Loops[k]] = Lines(k, source, n)
  BY <1>4 DEF IsPrinted, Turns
<1>6. IsPrinted(printed', service, k, Tail(todo), buckets)
  <2>1. DOMAIN printed' = Range(Loops) /\ Loops[k] \in DOMAIN printed
    BY <1>4, LoopNames DEF IsPrinted, Range
  <2>2. printed'[Loops[k]] = Lines(k, source, n + 1)
    BY <1>2, <1>3, <1>5, <2>1
  <2>3. ASSUME NEW j \in 1 .. N, j # 10
        PROVE  printed'[Loops[j]] = Lines(j, SourceIn(service, j, buckets),
                             Turns(j, k, SourceIn(service, j, buckets), Tail(todo)))
    <3>1. CASE j = k
      <4>1. Turns(j, k, SourceIn(service, j, buckets), Tail(todo)) = n + 1
        BY <1>2, <3>1 DEF Turns
      <4>2. QED
        BY <2>2, <3>1, <4>1
    <3>2. CASE j # k
      <4>1. Loops[j] \in DOMAIN printed /\ Loops[j] # Loops[k]
        BY <1>4, <3>2, LoopNames, LoopsDiffer DEF IsPrinted, Range
      <4>2. printed'[Loops[j]] = printed[Loops[j]]
        BY <4>1
      <4>3. Turns(j, k, SourceIn(service, j, buckets), Tail(todo))
              = Turns(j, k, SourceIn(service, j, buckets), todo)
        BY <3>2 DEF Turns
      <4>4. QED
        BY <1>4, <2>3, <4>2, <4>3 DEF IsPrinted
    <3>3. QED
      BY <3>1, <3>2
  <2>4. QED
    BY <2>1, <2>3 DEF IsPrinted
<1>7. IsPrinted(printed, service, at, todo, buckets)'
  BY <1>6 DEF IsPrinted, SourceIn, Lines
<1>8. Rest(SourceIn(service, at, buckets), todo)'
  BY <1>2 DEF SourceIn
<1>9. Turns(10, at', service', todo') = Turns(10, at, service, todo)
  BY DEF Turns
<1>10. Sorted(service, buckets, Turns(10, at, service, todo))'
  BY <1>9 DEF PrintInv, Sorted
<1>11. QED
  BY <1>7, <1>8, <1>10 DEF PrintInv

(* FillBucket puts the method into the vector of its interaction.          *)
LEMMA FillBucketSorts ==
  ASSUME PrintInv, FillBucket
  PROVE  PrintInv'
<1> DEFINE n == Len(service) - Len(todo)
           m == Head(todo)
           h == BucketOf(m)
<1>1. /\ at = 10 /\ todo # <<>> /\ todo' = Tail(todo)
      /\ buckets' = [buckets EXCEPT ![h] = Append(@, m)]
      /\ UNCHANGED <<service, at, printed>>
  <2>1. at \in 1 .. N /\ Loops[at] = Loops[10]
    BY LoopNames DEF FillBucket, Done, PrintInv, N
  <2>2. at = 10
    BY <2>1, LoopsDiffer DEF N
  <2>3. QED
    BY <2>2 DEF FillBucket
<1>2. service \in Seq(Range(service)) /\ Rest(service, todo)
  BY <1>1, GeneratorAssumption DEF PrintInv, SourceIn, N
<1>3. /\ n \in Nat /\ n + 1 <= Len(service)
      /\ m = service[n + 1]
      /\ Rest(service, Tail(todo))
      /\ Len(service) - Len(Tail(todo)) = n + 1
  BY <1>1, <1>2, RestTurns
<1>4. Sorted(service, buckets, n)
  BY <1>1 DEF PrintInv, Turns
<1>5. m \in Range(service)
  BY <1>2, <1>3
<1>6. Sorted(service, buckets', n + 1)
  <2> HIDE DEF n
  <2>1. buckets' = [buckets EXCEPT ![BucketOf(service[n + 1])]
                                      = Append(@, service[n + 1])]
    BY <1>1, <1>3
  <2>2. QED
    BY <1>2, <1>3, <1>4, <2>1, SortedGrows
<1>7. Turns(10, at, service, todo)' = n + 1
  BY <1>1, <1>3 DEF Turns
<1>8. Sorted(service, buckets, Turns(10, at, service, todo))'
  <2>1. Sorted(service', buckets', n + 1)
    BY <1>1, <1>6
  <2>2. QED
    BY <1>7, <2>1
<1>9. IsPrinted(printed, service, at, todo, buckets)'
  <2>1. ASSUME NEW k \in 1 .. N, k # 10
        PROVE  printed'[Loops[k]] = Lines(k, SourceIn(service, k, buckets),
                             Turns(k, at, SourceIn(service, k, buckets), todo))'
    <3>1. printed'[Loops[k]] = Lines(k, SourceIn(service, k, buckets),
                             Turns(k, 10, SourceIn(service, k, buckets), todo))
      BY <1>1, <2>1 DEF PrintInv, IsPrinted
    <3>2. CASE k < 10
      BY <1>1, <3>1, <3>2 DEF SourceIn, Turns, Lines
    <3>3. CASE k > 10
      BY <1>1, <3>1, <3>3 DEF Turns, Lines
    <3>4. QED
      BY <2>1, <3>2, <3>3 DEF N
  <2>2. QED
    BY <1>1, <2>1 DEF PrintInv, IsPrinted
<1>10. Rest(SourceIn(service, at, buckets), todo)'
  BY <1>1, <1>3 DEF SourceIn
<1>11. QED
  BY <1>1, <1>8, <1>9, <1>10 DEF PrintInv

(* The next loop starts with all of its methods.                           *)
LEMMA NextLoopPrints ==
  ASSUME PrintInv, NextLoop
  PROVE  PrintInv'
<1>1. /\ at \in 1 .. N /\ todo = <<>> /\ at' = at + 1
      /\ UNCHANGED <<service, buckets, printed>>
  BY LoopNames DEF NextLoop, Done, PrintInv, N
<1>2. at' \in 1 .. N + 1
  BY <1>1 DEF N
<1>3. ASSUME NEW k \in 1 .. N, k = at + 1
      PROVE  todo' = SourceIn(service, k, buckets)
  <2>1. at # Len(Loops)
    BY <1>1, <1>3, LoopNames DEF N
  <2>2. todo' = IF Loops[k] \in Interactions THEN buckets[Loops[k]]
                ELSE service
    BY <1>3, <2>1 DEF NextLoop
  <2>3. QED
    BY <2>2, InteractionLoops DEF SourceIn
<1>4. Rest(SourceIn(service, at, buckets), todo)
  BY <1>1 DEF PrintInv, N
<1>5. at' <= N => Rest(SourceIn(service, at, buckets), todo)'
  <2> SUFFICES ASSUME NEW k \in 1 .. N, k = at + 1
               PROVE  Rest(SourceIn(service, k, buckets), todo')
    BY <1>1, <1>2 DEF N
  <2> DEFINE source == SourceIn(service, k, buckets)
  <2>1. source \in Seq(Range(source))
    BY SourceIsSequence
  <2>2. todo' = source
    BY <1>3
  <2> HIDE DEF source
  <2>3. Rest(source, source)
    BY <2>1 DEF Rest
  <2>4. QED
    BY <2>2, <2>3 DEF source
<1>6. ASSUME NEW k \in 1 .. N, NEW source, source \in Seq(Range(source)),
             k = at' => todo' = source
      PROVE  Turns(k, at, source, todo) = Turns(k, at', source, todo')
  BY <1>1, <1>6 DEF Turns
<1>7. IsPrinted(printed, service, at, todo, buckets)'
  <2>1. ASSUME NEW k \in 1 .. N, k # 10
        PROVE  printed'[Loops[k]] = Lines(k, SourceIn(service, k, buckets),
                             Turns(k, at', SourceIn(service, k, buckets), todo'))
    <3> DEFINE source == SourceIn(service, k, buckets)
    <3>1. source \in Seq(Range(source))
      BY SourceIsSequence
    <3>2. k = at' => todo' = source
      BY <1>1, <1>3
    <3>3. Turns(k, at, source, todo) = Turns(k, at', source, todo')
      BY <1>6, <3>1, <3>2
    <3>4. QED
      BY <1>1, <2>1, <3>3 DEF PrintInv, IsPrinted
  <2>2. QED
    BY <1>1, <2>1 DEF PrintInv, IsPrinted, SourceIn, Lines
<1>8. Sorted(service, buckets, Turns(10, at, service, todo))'
  <2>1. service \in Seq(Range(service))
    BY GeneratorAssumption DEF PrintInv
  <2>2. 10 = at' => todo' = service
    <3>1. 10 \in 1 .. N /\ SourceIn(service, 10, buckets) = service
      BY DEF N, SourceIn
    <3>2. 10 = at + 1 => todo' = SourceIn(service, 10, buckets)
      BY <1>3, <3>1
    <3>3. QED
      BY <1>1, <3>1, <3>2
  <2>3. Turns(10, at, service, todo) = Turns(10, at', service, todo')
    BY <1>6, <2>1, <2>2 DEF N
  <2>4. QED
    BY <1>1, <2>3 DEF PrintInv, Sorted, Turns
<1>9. QED
  BY <1>1, <1>2, <1>5, <1>7, <1>8 DEF PrintInv

(* Nothing is printed at first.                                            *)
LEMMA InitPrints == Init => PrintInv
<1> SUFFICES ASSUME Init PROVE PrintInv
  OBVIOUS
<1>1. /\ service \in Services /\ at = 1 /\ todo = service
      /\ buckets = [h \in Interactions |-> <<>>]
      /\ printed = [l \in Range(Loops) |-> <<>>]
  BY DEF Init
<1>2. service \in Seq(Range(service))
  BY <1>1, GeneratorAssumption
<1>3. at \in 1 .. N + 1
  BY <1>1 DEF N
<1>4. Rest(SourceIn(service, at, buckets), todo)
  BY <1>1, <1>2 DEF Rest, SourceIn
<1>6. Sorted(service, buckets, Turns(10, at, service, todo))
  <2>1. Turns(10, at, service, todo) = 0
    BY <1>1 DEF Turns
  <2>2. Sorted(service, buckets, 0)
    BY <1>1 DEF Sorted
  <2>3. QED
    BY <2>1, <2>2
<1>7. IsPrinted(printed, service, at, todo, buckets)
  <2>1. ASSUME NEW k \in 1 .. N, NEW source, k = 1 => source = service
        PROVE  Lines(k, source, Turns(k, at, source, todo)) = <<>>
    <3>1. Turns(k, at, source, todo) = 0
      BY <1>1, <1>2, <2>1 DEF Turns
    <3>2. QED
      BY <3>1 DEF Lines
  <2>2. \A k \in 1 .. N : printed[Loops[k]] = <<>>
    BY <1>1, LoopNames DEF Range
  <2>3. \A k \in 1 .. N : k = 1 => SourceIn(service, k, buckets) = service
    BY DEF SourceIn
  <2>4. QED
    BY <1>1, <2>1, <2>2, <2>3 DEF IsPrinted
<1>8. QED
  BY <1>1, <1>3, <1>4, <1>6, <1>7 DEF PrintInv

(* Each loop's turn is one of TurnPrints: it sets every variable that it   *)
(* prints.                                                                 *)
LEMMA NextPrints == PrintInv /\ [Next]_vars => PrintInv'
<1> SUFFICES ASSUME PrintInv, [Next]_vars PROVE PrintInv'
  OBVIOUS
<1> DEFINE m == Head(todo)
<1>1. ASSUME NEW k \in 1 .. N, NEW loop, loop = Loops[k],
             ~Done, Loops[at] = loop
      PROVE  at = k
  <2>1. at \in 1 .. N
    BY <1>1, LoopNames DEF Done, PrintInv, N
  <2>2. QED
    BY <1>1, <2>1, LoopsDiffer
<1> DEFINE Prints(k) ==
             /\ ~Done /\ Loops[at] = Loops[k]
             /\ todo # <<>> /\ todo' = Tail(todo)
             /\ printed' = [printed EXCEPT ![Loops[k]] = Append(@, Text(k, m))]
             /\ UNCHANGED <<service, at, buckets>>
<1>2. ASSUME NEW k \in 1 .. N, k # 10, Prints(k) PROVE PrintInv'
  BY <1>1, <1>2, TurnPrints
<1> HIDE DEF Prints
<1>3. CASE PrintId
  <2>1. /\ ~Done /\ Loops[at] = "ids" /\ todo # <<>> /\ todo' = Tail(todo)
        /\ printed' = [printed EXCEPT !["ids"] = Append(@, IdText(m))]
        /\ UNCHANGED <<service, at, buckets>>
    BY <1>3 DEF PrintId, Turn, Keys, IdText
  <2>2. Loops[1] = "ids" /\ Text(1, m) = IdText(m) /\ 1 \in 1 .. N
    BY LoopNames DEF Text, N
  <2>3. Prints(1)
    BY <2>1, <2>2 DEF Prints
  <2>4. QED
    BY <1>2, <2>2, <2>3
<1>4. CASE PrintSignature
  <2>1. /\ ~Done /\ Loops[at] = "signatures" /\ todo # <<>>
        /\ todo' = Tail(todo)
        /\ printed' = [printed EXCEPT !["signatures"] = Append(@, Signature(m, m))]
        /\ UNCHANGED <<service, at, buckets>>
    BY <1>4 DEF PrintSignature, Turn, Keys, Signature
  <2>2. Loops[2] = "signatures" /\ Text(2, m) = Signature(m, m) /\ 2 \in 1 .. N
    BY LoopNames DEF Text, N
  <2>3. Prints(2)
    BY <2>1, <2>2 DEF Prints
  <2>4. QED
    BY <1>2, <2>2, <2>3
<1>5. CASE PrintClientField
  <2>1. /\ ~Done /\ Loops[at] = "clientFields" /\ todo # <<>>
        /\ todo' = Tail(todo)
        /\ printed' = [printed EXCEPT !["clientFields"]
                                = Append(@, FieldText(m, m.output_type))]
        /\ UNCHANGED <<service, at, buckets>>
    BY <1>5 DEF PrintClientField, Turn, Keys, FieldText
  <2>2. /\ Loops[3] = "clientFields" /\ Text(3, m) = FieldText(m, m.output_type)
        /\ 3 \in 1 .. N
    BY LoopNames DEF Text, N
  <2>3. Prints(3)
    BY <2>1, <2>2 DEF Prints
  <2>4. QED
    BY <1>2, <2>2, <2>3
<1>6. CASE PrintClientMethod
  <2>1. /\ ~Done /\ Loops[at] = "clientMethods" /\ todo # <<>>
        /\ todo' = Tail(todo)
        /\ printed' = [printed EXCEPT !["clientMethods"] = Append(@, MethodText(m))]
        /\ UNCHANGED <<service, at, buckets>>
    BY <1>6 DEF PrintClientMethod, Turn, Keys, MethodKeys, Signature, MethodText
  <2>2. Loops[6] = "clientMethods" /\ Text(6, m) = MethodText(m) /\ 6 \in 1 .. N
    BY LoopNames DEF Text, N
  <2>3. Prints(6)
    BY <2>1, <2>2 DEF Prints
  <2>4. QED
    BY <1>2, <2>2, <2>3
<1>7. CASE PrintServerField
  <2>1. /\ ~Done /\ Loops[at] = "serverFields" /\ todo # <<>>
        /\ todo' = Tail(todo)
        /\ printed' = [printed EXCEPT !["serverFields"]
                                = Append(@, FieldText(m, "Payload"))]
        /\ UNCHANGED <<service, at, buckets>>
    BY <1>7 DEF PrintServerField, Turn, Keys, FieldText
  <2>2. /\ Loops[7] = "serverFields" /\ Text(7, m) = FieldText(m, "Payload")
        /\ 7 \in 1 .. N
    BY LoopNames DEF Text, N
  <2>3. Prints(7)
    BY <2>1, <2>2 DEF Prints
  <2>4. QED
    BY <1>2, <2>2, <2>3
<1>8. ASSUME NEW loop \in {"clientIdentity", "clientTimed", "serverIdentity",
                           "serverTimed"},
             PrintAssignment(loop)
      PROVE  PrintInv'
  <2>1. /\ ~Done /\ Loops[at] = loop /\ todo # <<>> /\ todo' = Tail(todo)
        /\ printed' = [printed EXCEPT ![loop] = Append(@, NameText(m))]
        /\ UNCHANGED <<service, at, buckets>>
    BY <1>8 DEF PrintAssignment, Turn, Keys, NameText
  <2>2. PICK k \in {4, 5, 8, 9} : loop = Loops[k]
    BY LoopNames
  <2>3. k \in 1 .. N /\ Text(k, m) = NameText(m) /\ k # 10
    BY DEF Text, N
  <2>4. Prints(k)
    BY <2>1, <2>2, <2>3 DEF Prints
  <2>5. QED
    BY <1>2, <2>2, <2>3, <2>4
<1>9. ASSUME NEW h \in Interactions, PrintCase(h)
      PROVE  PrintInv'
  <2>1. /\ ~Done /\ Loops[at] = h /\ todo # <<>> /\ todo' = Tail(todo)
        /\ printed' = [printed EXCEPT ![h] = Append(@, CaseText(h, m, m))]
        /\ UNCHANGED <<service, at, buckets>>
    BY <1>9 DEF PrintCase, Turn, Keys, MethodKeys, CaseText
  <2>2. PICK k \in 1 .. N : h = Loops[k] /\ k > 10
    BY LoopNames DEF N, Interactions
  <2>3. Text(k, m) = CaseText(h, m, m)
    BY <2>2 DEF Text
  <2>4. Prints(k)
    BY <2>1, <2>2, <2>3 DEF Prints
  <2>5. QED
    BY <1>2, <2>2, <2>3, <2>4
<1>10. CASE UNCHANGED vars
  <2>1. UNCHANGED <<service, at, todo, dict, buckets, printed>>
    BY <1>10 DEF vars
  <2>2. QED
    BY <2>1 DEF PrintInv
<1>11. QED
  BY <1>3, <1>4, <1>5, <1>6, <1>7, <1>8, <1>9, <1>10, FillBucketSorts,
     NextLoopPrints DEF Next

(* So it is in every state.                                                *)
LEMMA AlwaysPrintInv == Spec => []PrintInv
<1>1. QED
  BY InitPrints, NextPrints, PTL DEF Spec-----------------------------------------------------------------------------
(* What is known of a method of the service.                               *)
IsMethod(m) == /\ m.client_streaming \in BOOLEAN
               /\ m.server_streaming \in BOOLEAN
               /\ m.field_count \in Nat

(* The client calls what the server answers in.                            *)
LEMMA SameInteraction == \A m : Called(m) = BucketOf(m)
BY DEF Called, BucketOf

(* The operations on types.                                                *)
LEMMA Types ==
  ASSUME NEW x, NEW y
  PROVE  /\ Mapped(Mono(x), y) = Mono(y) /\ Mapped(Flux(x), y) = Flux(y)
         /\ Single(Flux(x)) = Mono(x) /\ AsFlux(Mono(x)) = Flux(x)
         /\ Mono(x).item = x /\ Flux(x).item = x
<1> DEFINE f == FALSE
           t == TRUE
<1>1. \A z : Mono(z) = [many |-> f, item |-> z] /\ Flux(z) = [many |-> t, item |-> z]
  BY DEF Mono, Flux
<1> HIDE DEF f, t
<1>2. Mapped(Mono(x), y) = Mono(y)
  BY <1>1 DEF Mapped
<1>3. Mapped(Flux(x), y) = Flux(y)
  BY <1>1 DEF Mapped
<1>4. Single(Flux(x)) = Mono(x)
  BY <1>1 DEF Single, f
<1>5. AsFlux(Mono(x)) = Flux(x)
  BY <1>1 DEF AsFlux, t
<1>6. Mono(x).item = x /\ Flux(x).item = x
  BY <1>1
<1>7. QED
  BY <1>2, <1>3, <1>4, <1>5, <1>6

(* What the four handlers return.                                          *)
LEMMA SocketTypes ==
  /\ SocketReturns["fireAndForget"] = Mono("Void")
  /\ SocketReturns["requestResponse"] = Mono("Payload")
  /\ SocketReturns["requestStream"] = Flux("Payload")
  /\ SocketReturns["requestChannel"] = Flux("Payload")
BY DEF SocketReturns, Interactions

(* The five kinds of methods, as the printers tell them apart.             *)
LEMMA KindsOfMethods ==
  ASSUME NEW m, IsMethod(m), NEW output
  PROVE  \/ /\ BucketOf(m) = "requestChannel" /\ m.client_streaming
            /\ m.server_streaming /\ Declared(m, output) = Flux(output)
         \/ /\ BucketOf(m) = "requestChannel" /\ m.client_streaming
            /\ ~m.server_streaming /\ Declared(m, output) = Mono(output)
         \/ /\ BucketOf(m) = "requestStream" /\ ~m.client_streaming
            /\ m.server_streaming /\ Declared(m, output) = Flux(output)
         \/ /\ BucketOf(m) = "requestResponse" /\ ~m.client_streaming
            /\ ~m.server_streaming /\ m.field_count > 0
            /\ Declared(m, output) = Mono(output)
         \/ /\ BucketOf(m) = "fireAndForget" /\ ~m.client_streaming
            /\ ~m.server_streaming /\ ~(m.field_count > 0)
            /\ Declared(m, output) = Mono("Void")
BY DEF IsMethod, BucketOf, Declared

(* The type tests of the printers agree, though they are not made in the   *)
(* same order: of the client ...                                           *)
LEMMA BodyHasDeclaredType ==
  ASSUME NEW m, IsMethod(m), NEW output
  PROVE  /\ Body(m, output) = Declared(m, output)
         /\ FieldItem(m, output) = Body(m, output).item
<1>1. Body(m, output) = Declared(m, output)
  BY KindsOfMethods, SameInteraction, SocketTypes, Types DEF Body
<1>2. FieldItem(m, output) = Declared(m, output).item
  BY KindsOfMethods, Types DEF FieldItem
<1>3. QED
  BY <1>1, <1>2

(* ... and of the server.                                                  *)
LEMMA CaseHasHandlerType ==
  ASSUME NEW m, IsMethod(m), NEW h, h = BucketOf(m), NEW output
  PROVE  /\ CaseType(h, CaseText(h, m, m), Declared(m, output))
               = SocketReturns[h]
         /\ FieldItem(m, "Payload") = SocketReturns[h].item
         /\ Parameter(m) = IF h = "requestChannel" THEN "messages" ELSE "message"
<1>1. CaseText(h, m, m).flux = NeedsFlux(h, m)
  BY DEF CaseText
<1>2. CaseType(h, CaseText(h, m, m), Declared(m, output)) = SocketReturns[h]
  <2> DEFINE type == Declared(m, output)
  <2>1. CASE type = Flux(output)
    <3>1. h \in {"requestChannel", "requestStream"} /\ m.server_streaming
      BY <2>1, KindsOfMethods, Types DEF Mono, Flux
    <3>2. CaseType(h, CaseText(h, m, m), type) = Mapped(type, "Payload")
      BY <1>1, <3>1 DEF CaseType, NeedsFlux
    <3>3. QED
      BY <2>1, <3>1, <3>2, SocketTypes, Types
  <2>2. CASE /\ type = Mono(output) /\ h = "requestChannel"
             /\ ~m.server_streaming
    <3>1. CaseType(h, CaseText(h, m, m), type) = AsFlux(Mapped(type, "Payload"))
      BY <1>1, <2>2 DEF CaseType, NeedsFlux
    <3>2. AsFlux(Mapped(type, "Payload")) = AsFlux(Mono("Payload"))
      BY <2>2, Types
    <3>3. AsFlux(Mono("Payload")) = Flux("Payload")
      BY Types
    <3>4. QED
      BY <2>2, <3>1, <3>2, <3>3, SocketTypes
  <2>3. CASE type = Mono(output) /\ h = "requestResponse"
    <3>1. CaseType(h, CaseText(h, m, m), type) = Mapped(type, "Payload")
      BY <1>1, <2>3 DEF CaseType, NeedsFlux
    <3>2. QED
      BY <2>3, <3>1, SocketTypes, Types
  <2>4. CASE type = Mono("Void") /\ h = "fireAndForget"
    BY <2>4, SocketTypes DEF CaseType
  <2>5. QED
    BY <2>1, <2>2, <2>3, <2>4, KindsOfMethods
<1>3. FieldItem(m, "Payload") = SocketReturns[h].item
  BY KindsOfMethods, SocketTypes, Types DEF FieldItem
<1>4. Parameter(m) = IF h = "requestChannel" THEN "messages" ELSE "message"
  BY KindsOfMethods DEF Parameter
<1>5. QED
  BY <1>2, <1>3, <1>4

(* The three files, printed.                                               *)
Files ==
  LET n == Len(service)
  IN  /\ n \in Nat
      /\ \A j \in 1 .. n : service[j] \in Range(service) /\ IsMethod(service[j])
      /\ printed["ids"] = [j \in 1 .. n |-> IdText(service[j])]
      /\ printed["signatures"]
           = [j \in 1 .. n |-> Signature(service[j], service[j])]
      /\ printed["clientFields"]
           = [j \in 1 .. n |-> FieldText(service[j], service[j].output_type)]
      /\ printed["clientMethods"] = [j \in 1 .. n |-> MethodText(service[j])]
      /\ printed["serverFields"]
           = [j \in 1 .. n |-> FieldText(service[j], "Payload")]
      /\ \A loop \in {"clientIdentity", "clientTimed", "serverIdentity",
                       "serverTimed"} :
            printed[loop] = [j \in 1 .. n |-> NameText(service[j])]
      /\ \A h \in Interactions :
            /\ Len(buckets[h]) \in Nat
            /\ printed[h] = [j \in 1 .. Len(buckets[h]) |->
                               CaseText(h, buckets[h][j], buckets[h][j])]
            /\ \A j \in 1 .. Len(buckets[h]) :
                  /\ BucketOf(buckets[h][j]) = h
                  /\ \E i \in 1 .. n : buckets[h][j] = service[i]
      /\ \A j \in 1 .. n :
            \E i \in 1 .. Len(buckets[BucketOf(service[j])]) :
               buckets[BucketOf(service[j])][i] = service[j]

(* When the last loop has ended, the files are complete.                   *)
LEMMA DoneFiles ==
  ASSUME PrintInv, Done
  PROVE  Files
<1> DEFINE n == Len(service)
<1>1. at > N
  BY LoopNames DEF Done
<1>2. service \in Seq(Range(service))
  BY GeneratorAssumption DEF PrintInv
<1>3. n \in Nat
  BY <1>2
<1>4. ASSUME NEW j \in 1 .. n
      PROVE  service[j] \in Range(service) /\ IsMethod(service[j])
  <2>1. service[j] \in Range(service)
    BY <1>2
  <2>2. QED
    BY <2>1, GeneratorAssumption DEF PrintInv, IsMethod
<1>5. ASSUME NEW k \in 1 .. N, k # 10
      PROVE  printed[Loops[k]] = Lines(k, SourceIn(service, k, buckets),
                                       Len(SourceIn(service, k, buckets)))
  <2>1. k < at
    BY <1>1 DEF PrintInv, N
  <2>2. \A source : Turns(k, at, source, todo) = Len(source)
    BY <2>1 DEF Turns
  <2>3. QED
    BY <1>5, <2>2 DEF PrintInv, IsPrinted
<1>6. ASSUME NEW k \in 1 .. N, k < 10
      PROVE  printed[Loops[k]] = [j \in 1 .. n |-> Text(k, service[j])]
  <2>1. SourceIn(service, k, buckets) = service
    BY <1>6 DEF SourceIn
  <2>2. printed[Loops[k]] = Lines(k, service, n)
    <3>1. k # 10
      BY <1>6
    <3>2. QED
      BY <1>5, <2>1, <3>1
  <2>3. QED
    BY <2>2 DEF Lines
<1>7. printed["ids"] = [j \in 1 .. n |-> IdText(service[j])]
  BY <1>6, LoopNames DEF Text, N
<1>8. printed["signatures"]
           = [j \in 1 .. n |-> Signature(service[j], service[j])]
  BY <1>6, LoopNames DEF Text, N
<1>9. printed["clientFields"]
           = [j \in 1 .. n |-> FieldText(service[j], service[j].output_type)]
  BY <1>6, LoopNames DEF Text, N
<1>10. printed["clientMethods"] = [j \in 1 .. n |-> MethodText(service[j])]
  BY <1>6, LoopNames DEF Text, N
<1>11. printed["serverFields"]
           = [j \in 1 .. n |-> FieldText(service[j], "Payload")]
  BY <1>6, LoopNames DEF Text, N
<1>12. ASSUME NEW loop \in {"clientIdentity", "clientTimed", "serverIdentity",
                            "serverTimed"}
       PROVE  printed[loop] = [j \in 1 .. n |-> NameText(service[j])]
  <2>1. PICK k \in {4, 5, 8, 9} : loop = Loops[k]
    BY LoopNames
  <2>2. k \in 1 .. N /\ k < 10 /\ \A m : Text(k, m) = NameText(m)
    BY DEF Text, N
  <2>3. QED
    BY <1>6, <2>1, <2>2
<1>13. Sorted(service, buckets, n)
  BY <1>1 DEF PrintInv, Turns, N
<1>14. ASSUME NEW h \in Interactions
       PROVE  /\ Len(buckets[h]) \in Nat
              /\ printed[h] = [j \in 1 .. Len(buckets[h]) |->
                                 CaseText(h, buckets[h][j], buckets[h][j])]
              /\ \A j \in 1 .. Len(buckets[h]) :
                    /\ BucketOf(buckets[h][j]) = h
                    /\ \E i \in 1 .. n : buckets[h][j] = service[i]
  <2>1. PICK k \in 1 .. N : h = Loops[k] /\ k > 10
    BY LoopNames DEF N, Interactions
  <2>2. SourceIn(service, k, buckets) = buckets[h]
    BY <2>1 DEF SourceIn
  <2>3. \A m : Text(k, m) = CaseText(h, m, m)
    BY <2>1 DEF Text
  <2>4. printed[h] = [j \in 1 .. Len(buckets[h]) |->
                                 CaseText(h, buckets[h][j], buckets[h][j])]
    BY <1>5, <2>1, <2>2, <2>3 DEF Lines
  <2>5. buckets[h] \in Seq(Range(service))
    BY <1>13 DEF Sorted
  <2>6. /\ Len(buckets[h]) \in Nat
        /\ \A j \in 1 .. Len(buckets[h]) : buckets[h][j] \in Range(service)
    BY <2>5
  <2>7. \A m \in Range(service) : \E i \in 1 .. n : m = service[i]
    BY <1>2 DEF Range
  <2>8. \A j \in 1 .. Len(buckets[h]) : BucketOf(buckets[h][j]) = h
    BY <1>13 DEF Sorted
  <2>9. QED
    BY <2>4, <2>6, <2>7, <2>8
<1>15. \A j \in 1 .. n :
         \E i \in 1 .. Len(buckets[BucketOf(service[j])]) :
            buckets[BucketOf(service[j])][i] = service[j]
  BY <1>13 DEF Sorted
<1>16. QED
  BY <1>3, <1>4, <1>7, <1>8, <1>9, <1>10, <1>11, <1>12, <1>14, <1>15 DEF Files

(* What the files declare fits.                                            *)
LEMMA FilesWellTyped ==
  ASSUME Files
  PROVE  WellTyped
<1> DEFINE n == Len(service)
<1>1. Names("clientMethods", "signature") = printed["signatures"]
  <2>1. Names("clientMethods", "signature")
          = [j \in 1 .. n |-> MethodText(service[j]).signature]
    BY DEF Names, Files
  <2>2. \A m : MethodText(m).signature = Signature(m, m)
    BY DEF MethodText
  <2>3. QED
    BY <2>1, <2>2 DEF Files
<1>2. ASSUME NEW c \in Range(printed["clientMethods"])
      PROVE  /\ c.body = c.signature.returns
             /\ [name |-> c.signature.name, item |-> c.body.item]
                  \in Range(printed["clientFields"])
  <2>1. PICK j \in 1 .. n : c = MethodText(service[j])
    BY <1>2 DEF Files, Range
  <2> DEFINE m == service[j]
  <2>2. IsMethod(m)
    BY DEF Files
  <2>3. /\ c.body = Body(m, m.output_type)
        /\ c.signature.returns = Declared(m, m.output_type)
        /\ c.signature.name = m.lower_method_name
    BY <2>1 DEF MethodText, Signature
  <2>4. FieldText(m, m.output_type) \in Range(printed["clientFields"])
    BY DEF Files, Range
  <2>5. FieldText(m, m.output_type)
          = [name |-> m.lower_method_name, item |-> FieldItem(m, m.output_type)]
    BY DEF FieldText
  <2> HIDE DEF m
  <2>6. /\ Body(m, m.output_type) = Declared(m, m.output_type)
        /\ FieldItem(m, m.output_type) = Body(m, m.output_type).item
    BY <2>2, BodyHasDeclaredType
  <2>7. QED
    BY <2>3, <2>4, <2>5, <2>6
<1>3. ASSUME NEW h \in Interactions, NEW case \in Range(printed[h])
      PROVE  /\ \E s \in Range(printed["signatures"]) :
                  /\ s.name = case.target
                  /\ s.input = case.input
                  /\ s.takes = IF h = "requestChannel" THEN "messages"
                                                       ELSE "message"
                  /\ CaseType(h, case, s.returns) = SocketReturns[h]
             /\ [name |-> case.target, item |-> SocketReturns[h].item]
                  \in Range(printed["serverFields"])
  <2>1. PICK i \in 1 .. n : case = CaseText(h, service[i], service[i])
                            /\ BucketOf(service[i]) = h
    <3>1. PICK j \in 1 .. Len(buckets[h]) :
             case = CaseText(h, buckets[h][j], buckets[h][j])
      <4>1. printed[h] = [j \in 1 .. Len(buckets[h]) |->
                           CaseText(h, buckets[h][j], buckets[h][j])]
        BY DEF Files
      <4>2. QED
        BY <1>3, <4>1 DEF Range
    <3>2. /\ BucketOf(buckets[h][j]) = h
          /\ \E i \in 1 .. n : buckets[h][j] = service[i]
      BY DEF Files
    <3>3. QED
      BY <3>1, <3>2
  <2> DEFINE m == service[i]
             s == Signature(m, m)
  <2>2. /\ IsMethod(m) /\ s \in Range(printed["signatures"])
        /\ FieldText(m, "Payload") \in Range(printed["serverFields"])
    BY DEF Files, Range
  <2>3. /\ s.name = m.lower_method_name /\ s.input = m.input_type
        /\ s.takes = Parameter(m) /\ s.returns = Declared(m, m.output_type)
    BY DEF Signature
  <2>4. case.target = m.lower_method_name /\ case.input = m.input_type
    BY <2>1 DEF CaseText
  <2>5. FieldText(m, "Payload")
          = [name |-> m.lower_method_name, item |-> FieldItem(m, "Payload")]
    BY DEF FieldText
  <2>6. case = CaseText(h, m, m) /\ h = BucketOf(m)
    BY <2>1
  <2> HIDE DEF m, s
  <2>7. /\ CaseType(h, CaseText(h, m, m), Declared(m, m.output_type))
              = SocketReturns[h]
        /\ FieldItem(m, "Payload") = SocketReturns[h].item
        /\ Parameter(m) = IF h = "requestChannel" THEN "messages" ELSE "message"
    BY <2>2, <2>6, CaseHasHandlerType
  <2>8. CaseType(h, case, s.returns) = SocketReturns[h]
    BY <2>3, <2>6, <2>7
  <2>9. [name |-> case.target, item |-> SocketReturns[h].item]
                  \in Range(printed["serverFields"])
    BY <2>2, <2>4, <2>5, <2>7
  <2>10. QED
    BY <2>2, <2>3, <2>4, <2>7, <2>8, <2>9
<1>4. \A m, item : NameText(m).name = FieldText(m, item).name
  BY DEF NameText, FieldText
<1>5. \A loop \in {"clientIdentity", "clientTimed"} :
         Names(loop, "name") = Names("clientFields", "name")
  BY <1>4 DEF Files, Names
<1>6. \A loop \in {"serverIdentity", "serverTimed"} :
         Names(loop, "name") = Names("serverFields", "name")
  BY <1>4 DEF Files, Names
<1>7. QED
  BY <1>1, <1>2, <1>3, <1>5, <1>6 DEF WellTyped

(* In complete files the case of a method stands in the handler that its   *)
(* client calls, and no second case of that switch has its id.             *)
LEMMA FilesReach ==
  ASSUME Files
  PROVE  Reaches
<1> DEFINE n == Len(service)
<1> SUFFICES ASSUME Compiles, NEW c \in Range(printed["clientMethods"])
             PROVE  /\ Landing(c) # {}
                    /\ \A case \in Landing(c) : case.target = c.signature.name
  BY DEF Reaches
<1>1. PICK j \in 1 .. n : c = MethodText(service[j])
  BY DEF Files, Range
<1> DEFINE m == service[j]
           h == BucketOf(m)
<1>2. /\ c.calls = Called(m) /\ c.label = m.method_id_name
      /\ c.signature.name = m.lower_method_name
  BY <1>1 DEF MethodText, Signature
<1>3. c.calls = h /\ h \in Interactions
  BY <1>2, SameInteraction, BucketIsInteraction
<1>4. PICK i \in 1 .. Len(buckets[h]) : buckets[h][i] = m
  BY DEF Files
<1> HIDE DEF m, h
<1>5. printed[h] = [l \in 1 .. Len(buckets[h]) |->
                     CaseText(h, buckets[h][l], buckets[h][l])]
  BY <1>3 DEF Files
<1>6. /\ i \in DOMAIN printed[h]
      /\ printed[h][i] = CaseText(h, m, m)
  BY <1>4, <1>5
<1>7. /\ printed[h][i].label = m.method_id_name
      /\ printed[h][i].target = m.lower_method_name
  BY <1>6 DEF CaseText
<1>8. printed[h][i] \in Landing(c)
  BY <1>2, <1>3, <1>6, <1>7 DEF Landing, Range
<1>9. ASSUME NEW case \in Landing(c)
      PROVE  case.target = c.signature.name
  <2>1. case \in Range(printed[h]) /\ Constant(case.label) = Constant(c.label)
    BY <1>3 DEF Landing
  <2>2. PICK l \in DOMAIN printed[h] : case = printed[h][l]
    BY <2>1 DEF Range
  <2>3. Constant(printed[h][l].label) = Constant(printed[h][i].label)
    BY <1>2, <1>7, <2>1, <2>2
  <2>4. l = i
    BY <1>3, <1>6, <2>3 DEF Compiles, IsInjective
  <2>5. QED
    BY <1>2, <1>7, <2>2, <2>4
<1>10. QED
  BY <1>8, <1>9

(* The interface, the client and the server of any service fit together as *)
(* Java declarations (java_generator.cpp:359, 565 and 908).                *)
THEOREM AlwaysWellTyped == Spec => []WellTyped
<1>1. PrintInv => WellTyped
  BY DoneFiles, FilesWellTyped DEF WellTyped
<1>2. QED
  BY <1>1, AlwaysPrintInv, PTL

(* In files that compile, a call of the client is answered by the method   *)
(* of the same name and by no other (java_generator.cpp:573 and :908).     *)
THEOREM AlwaysReaches == Spec => []Reaches
<1>1. PrintInv => Reaches
  BY DoneFiles, FilesReach DEF Reaches
<1>2. QED
  BY <1>1, AlwaysPrintInv, PTL
=============================================================================
