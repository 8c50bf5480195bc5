-------------------------- MODULE PluginRunProofs --------------------------
(***************************************************************************)
(* Proofs about a run of the plugin, for names of any length and any .proto *)
(* file: what the loops of java_generator.cpp derive from a name, the same *)
(* id on both sides of the wire, keys that differ, and the theorems of the *)
(* run's other parts carried over to the run.                              *)
(*                                                                         *)
(* The loops compute recursive functions of a name.  That such a function  *)
(* exists, and that there is but one, needs induction over the positions   *)
(* of the name: Least takes the first position where it would fail.        *)
(***************************************************************************)
EXTENDS PluginRun, DocCommentProofs, WellFoundedInduction

Lists == INSTANCE JavaPluginProofs WITH i <- option, at <- service
-----------------------------------------------------------------------------
(* Recursive functions on the positions of a sequence.                     *)

(* A set of naturals has a least element.                                  *)
LEMMA Least ==
  ASSUME NEW S, S \subseteq Nat, S # {}
  PROVE  \E n \in S : \A m \in S : n <= m
<1>1. PICK n \in S : \A m \in S : ~(<<m, n>> \in OpToRel(<, Nat))
  BY NatLessThanWellFounded, WFMin
<1>2. \A m \in S : ~(m < n)
  BY <1>1 DEF OpToRel
<1>3. QED
  BY <1>2

(* f folds a step, given for every position and value, over positions 1 to *)
(* n.                                                                      *)
IsFold(f, n, S, first, step) ==
  /\ f \in [0 .. n -> S]
  /\ f[0] = first
  /\ \A k \in 1 .. n : f[k] = step[k][f[k - 1]]

(* g does so too where step is given; its values are not known yet.        *)
Follows(g, n, S, first, step) ==
  /\ g[0] = first
  /\ \A k \in 1 .. n : g[k - 1] \in S => g[k] = step[k][g[k - 1]]

(* What takes the steps of a fold, from the same value, is the fold.       *)
LEMMA FoldUnique ==
  ASSUME NEW n \in Nat, NEW S, NEW first, NEW step, NEW f, NEW g,
         IsFold(f, n, S, first, step), Follows(g, n, S, first, step)
  PROVE  \A k \in 0 .. n : g[k] = f[k]
<1> DEFINE Wrong == {k \in 0 .. n : g[k] # f[k]}
<1>1. SUFFICES ASSUME Wrong # {} PROVE FALSE
  OBVIOUS
<1>2. PICK k \in Wrong : \A j \in Wrong : k <= j
  <2>1. Wrong \subseteq Nat
    OBVIOUS
  <2> HIDE DEF Wrong
  <2>2. QED
    BY <1>1, <2>1, Least
<1>3. k # 0
  BY <1>2 DEF IsFold, Follows
<1>4. k \in 1 .. n /\ k - 1 \in 0 .. n
  BY <1>3
<1>5. g[k - 1] = f[k - 1] /\ f[k - 1] \in S
  BY <1>2, <1>4 DEF IsFold
<1>6. f[k] = step[k][f[k - 1]] /\ g[k] = step[k][g[k - 1]]
  BY <1>4, <1>5 DEF IsFold, Follows
<1>7. QED
  BY <1>5, <1>6

(* A step that stays among the values can be folded to any length.         *)
LEMMA FoldExists ==
  ASSUME NEW n \in Nat, NEW S, NEW first \in S, NEW step,
         \A k \in 1 .. n, s \in S : step[k][s] \in S
  PROVE  \E f : IsFold(f, n, S, first, step)
<1> DEFINE Short == {m \in 0 .. n : ~\E f : IsFold(f, m, S, first, step)}
<1>1. SUFFICES ASSUME Short # {} PROVE FALSE
  BY n \in 0 .. n
<1>2. PICK m \in Short : \A j \in Short : m <= j
  <2>1. Short \subseteq Nat
    OBVIOUS
  <2> HIDE DEF Short
  <2>2. QED
    BY <1>1, <2>1, Least
<1>3. m # 0
  <2> DEFINE f == [k \in 0 .. 0 |-> first]
  <2>1. IsFold(f, 0, S, first, step)
    BY DEF IsFold
  <2>2. QED
    BY <1>2, <2>1
<1>4. m \in 1 .. n /\ m - 1 \in 0 .. n
  BY <1>3
<1>5. PICK f : IsFold(f, m - 1, S, first, step)
  BY <1>2, <1>4
<1> DEFINE g == [k \in 0 .. m |-> IF k = m THEN step[m][f[m - 1]] ELSE f[k]]
<1>6. f[m - 1] \in S /\ step[m][f[m - 1]] \in S
  BY <1>4, <1>5 DEF IsFold
<1>7. g \in [0 .. m -> S]
  BY <1>4, <1>5, <1>6 DEF IsFold
<1>8. g[0] = first
  BY <1>4, <1>5 DEF IsFold
<1>9. \A k \in 1 .. m : g[k] = step[k][g[k - 1]]
  BY <1>4, <1>5 DEF IsFold
<1>10. IsFold(g, m, S, first, step)
  BY <1>7, <1>8, <1>9 DEF IsFold
<1>11. QED
  BY <1>2, <1>10
(* One step more is taken from where the shorter fold ends.                *)
LEMMA FoldLonger ==
  ASSUME NEW n \in Nat, NEW S, NEW first, NEW step, NEW longer, NEW f, NEW g,
         IsFold(f, n, S, first, step), IsFold(g, n + 1, S, first, longer),
         \A k \in 1 .. n : longer[k] = step[k]
  PROVE  g[n + 1] = longer[n + 1][f[n]]
<1>1. Follows(g, n, S, first, step)
  BY DEF IsFold, Follows
<1>2. g[n] = f[n]
  <2>1. \A k \in 0 .. n : g[k] = f[k]
    BY <1>1, FoldUnique
  <2>2. QED
    BY <2>1
<1>3. g[n + 1] = longer[n + 1][g[n]]
  <2>1. n + 1 \in 1 .. n + 1 /\ (n + 1) - 1 = n
    OBVIOUS
  <2>2. QED
    BY <2>1 DEF IsFold
<1>4. QED
  BY <1>2, <1>3

-----------------------------------------------------------------------------
(* The letters of a name.                                                  *)

Spelling(name) ==
  [k \in 1 .. Len(name) |->
    [s \in Seq(Nat) |->
      IF name[k] = Names!Underscore THEN s ELSE Append(s, Names!tolower(name[k]))]]

(* Lowering a code gives a code.                                           *)
LEMMA LowerNat ==
  ASSUME NEW c \in Nat
  PROVE  Names!tolower(c) \in Nat /\ Names!toupper(c) \in Nat
BY DEF Names!tolower, Names!toupper, Names!Uppers, Names!Lowers

(* Spelling stays among the sequences of codes.                            *)
LEMMA SpellingStep ==
  ASSUME NEW name \in Seq(Nat), NEW k \in 1 .. Len(name), NEW s \in Seq(Nat)
  PROVE  /\ Spelling(name)[k][s] = IF name[k] = Names!Underscore THEN s
                                   ELSE Append(s, Names!tolower(name[k]))
         /\ Spelling(name)[k][s] \in Seq(Nat)
<1>1. Spelling(name)[k][s] = IF name[k] = Names!Underscore THEN s
                             ELSE Append(s, Names!tolower(name[k]))
  BY DEF Spelling
<1>2. name[k] \in Nat
  BY LenProperties
<1>3. Append(s, Names!tolower(name[k])) \in Seq(Nat)
  BY <1>2, LowerNat, AppendProperties
<1>4. QED
  BY <1>1, <1>3

(* Letters is the fold of spelling.                                        *)
LEMMA LettersFold ==
  ASSUME NEW name \in Seq(Nat)
  PROVE  \E f : /\ IsFold(f, Len(name), Seq(Nat), <<>>, Spelling(name))
                /\ Names!Letters(name) = f[Len(name)]
<1> DEFINE n == Len(name)
           Def(g) == [k \in 0 .. n |->
                       IF k = 0 THEN <<>>
                       ELSE IF name[k] = Names!Underscore THEN g[k - 1]
                       ELSE Append(g[k - 1], Names!tolower(name[k]))]
<1>1. n \in Nat
  BY LenProperties
<1>2. PICK f : IsFold(f, n, Seq(Nat), <<>>, Spelling(name))
  <2>1. \A k \in 1 .. n, s \in Seq(Nat) : Spelling(name)[k][s] \in Seq(Nat)
    BY SpellingStep
  <2>2. <<>> \in Seq(Nat)
    OBVIOUS
  <2> HIDE DEF n
  <2>3. QED
    BY <1>1, <2>1, <2>2, FoldExists
<1>3. f = Def(f)
  <2>1. \A k \in 0 .. n : f[k] = Def(f)[k]
    <3> SUFFICES ASSUME NEW k \in 0 .. n PROVE f[k] = Def(f)[k]
      OBVIOUS
    <3>1. CASE k = 0
      BY <1>2, <3>1 DEF IsFold
    <3>2. CASE k # 0
      <4>1. k \in 1 .. n /\ k - 1 \in 0 .. n
        BY <1>1, <3>2
      <4>2. f[k - 1] \in Seq(Nat) /\ f[k] = Spelling(name)[k][f[k - 1]]
        BY <1>2, <4>1 DEF IsFold
      <4>3. QED
        BY <3>2, <4>1, <4>2, SpellingStep
    <3>3. QED
      BY <3>1, <3>2
  <2>2. f \in [0 .. n -> Seq(Nat)]
    BY <1>2 DEF IsFold
  <2>3. QED
    BY <2>1, <2>2
<1>4. PICK g : g = Def(g) /\ Names!Letters(name) = g[n]
  <2>1. (CHOOSE g : g = Def(g)) = Def(CHOOSE g : g = Def(g))
    BY <1>3
  <2>2. Names!Letters(name) = (CHOOSE g : g = Def(g))[n]
    BY DEF Names!Letters
  <2>3. QED
    BY <2>1, <2>2
<1>5. Follows(g, n, Seq(Nat), <<>>, Spelling(name))
  <2>1. g[0] = <<>>
    BY <1>1, <1>4
  <2>2. ASSUME NEW k \in 1 .. n, g[k - 1] \in Seq(Nat)
        PROVE  g[k] = Spelling(name)[k][g[k - 1]]
    <3>1. k \in 0 .. n /\ k # 0
      BY <1>1
    <3>2. g[k] = IF name[k] = Names!Underscore THEN g[k - 1]
                 ELSE Append(g[k - 1], Names!tolower(name[k]))
      BY <1>4, <3>1
    <3>3. QED
      BY <2>2, <3>2, SpellingStep
  <2>3. QED
    BY <2>1, <2>2 DEF Follows
<1>6. g[n] = f[n]
  <2> HIDE DEF n
  <2>1. \A k \in 0 .. n : g[k] = f[k]
    BY <1>1, <1>2, <1>5, FoldUnique
  <2>2. QED
    BY <1>1, <2>1
<1>7. QED
  BY <1>2, <1>4, <1>6

(* The letters of a name and one character more.                           *)
LEMMA LettersAppend ==
  ASSUME NEW name \in Seq(Nat), NEW c \in Nat
  PROVE  /\ Names!Letters(name) \in Seq(Nat)
         /\ Names!Letters(Append(name, c)) =
              IF c = Names!Underscore THEN Names!Letters(name)
              ELSE Append(Names!Letters(name), Names!tolower(c))
<1> DEFINE n == Len(name)
           longer == Append(name, c)
<1>1. /\ n \in Nat /\ longer \in Seq(Nat) /\ Len(longer) = n + 1
      /\ longer[n + 1] = c /\ \A k \in 1 .. n : longer[k] = name[k]
  BY LenProperties, AppendProperties
<1>2. PICK f : IsFold(f, n, Seq(Nat), <<>>, Spelling(name))
               /\ Names!Letters(name) = f[n]
  BY LettersFold
<1>3. PICK g : IsFold(g, n + 1, Seq(Nat), <<>>, Spelling(longer))
               /\ Names!Letters(longer) = g[n + 1]
  <2> HIDE DEF longer
  <2>1. QED
    BY <1>1, LettersFold
<1>4. \A k \in 1 .. n : Spelling(longer)[k] = Spelling(name)[k]
  <2> HIDE DEF longer
  <2>1. \A k \in 1 .. n : k \in 1 .. Len(longer) /\ longer[k] = name[k]
    BY <1>1
  <2>2. QED
    BY <2>1 DEF Spelling
<1>5. f[n] \in Seq(Nat)
  BY <1>1, <1>2 DEF IsFold
<1>6. g[n + 1] = Spelling(longer)[n + 1][f[n]]
  <2> HIDE DEF n, longer
  <2>1. QED
    BY <1>1, <1>2, <1>3, <1>4, FoldLonger
<1>7. Spelling(longer)[n + 1][f[n]] =
        IF c = Names!Underscore THEN f[n] ELSE Append(f[n], Names!tolower(c))
  <2>1. n + 1 \in 1 .. Len(longer)
    BY <1>1
  <2> HIDE DEF n, longer
  <2>2. QED
    BY <1>1, <1>5, <2>1, SpellingStep
<1>8. QED
  BY <1>2, <1>3, <1>5, <1>6, <1>7

(* Case and underscores do not show in the letters.                        *)
LEMMA LettersKept ==
  ASSUME NEW s \in Seq(Nat), NEW name \in Seq(Nat), NEW c \in Nat, NEW d \in Nat,
         Names!Letters(s) = Names!Letters(name),
         d \in {c, Names!tolower(c), Names!toupper(c)}
  PROVE  Names!Letters(Append(s, d)) = Names!Letters(Append(name, c))
<1>1. /\ d = Names!Underscore <=> c = Names!Underscore
      /\ Names!tolower(d) = Names!tolower(c)
  BY DEF Names!tolower, Names!toupper, Names!Uppers, Names!Lowers, Names!Underscore
<1>2. Names!Letters(Append(s, d)) =
        IF c = Names!Underscore THEN Names!Letters(name)
        ELSE Append(Names!Letters(name), Names!tolower(c))
  BY <1>1, LettersAppend
<1>3. QED
  BY <1>2, LettersAppend
-----------------------------------------------------------------------------
(* The id of a name.                                                       *)

Hashing(name) ==
  [k \in 1 .. Len(name) |-> [h \in Names!Ids |-> Names!HashStep(h, name[k])]]

(* The 32-bit FNV-1a hash of a name.                                       *)
Id(name) ==
  LET After[n \in 0 .. Len(name)] ==
        IF n = 0 THEN Names!Seed ELSE Names!HashStep(After[n - 1], name[n])
  IN  After[Len(name)]

(* The bits of two numbers are a number.                                   *)
LEMMA AndInt ==
  ASSUME NEW a \in Int, NEW b \in Int
  PROVE  Names!And(a, b) \in Int
BY DEF Names!And

(* What Half is good for.                                                  *)
LEMMA HalfNat == Names!Half \in Nat /\ Names!Half > 0
BY DEF Names!Half

(* An id is two numbers.                                                   *)
LEMMA IdParts ==
  ASSUME NEW h \in Names!Ids
  PROVE  /\ h.hi \in Nat /\ h.lo \in Nat
         /\ h = [hi |-> h.hi, lo |-> h.lo]
BY HalfNat DEF Names!Ids

(* A product of ids is an id.                                              *)
LEMMA TimesId ==
  ASSUME NEW a \in [hi : Int, lo : Int], NEW b \in [hi : Int, lo : Int]
  PROVE  Names!Times(a, b) \in Names!Ids
<1> DEFINE low == a.lo * b.lo
           carry == a.hi * b.lo + a.lo * b.hi + low \div Names!Half
<1>1. low \in Int
  OBVIOUS
<1>2. carry \in Int
  <2> HIDE DEF low
  <2>1. low \div Names!Half \in Int
    BY <1>1, HalfNat
  <2>2. QED
    BY <2>1
<1>3. Names!Times(a, b) = [hi |-> carry % Names!Half, lo |-> low % Names!Half]
  BY DEF Names!Times
<1> HIDE DEF low, carry
<1>4. carry % Names!Half \in 0 .. Names!Half - 1
      /\ low % Names!Half \in 0 .. Names!Half - 1
  BY <1>1, <1>2, HalfNat
<1>5. QED
  BY <1>3, <1>4 DEF Names!Ids

(* A step of the hash gives 32 bits.                                       *)
LEMMA HashStepId ==
  ASSUME NEW h \in Names!Ids, NEW c \in Nat
  PROVE  Names!HashStep(h, c) \in Names!Ids
<1>1. Names!Xor(h.lo, c) \in Int
  BY IdParts, AndInt DEF Names!Xor
<1>2. Names!XorChar(h, c) \in [hi : Int, lo : Int]
  BY <1>1, IdParts DEF Names!XorChar
<1>3. Names!Prime \in [hi : Int, lo : Int]
  BY DEF Names!Prime
<1>4. QED
  BY <1>2, <1>3, TimesId DEF Names!HashStep

(* Where the hash starts.                                                  *)
LEMMA SeedId == Names!Seed \in Names!Ids
<1>1. Names!Half > 40389
  BY DEF Names!Half
<1>2. Names!Seed = [hi |-> 33052, lo |-> 40389]
  BY DEF Names!Seed
<1>3. 33052 \in 0 .. Names!Half - 1 /\ 40389 \in 0 .. Names!Half - 1
  BY <1>1, HalfNat
<1>4. QED
  BY <1>2, <1>3 DEF Names!Ids

(* The id of a name is the fold of hashing.                                *)
LEMMA IdFold ==
  ASSUME NEW name \in Seq(Nat)
  PROVE  \E f : /\ IsFold(f, Len(name), Names!Ids, Names!Seed, Hashing(name))
                /\ Id(name) = f[Len(name)]
<1> DEFINE n == Len(name)
           Def(g) == [k \in 0 .. n |->
                       IF k = 0 THEN Names!Seed
                       ELSE Names!HashStep(g[k - 1], name[k])]
<1>1. n \in Nat
  BY LenProperties
<1>2. ASSUME NEW k \in 1 .. n, NEW h \in Names!Ids
      PROVE  /\ Hashing(name)[k][h] = Names!HashStep(h, name[k])
             /\ Hashing(name)[k][h] \in Names!Ids
  <2>1. name[k] \in Nat
    BY LenProperties
  <2>2. Hashing(name)[k][h] = Names!HashStep(h, name[k])
    BY DEF Hashing
  <2>3. QED
    BY <2>1, <2>2, HashStepId
<1>3. PICK f : IsFold(f, n, Names!Ids, Names!Seed, Hashing(name))
  <2>1. \A k \in 1 .. n, h \in Names!Ids : Hashing(name)[k][h] \in Names!Ids
    BY <1>2
  <2> HIDE DEF n
  <2>2. QED
    BY <1>1, <2>1, SeedId, FoldExists
<1>4. f = Def(f)
  <2>1. \A k \in 0 .. n : f[k] = Def(f)[k]
    <3> SUFFICES ASSUME NEW k \in 0 .. n PROVE f[k] = Def(f)[k]
      OBVIOUS
    <3>1. CASE k = 0
      BY <1>3, <3>1 DEF IsFold
    <3>2. CASE k # 0
      <4>1. k \in 1 .. n /\ k - 1 \in 0 .. n
        BY <1>1, <3>2
      <4>2. f[k - 1] \in Names!Ids /\ f[k] = Hashing(name)[k][f[k - 1]]
        BY <1>3, <4>1 DEF IsFold
      <4>3. QED
        BY <1>2, <3>2, <4>1, <4>2
    <3>3. QED
      BY <3>1, <3>2
  <2>2. f \in [0 .. n -> Names!Ids]
    BY <1>3 DEF IsFold
  <2>3. QED
    BY <2>1, <2>2
<1>5. PICK g : g = Def(g) /\ Id(name) = g[n]
  <2>1. (CHOOSE g : g = Def(g)) = Def(CHOOSE g : g = Def(g))
    BY <1>4
  <2>2. Id(name) = (CHOOSE g : g = Def(g))[n]
    BY DEF Id
  <2>3. QED
    BY <2>1, <2>2
<1>6. Follows(g, n, Names!Ids, Names!Seed, Hashing(name))
  <2>1. g[0] = Names!Seed
    BY <1>1, <1>5
  <2>2. ASSUME NEW k \in 1 .. n, g[k - 1] \in Names!Ids
        PROVE  g[k] = Hashing(name)[k][g[k - 1]]
    <3>1. k \in 0 .. n /\ k # 0
      BY <1>1
    <3>2. g[k] = Names!HashStep(g[k - 1], name[k])
      BY <1>5, <3>1
    <3>3. QED
      BY <1>2, <2>2, <3>2
  <2>3. QED
    BY <2>1, <2>2 DEF Follows
<1>7. g[n] = f[n]
  <2> HIDE DEF n
  <2>1. \A k \in 0 .. n : g[k] = f[k]
    BY <1>1, <1>3, <1>6, FoldUnique
  <2>2. QED
    BY <1>1, <2>1
<1>8. QED
  BY <1>3, <1>5, <1>7

(* The id of a name and one character more.                                *)
LEMMA IdAppend ==
  ASSUME NEW name \in Seq(Nat), NEW c \in Nat
  PROVE  /\ Id(name) \in Names!Ids
         /\ Id(Append(name, c)) = Names!HashStep(Id(name), c)
<1> DEFINE n == Len(name)
           longer == Append(name, c)
<1>1. /\ n \in Nat /\ longer \in Seq(Nat) /\ Len(longer) = n + 1
      /\ longer[n + 1] = c /\ \A k \in 1 .. n : longer[k] = name[k]
  BY LenProperties, AppendProperties
<1>2. PICK f : IsFold(f, n, Names!Ids, Names!Seed, Hashing(name))
               /\ Id(name) = f[n]
  BY IdFold
<1>3. PICK g : IsFold(g, n + 1, Names!Ids, Names!Seed, Hashing(longer))
               /\ Id(longer) = g[n + 1]
  <2> HIDE DEF longer
  <2>1. QED
    BY <1>1, IdFold
<1>4. \A k \in 1 .. n : Hashing(longer)[k] = Hashing(name)[k]
  <2> HIDE DEF longer
  <2>1. \A k \in 1 .. n : k \in 1 .. Len(longer) /\ longer[k] = name[k]
    BY <1>1
  <2>2. QED
    BY <2>1 DEF Hashing
<1>5. f[n] \in Names!Ids
  BY <1>1, <1>2 DEF IsFold
<1>6. g[n + 1] = Hashing(longer)[n + 1][f[n]]
  <2> HIDE DEF n, longer
  <2>1. QED
    BY <1>1, <1>2, <1>3, <1>4, FoldLonger
<1>7. Hashing(longer)[n + 1][f[n]] = Names!HashStep(f[n], c)
  <2>1. n + 1 \in 1 .. Len(longer)
    BY <1>1
  <2> HIDE DEF n, longer
  <2>2. QED
    BY <1>1, <1>5, <2>1 DEF Hashing
<1>8. QED
  BY <1>2, <1>3, <1>5, <1>6, <1>7

(* No characters, no letters and the seed.                                 *)
LEMMA NoName == Names!Letters(<<>>) = <<>> /\ Id(<<>>) = Names!Seed
<1>1. <<>> \in Seq(Nat) /\ Len(<<>>) = 0
  OBVIOUS
<1>2. Names!Letters(<<>>) = <<>>
  <2>1. PICK f : /\ IsFold(f, Len(<<>>), Seq(Nat), <<>>, Spelling(<<>>))
                 /\ Names!Letters(<<>>) = f[Len(<<>>)]
    BY <1>1, LettersFold
  <2>2. QED
    BY <1>1, <2>1 DEF IsFold
<1>3. Id(<<>>) = Names!Seed
  <2>1. PICK f : /\ IsFold(f, Len(<<>>), Names!Ids, Names!Seed, Hashing(<<>>))
                 /\ Id(<<>>) = f[Len(<<>>)]
    BY <1>1, IdFold
  <2>2. QED
    BY <1>1, <2>1 DEF IsFold
<1>4. QED
  BY <1>2, <1>3
-----------------------------------------------------------------------------
(* What the loops have made of the name.                                   *)

(* How many of n characters loop l has gone over when loop "at" is at k.   *)
Come(l, at, k, n) == IF at < l THEN 0 ELSE IF at > l THEN n ELSE k - 1

(* These characters.                                                       *)
Gone(l) == SubSeq(word, 1, Come(l, loop, char, Len(word)))

NamesShape ==
  /\ word \in Words
  /\ loop \in 1 .. 5 /\ char \in 1 .. Len(word) + 1
  /\ mixed \in Seq(Nat) /\ upper \in Seq(Nat)

MixedSoFar == Names!Letters(mixed) = Names!Letters(Gone(1))
UpperSoFar == Names!Letters(upper) = Names!Letters(Gone(2))
HashSoFar  == hash = Id(Gone(3))
RvSoFar    == rv = Id(Gone(4))

(* Each loop's result is that of the characters it has gone over.          *)
NamesInv == NamesShape /\ MixedSoFar /\ UpperSoFar /\ HashSoFar /\ RvSoFar

(* A word is a sequence of codes.                                          *)
LEMMA WordSeq ==
  ASSUME NEW w \in Words
  PROVE  w \in Seq(Nat) /\ Len(w) \in Nat /\ Len(w) > 0
<1>1. w \in Seq(1 .. 127) /\ w # <<>>
  BY PluginAssumption
<1>2. Len(w) \in Nat /\ Len(w) # 0
  BY <1>1, EmptySeq, LenProperties
<1>3. 1 .. 127 \subseteq Nat
  OBVIOUS
<1>4. w \in Seq(Nat)
  BY <1>1, <1>3, SeqMonotonic
<1>5. QED
  BY <1>2, <1>4

(* The characters before a position, and the one at it.                    *)
LEMMA PrefixLonger ==
  ASSUME NEW w \in Seq(Nat), NEW k \in 1 .. Len(w)
  PROVE  /\ SubSeq(w, 1, k - 1) \in Seq(Nat) /\ w[k] \in Nat
         /\ SubSeq(w, 1, k) = Append(SubSeq(w, 1, k - 1), w[k])
<1>1. /\ Len(w) \in Nat /\ 1 \in 1 .. Len(w) /\ k \in 1 .. Len(w)
      /\ \A j \in 1 .. k - 1 : w[j] \in Nat
      /\ k - 1 \in Int /\ 1 \in Int /\ w[k] \in Nat
  BY LenProperties
<1>2. SubSeq(w, 1, k - 1) \in Seq(Nat)
  BY <1>1, SubSeqProperties
<1>3. SubSeq(w, 1, k) = SubSeq(w, 1, k - 1) \o <<w[k]>>
  BY <1>1, SubSeqRecursiveSecond
<1>4. QED
  BY <1>1, <1>2, <1>3, AppendIsConcat

(* No characters, and all of them.                                         *)
LEMMA PrefixEnds ==
  ASSUME NEW w \in Seq(Nat)
  PROVE  SubSeq(w, 1, 0) = <<>> /\ SubSeq(w, 1, Len(w)) = w
BY SubSeqEmpty, SubSeqFull

(* The index of a loop is its place in Loops.                              *)
LEMMA WhichLoop ==
  ASSUME loop \in 1 .. 5
  PROVE  /\ Names!InLoop("MixedLower") => loop = 1
         /\ Names!InLoop("ToAllUpperCase") => loop = 2
         /\ Names!InLoop("Hash") => loop = 3
         /\ Names!InLoop("Hashing.hash") => loop = 4
         /\ Names!Done <=> loop = 5
<1>1. Len(Names!Loops) = 4
  BY DEF Names!Loops
<1>2. Names!Done <=> loop = 5
  BY <1>1 DEF Names!Done
<1>3. /\ Names!Loops[1] = "MixedLower" /\ Names!Loops[2] = "ToAllUpperCase"
      /\ Names!Loops[3] = "Hash" /\ Names!Loops[4] = "Hashing.hash"
  BY DEF Names!Loops
<1>4. loop = 1 \/ loop = 2 \/ loop = 3 \/ loop = 4 \/ Names!Done
  BY <1>2
<1>5. QED
  BY <1>2, <1>3, <1>4 DEF Names!InLoop

(* A step of a loop goes over one character.                               *)
LEMMA GoneLonger ==
  ASSUME NamesShape, loop \in 1 .. 4, char <= Len(word),
         char' = char + 1, UNCHANGED <<word, loop>>
  PROVE  /\ char' \in 1 .. Len(word) + 1
         /\ Gone(loop) \in Seq(Nat) /\ word[char] \in Nat
         /\ Gone(loop)' = Append(Gone(loop), word[char])
         /\ \A l \in 1 .. 4 : l # loop => Gone(l)' = Gone(l)
<1>1. word \in Seq(Nat) /\ Len(word) \in Nat /\ char \in 1 .. Len(word)
  BY WordSeq DEF NamesShape
<1>2. Gone(loop) = SubSeq(word, 1, char - 1)
  <2>1. Come(loop, loop, char, Len(word)) = char - 1
    BY DEF Come
  <2>2. QED
    BY <2>1 DEF Gone
<1>3. Gone(loop)' = SubSeq(word, 1, char)
  <2>1. (char + 1) - 1 = char
    BY <1>1
  <2>2. QED
    BY <2>1 DEF Gone, Come
<1>4. \A l \in 1 .. 4 : l # loop => Gone(l)' = Gone(l)
  BY DEF Gone, Come
<1>5. char' \in 1 .. Len(word) + 1
  BY <1>1
<1>6. QED
  BY <1>1, <1>2, <1>3, <1>4, <1>5, PrefixLonger

(* The next loop starts where this one has been over everything.           *)
LEMMA GoneSame ==
  ASSUME NamesShape, loop \in 1 .. 4, char > Len(word),
         loop' = loop + 1, char' = 1, UNCHANGED word
  PROVE  /\ char' \in 1 .. Len(word) + 1
         /\ \A l \in 1 .. 4 : Gone(l)' = Gone(l)
<1>1. Len(word) \in Nat /\ char = Len(word) + 1
  BY WordSeq DEF NamesShape
<1>2. ASSUME NEW l \in 1 .. 4
      PROVE  Come(l, loop + 1, 1, Len(word)) = Come(l, loop, char, Len(word))
  BY <1>1 DEF Come
<1>3. \A l \in 1 .. 4 : Gone(l)' = Gone(l)
  <2> SUFFICES ASSUME NEW l \in 1 .. 4 PROVE Gone(l)' = Gone(l)
    OBVIOUS
  <2>1. Gone(l)' = SubSeq(word, 1, Come(l, loop + 1, 1, Len(word)))
    BY DEF Gone
  <2>2. QED
    BY <1>2, <2>1 DEF Gone
<1>4. char' \in 1 .. Len(word) + 1
  BY <1>1
<1>5. QED
  BY <1>3, <1>4

(* The first character is gone over at once.                               *)
LEMMA NamesStart ==
  ASSUME NEW w \in Words, Names!Start(w)
  PROVE  NamesInv
<1> DEFINE c == w[1]
           none == <<>>
<1>1. /\ w \in Seq(Nat) /\ Len(w) \in Nat /\ Len(w) > 0 /\ c \in Nat
      /\ none \in Seq(Nat)
  BY WordSeq, LenProperties
<1>2. /\ word = w /\ loop = 1 /\ char = 2 /\ mixed = <<Names!tolower(c)>>
      /\ upper = none /\ hash = Names!Seed /\ rv = Names!Seed
  BY DEF Names!Start
<1>3. mixed = Append(none, Names!tolower(c)) /\ Names!tolower(c) \in Nat
  <2>1. mixed = Append(none, Names!tolower(c))
    BY <1>2
  <2> HIDE DEF c
  <2>2. Names!tolower(c) \in Nat
    BY <1>1, LowerNat
  <2>3. QED
    BY <2>1, <2>2
<1>4. NamesShape
  BY <1>1, <1>2, <1>3 DEF NamesShape
<1>5. Gone(1) = Append(none, c)
  <2>1. Gone(1) = SubSeq(w, 1, 1)
    BY <1>2 DEF Gone, Come
  <2>2. 1 \in 1 .. Len(w) /\ 1 - 1 = 0
    BY <1>1
  <2>3. SubSeq(w, 1, 1) = Append(SubSeq(w, 1, 1 - 1), c)
    BY <1>1, <2>2, PrefixLonger
  <2>4. QED
    BY <1>1, <2>1, <2>2, <2>3, PrefixEnds
<1>6. Gone(2) = none /\ Gone(3) = none /\ Gone(4) = none
  <2>1. Gone(2) = SubSeq(w, 1, 0) /\ Gone(3) = SubSeq(w, 1, 0)
        /\ Gone(4) = SubSeq(w, 1, 0)
    BY <1>2 DEF Gone, Come
  <2>2. QED
    BY <1>1, <2>1, PrefixEnds
<1>7. MixedSoFar
  <2> HIDE DEF c, none
  <2>1. Names!Letters(Append(none, Names!tolower(c))) = Names!Letters(Append(none, c))
    BY <1>1, <1>3, LettersKept
  <2>2. QED
    BY <1>3, <1>5, <2>1 DEF MixedSoFar
<1>8. UpperSoFar
  BY <1>2, <1>6 DEF UpperSoFar
<1>9. HashSoFar /\ RvSoFar
  BY <1>2, <1>6, NoName DEF HashSoFar, RvSoFar
<1>10. QED
  BY <1>4, <1>7, <1>8, <1>9 DEF NamesInv

(* A step of MixedLower keeps the letter.                                  *)
LEMMA MixedLowerInv ==
  ASSUME NamesInv, Names!MixedLower
  PROVE  NamesInv'
<1>1. loop = 1 /\ char <= Len(word)
  BY WhichLoop DEF Names!MixedLower, Names!InLoop, NamesInv, NamesShape
<1>2. char' = char + 1 /\ UNCHANGED <<word, loop, upper, hash, rv>>
  BY DEF Names!MixedLower
<1>3. /\ char' \in 1 .. Len(word) + 1
      /\ Gone(1) \in Seq(Nat) /\ word[char] \in Nat
      /\ Gone(1)' = Append(Gone(1), word[char])
      /\ Gone(2)' = Gone(2) /\ Gone(3)' = Gone(3) /\ Gone(4)' = Gone(4)
  BY <1>1, <1>2, GoneLonger DEF NamesInv
<1>4. mixed' \in Seq(Nat) /\ MixedSoFar'
  <2>1. mixed \in Seq(Nat) /\ Names!Letters(mixed) = Names!Letters(Gone(1))
    BY DEF NamesInv, NamesShape, MixedSoFar
  <2>2. CASE word[char] = Names!Underscore /\ mixed' = mixed
    <3>1. Names!Letters(Gone(1)') = Names!Letters(Gone(1))
      BY <1>3, <2>2, LettersAppend
    <3>2. QED
      BY <2>1, <2>2, <3>1 DEF MixedSoFar
  <2>3. ASSUME NEW d \in {word[char], Names!toupper(word[char])},
               mixed' = Append(mixed, d)
        PROVE  mixed' \in Seq(Nat) /\ MixedSoFar'
    <3>1. d \in Nat
      BY <1>3, <2>3, LowerNat
    <3>2. Names!Letters(Append(mixed, d)) = Names!Letters(Append(Gone(1), word[char]))
      BY <1>3, <2>1, <3>1, LettersKept
    <3>3. QED
      BY <1>3, <2>1, <2>3, <3>1, <3>2, AppendProperties DEF MixedSoFar
  <2>4. QED
    BY <2>2, <2>3 DEF Names!MixedLower
<1>5. NamesShape'
  BY <1>2, <1>3, <1>4 DEF NamesInv, NamesShape
<1>6. UpperSoFar' /\ HashSoFar' /\ RvSoFar'
  BY <1>2, <1>3 DEF NamesInv, UpperSoFar, HashSoFar, RvSoFar
<1>7. QED
  BY <1>4, <1>5, <1>6 DEF NamesInv

(* A step of ToAllUpperCase keeps the letter, and an underscore is none.   *)
LEMMA ToAllUpperCaseInv ==
  ASSUME NamesInv, Names!ToAllUpperCase
  PROVE  NamesInv'
<1> DEFINE d == Names!toupper(word[char])
           more == Append(upper, d)
<1>1. loop = 2 /\ char <= Len(word)
  BY WhichLoop DEF Names!ToAllUpperCase, Names!InLoop, NamesInv, NamesShape
<1>2. char' = char + 1 /\ UNCHANGED <<word, loop, mixed, hash, rv>>
  BY DEF Names!ToAllUpperCase
<1>3. /\ char' \in 1 .. Len(word) + 1
      /\ Gone(2) \in Seq(Nat) /\ word[char] \in Nat
      /\ Gone(2)' = Append(Gone(2), word[char])
      /\ Gone(1)' = Gone(1) /\ Gone(3)' = Gone(3) /\ Gone(4)' = Gone(4)
  BY <1>1, <1>2, GoneLonger DEF NamesInv
<1>4. /\ more \in Seq(Nat)
      /\ Names!Letters(more) = Names!Letters(Append(Gone(2), word[char]))
  <2>1. upper \in Seq(Nat) /\ Names!Letters(upper) = Names!Letters(Gone(2))
    BY DEF NamesInv, NamesShape, UpperSoFar
  <2>2. d \in Nat
    BY <1>3, LowerNat
  <2>3. Names!Letters(Append(upper, d)) = Names!Letters(Append(Gone(2), word[char]))
    BY <1>3, <2>1, <2>2, LettersKept
  <2>4. QED
    BY <2>1, <2>2, <2>3, AppendProperties
<1> HIDE DEF more
<1>5. upper' = more \/ upper' = Append(more, Names!Underscore)
  <2>1. upper' = more \o <<Names!Underscore>> \/ upper' = more \o <<>>
    BY DEF Names!ToAllUpperCase, more
  <2>2. more \o <<>> = more
    BY <1>4, ConcatEmptySeq
  <2>3. Names!Underscore \in Nat
    BY DEF Names!Underscore
  <2>4. more \o <<Names!Underscore>> = Append(more, Names!Underscore)
    BY <1>4, <2>3, AppendIsConcat
  <2>5. QED
    BY <2>1, <2>2, <2>4
<1>6. upper' \in Seq(Nat) /\ Names!Letters(upper') = Names!Letters(more)
  <2>1. Names!Underscore \in Nat
    BY DEF Names!Underscore
  <2>2. /\ Append(more, Names!Underscore) \in Seq(Nat)
        /\ Names!Letters(Append(more, Names!Underscore)) = Names!Letters(more)
    BY <1>4, <2>1, LettersAppend, AppendProperties
  <2>3. QED
    BY <1>4, <1>5, <2>2
<1>7. NamesShape'
  BY <1>2, <1>3, <1>6 DEF NamesInv, NamesShape
<1>8. UpperSoFar'
  BY <1>3, <1>4, <1>6 DEF UpperSoFar
<1>9. MixedSoFar' /\ HashSoFar' /\ RvSoFar'
  BY <1>2, <1>3 DEF NamesInv, MixedSoFar, HashSoFar, RvSoFar
<1>10. QED
  BY <1>7, <1>8, <1>9 DEF NamesInv

(* A step of the generator's hash.                                         *)
LEMMA HashInv ==
  ASSUME NamesInv, Names!Hash
  PROVE  NamesInv'
<1>1. loop = 3 /\ char <= Len(word)
  BY WhichLoop DEF Names!Hash, Names!InLoop, NamesInv, NamesShape
<1>2. /\ char' = char + 1 /\ UNCHANGED <<word, loop, mixed, upper, rv>>
      /\ hash' = Names!HashStep(hash, word[char])
  BY DEF Names!Hash
<1>3. /\ char' \in 1 .. Len(word) + 1
      /\ Gone(3) \in Seq(Nat) /\ word[char] \in Nat
      /\ Gone(3)' = Append(Gone(3), word[char])
      /\ Gone(1)' = Gone(1) /\ Gone(2)' = Gone(2) /\ Gone(4)' = Gone(4)
  BY <1>1, <1>2, GoneLonger DEF NamesInv
<1>4. HashSoFar'
  <2>1. Id(Append(Gone(3), word[char])) = Names!HashStep(Id(Gone(3)), word[char])
    BY <1>3, IdAppend
  <2>2. QED
    BY <1>2, <1>3, <2>1 DEF NamesInv, HashSoFar
<1>5. NamesShape'
  BY <1>2, <1>3 DEF NamesInv, NamesShape
<1>6. MixedSoFar' /\ UpperSoFar' /\ RvSoFar'
  BY <1>2, <1>3 DEF NamesInv, MixedSoFar, UpperSoFar, RvSoFar
<1>7. QED
  BY <1>4, <1>5, <1>6 DEF NamesInv

(* A step of the library's.                                                *)
LEMMA JavaHashInv ==
  ASSUME NamesInv, Names!JavaHash
  PROVE  NamesInv'
<1>1. loop = 4 /\ char <= Len(word)
  BY WhichLoop DEF Names!JavaHash, Names!InLoop, NamesInv, NamesShape
<1>2. /\ char' = char + 1 /\ UNCHANGED <<word, loop, mixed, upper, hash>>
      /\ rv' = Names!HashStep(rv, word[char])
  BY DEF Names!JavaHash, Names!HashStep
<1>3. /\ char' \in 1 .. Len(word) + 1
      /\ Gone(4) \in Seq(Nat) /\ word[char] \in Nat
      /\ Gone(4)' = Append(Gone(4), word[char])
      /\ Gone(1)' = Gone(1) /\ Gone(2)' = Gone(2) /\ Gone(3)' = Gone(3)
  BY <1>1, <1>2, GoneLonger DEF NamesInv
<1>4. RvSoFar'
  <2>1. Id(Append(Gone(4), word[char])) = Names!HashStep(Id(Gone(4)), word[char])
    BY <1>3, IdAppend
  <2>2. QED
    BY <1>2, <1>3, <2>1 DEF NamesInv, RvSoFar
<1>5. NamesShape'
  BY <1>2, <1>3 DEF NamesInv, NamesShape
<1>6. MixedSoFar' /\ UpperSoFar' /\ HashSoFar'
  BY <1>2, <1>3 DEF NamesInv, MixedSoFar, UpperSoFar, HashSoFar
<1>7. QED
  BY <1>4, <1>5, <1>6 DEF NamesInv

(* From one loop to the next.                                              *)
LEMMA NextLoopInv ==
  ASSUME NamesInv, Names!NextLoop
  PROVE  NamesInv'
<1>1. loop \in 1 .. 5 /\ loop # 5 /\ char > Len(word)
  BY WhichLoop DEF Names!NextLoop, NamesInv, NamesShape
<1>2. loop' = loop + 1 /\ char' = 1 /\ UNCHANGED <<word, mixed, upper, hash, rv>>
  BY DEF Names!NextLoop
<1>3. loop \in 1 .. 4 /\ loop' \in 1 .. 5
  BY <1>1, <1>2
<1>4. /\ char' \in 1 .. Len(word) + 1
      /\ Gone(1)' = Gone(1) /\ Gone(2)' = Gone(2)
      /\ Gone(3)' = Gone(3) /\ Gone(4)' = Gone(4)
  BY <1>1, <1>2, <1>3, GoneSame DEF NamesInv
<1>5. NamesShape'
  BY <1>2, <1>3, <1>4 DEF NamesInv, NamesShape
<1>6. MixedSoFar' /\ UpperSoFar' /\ HashSoFar' /\ RvSoFar'
  BY <1>2, <1>4 DEF NamesInv, MixedSoFar, UpperSoFar, HashSoFar, RvSoFar
<1>7. QED
  BY <1>5, <1>6 DEF NamesInv

(* Every step.                                                             *)
LEMMA NamesNext == NamesInv /\ [Names!Next]_nameVars => NamesInv'
<1>1. NamesInv /\ UNCHANGED nameVars => NamesInv'
  BY DEF nameVars, NamesInv, NamesShape, MixedSoFar, UpperSoFar, HashSoFar,
         RvSoFar, Gone
<1>2. QED
  BY <1>1, MixedLowerInv, ToAllUpperCaseInv, HashInv, JavaHashInv, NextLoopInv
     DEF Names!Next

(* At the end the results are those of the whole name.                     *)
LEMMA NamesEnd ==
  ASSUME NamesInv, Names!Done
  PROVE  /\ Names!Letters(mixed) = Names!Letters(word)
         /\ Names!Letters(upper) = Names!Letters(word)
         /\ hash = Id(word) /\ rv = Id(word) /\ hash \in Names!Ids
<1>1. loop = 5 /\ word \in Seq(Nat)
  BY WhichLoop, WordSeq DEF NamesInv, NamesShape
<1>2. Gone(1) = word /\ Gone(2) = word /\ Gone(3) = word /\ Gone(4) = word
  BY <1>1, PrefixEnds DEF Gone, Come
<1>3. Id(word) \in Names!Ids
  <2>1. 1 \in Nat
    OBVIOUS
  <2>2. QED
    BY <1>1, <2>1, IdAppend
<1>4. QED
  BY <1>2, <1>3 DEF NamesInv, MixedSoFar, UpperSoFar, HashSoFar, RvSoFar
-----------------------------------------------------------------------------
(* Keys.                                                                   *)

(* Or with nothing changes nothing.                                        *)
LEMMA OrZero ==
  ASSUME NEW a \in Nat
  PROVE  Names!Or(a, 0) = a /\ Names!Or(0, a) = a
<1>1. /\ 0 \div 1 = 0 /\ 0 \div 2 = 0 /\ 0 \div 4 = 0 /\ 0 \div 8 = 0
      /\ 0 \div 16 = 0 /\ 0 \div 32 = 0 /\ 0 \div 64 = 0 /\ 0 \div 128 = 0
      /\ 0 \div 256 = 0 /\ 0 \div 512 = 0 /\ 0 \div 1024 = 0
      /\ 0 \div 2048 = 0 /\ 0 \div 4096 = 0 /\ 0 \div 8192 = 0
      /\ 0 \div 16384 = 0 /\ 0 \div 32768 = 0 /\ 0 % 2 = 0
  OBVIOUS
<1>2. Names!And(a, 0) = 0
  BY <1>1 DEF Names!And
<1>3. Names!And(0, a) = 0
  BY <1>1 DEF Names!And
<1>4. QED
  BY <1>2, <1>3 DEF Names!Or

(* The lower half of a long.                                               *)
LEMMA LowerHalf ==
  ASSUME NEW u, NEW v, NEW w, NEW x
  PROVE  SubSeq(<<u, v, w, x>>, 3, 4) = <<w, x>>
<1> DEFINE S == {u, v, w, x}
           long == <<u, v, w, x>>
           half == SubSeq(long, 3, 4)
<1>1. /\ long[3] = w /\ long[4] = x /\ \A k \in 3 .. 4 : long[k] \in S
      /\ 3 \in Int /\ 4 \in Int
  OBVIOUS
<1> HIDE DEF long
<1>2. /\ half \in Seq(S)
      /\ Len(half) = IF 3 <= 4 THEN 4 - 3 + 1 ELSE 0
      /\ \A k \in 1 .. 4 - 3 + 1 : half[k] = long[3 + k - 1]
  <2> HIDE DEF S
  <2>1. QED
    BY <1>1, SubSeqProperties
<1>3. Len(half) = 2 /\ half[1] = w /\ half[2] = x
  BY <1>1, <1>2
<1> HIDE DEF half
<1>4. half = <<w, x>>
  BY <1>2, <1>3
<1>5. QED
  BY <1>4 DEF half, long

(* Two halves make a long.                                                 *)
LEMMA TwoHalves ==
  ASSUME NEW u, NEW v, NEW w, NEW x
  PROVE  <<u, v>> \o <<w, x>> = <<u, v, w, x>>
<1> DEFINE S == {u, v, w, x}
           a == <<u, v>>
           b == <<w, x>>
           long == <<u, v, w, x>>
<1>1. /\ a \in Seq(S) /\ b \in Seq(S) /\ Len(a) = 2 /\ Len(b) = 2
      /\ a[1] = u /\ a[2] = v /\ b[1] = w /\ b[2] = x
  OBVIOUS
<1>2. /\ long \in Seq(S) /\ Len(long) = 4
      /\ long[1] = u /\ long[2] = v /\ long[3] = w /\ long[4] = x
  OBVIOUS
<1> HIDE DEF S, a, b, long
<1>3. /\ a \o b \in Seq(S) /\ Len(a \o b) = 4
      /\ \A k \in 1 .. 4 : (a \o b)[k] = IF k <= 2 THEN a[k] ELSE b[k - 2]
  <2>1. /\ a \o b \in Seq(S) /\ Len(a \o b) = Len(a) + Len(b)
        /\ \A k \in 1 .. Len(a) + Len(b) :
             (a \o b)[k] = IF k <= Len(a) THEN a[k] ELSE b[k - Len(a)]
    BY <1>1, ConcatProperties
  <2>2. QED
    BY <1>1, <2>1
<1>4. \A k \in 1 .. 4 : (a \o b)[k] = long[k]
  BY <1>1, <1>2, <1>3
<1>5. a \o b = long
  BY <1>2, <1>3, <1>4, SeqEqual
<1>6. QED
  BY <1>5 DEF a, b, long

(* The quarters of an id, and of a key.                                    *)
LEMMA KeyParts ==
  ASSUME NEW a \in Names!Ids, NEW b \in Names!Ids
  PROVE  /\ Names!compoundKey(a, b)[1] = a.hi
         /\ Names!compoundKey(a, b)[2] = a.lo
         /\ Names!compoundKey(a, b)[3] = b.hi
         /\ Names!compoundKey(a, b)[4] = b.lo
<1>1. a.hi \in Nat /\ a.lo \in Nat /\ b.hi \in Nat /\ b.lo \in Nat
  BY IdParts
<1>2. ASSUME NEW id \in Names!Ids
      PROVE  SubSeq(Names!Extended(id), 3, 4) = <<id.hi, id.lo>>
  BY LowerHalf DEF Names!Extended
<1>3. Names!Shifted(a) = <<a.hi, a.lo, 0, 0>>
  BY <1>2, TwoHalves DEF Names!Shifted
<1>4. Names!LowInt(b) = <<0, 0, b.hi, b.lo>>
  BY <1>2, TwoHalves DEF Names!LowInt
<1>5. /\ Names!compoundKey(a, b)[1] = Names!Or(a.hi, 0)
      /\ Names!compoundKey(a, b)[2] = Names!Or(a.lo, 0)
      /\ Names!compoundKey(a, b)[3] = Names!Or(0, b.hi)
      /\ Names!compoundKey(a, b)[4] = Names!Or(0, b.lo)
  BY <1>3, <1>4 DEF Names!compoundKey
<1>6. QED
  BY <1>1, <1>5, OrZero

(* A key tells both ids.                                                   *)
LEMMA KeyTellsIds ==
  ASSUME NEW a \in Names!Ids, NEW b \in Names!Ids,
         NEW c \in Names!Ids, NEW d \in Names!Ids,
         Names!compoundKey(a, b) = Names!compoundKey(c, d)
  PROVE  a = c /\ b = d
<1>1. a.hi = c.hi /\ a.lo = c.lo /\ b.hi = d.hi /\ b.lo = d.lo
  BY KeyParts
<1>2. QED
  BY <1>1, IdParts

(* There are finitely many ids.                                            *)
LEMMA IdsFinite == IsFiniteSet(Names!Ids)
<1> DEFINE half == 0 .. Names!Half - 1
           f == [h \in Names!Ids |-> <<h.hi, h.lo>>]
<1>1. IsFiniteSet(half)
  BY HalfNat, FS_Interval
<1>2. IsFiniteSet(half \X half)
  BY <1>1, FS_Product
<1>3. f \in Injection(Names!Ids, half \X half)
  <2>1. f \in [Names!Ids -> half \X half]
    BY DEF Names!Ids
  <2>2. \A a, b \in Names!Ids : f[a] = f[b] => a = b
    BY IdParts
  <2>3. QED
    BY <2>1, <2>2 DEF Injection, IsInjective
<1>4. QED
  BY <1>2, <1>3, FS_Injection

(* As many keys as pairs of ids.                                           *)
LEMMA KeysCounted ==
  ASSUME NEW ids, ids \subseteq Names!Ids
  PROVE  Names!Cardinality(Names!Keys(ids)) = Names!Cardinality(ids \X ids)
<1> DEFINE pairs == ids \X ids
           keys == Names!Keys(ids)
           f == [pair \in pairs |-> Names!compoundKey(pair[1], pair[2])]
<1>1. IsFiniteSet(pairs)
  BY IdsFinite, FS_Subset, FS_Product
<1>2. f \in [pairs -> keys]
  BY DEF Names!Keys
<1>3. \A p1, p2 \in pairs : f[p1] = f[p2] => p1 = p2
  <2> SUFFICES ASSUME NEW p1 \in pairs, NEW p2 \in pairs, f[p1] = f[p2]
               PROVE  p1 = p2
    OBVIOUS
  <2>1. p1[1] = p2[1] /\ p1[2] = p2[2]
    BY KeyTellsIds
  <2>2. QED
    BY <2>1
<1>4. \A key \in keys : \E pair \in pairs : f[pair] = key
  <2> SUFFICES ASSUME NEW a \in ids, NEW b \in ids
               PROVE  \E pair \in pairs : f[pair] = Names!compoundKey(a, b)
    BY DEF Names!Keys
  <2>1. <<a, b>> \in pairs /\ f[<<a, b>>] = Names!compoundKey(a, b)
    OBVIOUS
  <2>2. QED
    BY <2>1
<1>5. f \in Bijection(pairs, keys)
  BY <1>2, <1>3, <1>4 DEF Bijection, Injection, Surjection, IsInjective
<1>6. Cardinality(keys) = Cardinality(pairs)
  BY <1>1, <1>5, FS_Bijection DEF ExistsBijection
<1>7. \A S : Names!Cardinality(S) = Cardinality(S)
  BY DEF Names!Cardinality, Cardinality
<1>8. QED
  BY <1>6, <1>7
-----------------------------------------------------------------------------
(* The parts of a run.                                                     *)

(* A step of the run is a step of one part, and the others wait.           *)
LEMMA RunStep ==
  ASSUME [RunNext]_<<vars, nameVars, pluginVars>>
  PROVE  [Next]_vars /\ [Names!Next]_nameVars /\ [Plugin!Next]_pluginVars
BY DEF RunNext, ParseOptions, PrintDocComment, DeriveNames, PrintFiles

(* The parts of a run start as they do alone.                              *)
LEMMA RunStart ==
  ASSUME RunInit
  PROVE  Init /\ Names!Init /\ Plugin!Init
<1>1. PICK f \in Files :
        /\ Start(GetCommentsForDescriptor(f.located, f.leading, f.trailing), f.preTag)
        /\ Names!Start(f.word)
        /\ Plugin!Start(f.package, f.services, f.parameter)
  BY DEF RunInit
<1>2. /\ f.located \in BOOLEAN /\ f.preTag \in BOOLEAN
      /\ f.leading \in Comments /\ f.trailing \in Comments
  BY PluginAssumption
<1>3. Init
  BY <1>1, <1>2 DEF Init
<1>4. Names!Init
  BY <1>1, PluginAssumption DEF Names!Init
<1>5. Plugin!Init
  BY <1>1, PluginAssumption DEF Plugin!Init
<1>6. QED
  BY <1>3, <1>4, <1>5

(* Options are parsed and files printed in the run as JavaPlugin does it   *)
(* on its own: the doc comment and the names between them change nothing   *)
(* of it (java_plugin.cpp:22 to :71).                                      *)
THEOREM RunOfPlugin == RunSpec => Plugin!Spec
<1>1. [RunNext]_<<vars, nameVars, pluginVars>> => [Plugin!Next]_Plugin!vars
  BY RunStep DEF pluginVars, Plugin!vars
<1>2. QED
  BY <1>1, RunStart, PTL DEF RunSpec, Plugin!Spec

(* The comment is printed in the run as DocComment does it on its own      *)
(* (java_generator.cpp:111 to :300).                                       *)
THEOREM RunOfDocComment == RunSpec => Spec
BY RunStart, RunStep, PTL DEF RunSpec, Spec

(* The names are derived in the run as Identifiers does it on its own      *)
(* (java_generator.cpp:40 to :84).                                         *)
THEOREM RunOfNames == RunSpec => Names!Spec
<1>1. [RunNext]_<<vars, nameVars, pluginVars>> => [Names!Next]_Names!vars
  BY RunStep DEF nameVars, Names!vars
<1>2. QED
  BY <1>1, RunStart, PTL DEF RunSpec, Names!Spec

(* No comment ends the printed comment before its end in any run           *)
(* (java_generator.cpp:158 to :271).                                       *)
THEOREM RunClosesAtEnd == RunSpec => []ClosesAtEnd
BY RunOfDocComment, CommentClosesAtEnd, PTL

(* In any run a reader of the doc comment finds the lines of the comment   *)
(* (java_generator.cpp:111 to :271).                                       *)
THEOREM RunReadsBack ==
  ASSUME CharsAreNoEntities PROVE RunSpec => []ReadsBack
BY RunOfDocComment, AlwaysReadsBack, PTL

(* JavaPlugin's proofs are about the run's plugin.                         *)
LEMMA SamePlugin ==
  /\ Plugin!Init => Lists!Init
  /\ [Plugin!Next]_pluginVars => [Lists!Next]_Lists!vars
  /\ Lists!EveryClassFound => EveryClassFound
<1>1. Plugin!Init => Lists!Init
  BY DEF Plugin!Init, Lists!Init, Plugin!Start, Lists!Start,
         Plugin!ClassName, Lists!ClassName
<1>2. Plugin!Next <=> Lists!Next
  BY DEF Lists!Kinds, Plugin!Kinds, Lists!ParseOption, Plugin!ParseOption,
         Lists!Dots, Plugin!Dots, Lists!ServiceJavaPackage,
         Plugin!ServiceJavaPackage, Lists!JavaPackageToDir,
         Plugin!JavaPackageToDir, Lists!ClientClassName,
         Plugin!ClientClassName, Lists!ServerClassName,
         Plugin!ServerClassName, Lists!Generated, Plugin!Generated,
         Lists!GenerateInterface, Plugin!GenerateInterface,
         Lists!GenerateClient, Plugin!GenerateClient, Lists!GenerateServer,
         Plugin!GenerateServer, Lists!Printed, Plugin!Printed,
         Lists!FileName, Plugin!FileName, Lists!GenerateFile,
         Plugin!GenerateFile, Lists!Paths, Plugin!Paths, Lists!Accepts,
         Plugin!Accepts, Lists!Generate, Plugin!Generate, Lists!Next,
         Plugin!Next, Lists!IsInjective, Plugin!IsInjective
<1>3. [Plugin!Next]_pluginVars => [Lists!Next]_Lists!vars
  BY <1>2 DEF pluginVars, Lists!vars
<1>4. Lists!EveryClassFound => EveryClassFound
  BY DEF Lists!EveryClassFound, EveryClassFound, Plugin!EveryClassFound,
         Lists!Location, Plugin!Location, Lists!Range, Plugin!Range
<1>5. QED
  BY <1>1, <1>3, <1>4

(* For every .proto file, whatever its package, its services and the       *)
(* options: when protoc takes the files, javac finds each class where it   *)
(* looks for it; when it refuses them, one service is called like          *)
(* another's client or server (java_plugin.cpp:22 to :71).                 *)
THEOREM RunEveryClassFound ==
  ASSUME NEW Part, Lists!FilesOver(Part)
  PROVE  RunSpec => []EveryClassFound
<1>1. RunInit => Lists!Inv(Part)
  BY RunStart, SamePlugin, Lists!InitInv
<1>2. Lists!Inv(Part) /\ [RunNext]_<<vars, nameVars, pluginVars>> => Lists!Inv(Part)'
  BY RunStep, SamePlugin, Lists!NextInv
<1>3. Lists!Inv(Part) => EveryClassFound
  BY SamePlugin, Lists!InvMeans
<1>4. QED
  BY <1>1, <1>2, <1>3, PTL DEF RunSpec
-----------------------------------------------------------------------------
(* The names of a run.                                                     *)

(* Whatever the loops do, their results are those of the characters they   *)
(* have been over (java_generator.cpp:40 to :84, Hashing.java:25 to :40).  *)
THEOREM AlwaysNamesInv == RunSpec => []NamesInv
<1>1. RunInit => NamesInv
  <2>1. Names!Init => NamesInv
    BY NamesStart DEF Names!Init
  <2>2. QED
    BY <2>1, RunStart
<1>2. NamesInv /\ [RunNext]_<<vars, nameVars, pluginVars>> => NamesInv'
  BY RunStep, NamesNext
<1>3. QED
  BY <1>1, <1>2, PTL DEF RunSpec

(* However long a name is and wherever its underscores and capitals stand, *)
(* its Java name and its constant have all of its letters and digits, in   *)
(* order: two methods' collide only if the names differ in nothing but     *)
(* case and underscores (java_generator.cpp:50 and :69).                   *)
THEOREM AlwaysNamesKeepLetters == RunSpec => []NamesKeepLetters
<1>1. NamesInv => NamesKeepLetters
  BY NamesEnd DEF NamesKeepLetters, Names!NamesKeepLetters
<1>2. QED
  BY <1>1, AlwaysNamesInv, PTL

(* The generator and the library derive one id from a name of any length,  *)
(* its 32-bit FNV-1a hash (java_generator.cpp:40, Hashing.java:25).        *)
THEOREM AlwaysOneId == RunSpec => [](Names!Done => hash = Id(word) /\ rv = Id(word))
<1>1. NamesInv => (Names!Done => hash = Id(word) /\ rv = Id(word))
  BY NamesEnd
<1>2. QED
  BY <1>1, AlwaysNamesInv, PTL

(* The ids in the code that was generated before are the hashes of the     *)
(* names they were generated for.                                          *)
CommittedAreHashes ==
  \A w \in Words : w \in DOMAIN Committed => Committed[w] = Names!Signed(Id(w))

(* The library's id of a name is the generator's, and the one that stands  *)
(* in the code that was generated before (Hashing.java:25,                 *)
(* java_generator.cpp:40).                                                 *)
THEOREM AlwaysSameHash ==
  ASSUME CommittedAreHashes PROVE RunSpec => []SameHash
<1>1. NamesInv => SameHash
  <2> SUFFICES ASSUME NamesInv, Names!Done
               PROVE  /\ rv = hash
                      /\ word \in DOMAIN Committed =>
                           Names!Signed(hash) = Committed[word]
    BY DEF SameHash, Names!SameHash
  <2>1. hash = Id(word) /\ rv = Id(word) /\ word \in Words
    BY NamesEnd DEF NamesInv, NamesShape
  <2>2. QED
    BY <2>1 DEF CommittedAreHashes
<1>2. QED
  BY <1>1, AlwaysNamesInv, PTL

(* Whatever ids the services and their namespaces have, negative ones      *)
(* too, no two pairs of them have one key in the map (Hashing.java:57).    *)
THEOREM AlwaysKeysDiffer == RunSpec => []KeysDiffer
<1>1. NamesInv => KeysDiffer
  <2> SUFFICES ASSUME NamesInv, Names!Done PROVE Names!KeysDiffer
    BY DEF KeysDiffer, Names!KeysDiffer
  <2>1. Namespaces \cup {hash} \subseteq Names!Ids
    BY NamesEnd, PluginAssumption
  <2>2. QED
    BY <2>1, KeysCounted DEF Names!KeysDiffer
<1>2. QED
  BY <1>1, AlwaysNamesInv, PTL
=============================================================================
