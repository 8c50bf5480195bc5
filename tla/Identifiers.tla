---------------------------- MODULE Identifiers ----------------------------
(***************************************************************************)
(* What java_generator.cpp derives from a name of a .proto file: a Java    *)
(* name (MixedLower), the name of a constant (ToAllUpperCase) and a 32-bit *)
(* id (Hash), each by a loop over its characters; the same id as the Java  *)
(* library derives it (Hashing.hash(String)), and the key under which the  *)
(* library files two ids (Hashing.compoundKey).                            *)
(*                                                                         *)
(* Characters are their codes; names in .proto files are ASCII.  A 32-bit  *)
(* integer is its two halves, since TLC's integers have 32 bits and a      *)
(* product of two of them would overflow; a long is its four quarters.     *)
(***************************************************************************)
EXTENDS Integers, Sequences, FiniteSets

CONSTANTS Words,       \* the names: codes 1 to 127, and at least one
          Namespaces,  \* ids that a service's is paired with
          Committed    \* the ids of some names, in code generated earlier

Underscore == 95
Digits     == 48 .. 57
Uppers     == 65 .. 90
Lowers     == 97 .. 122

VARIABLES word,             \* the name
          at,               \* the loop that runs, an index of Loops
          i,                \* its position in the name
          after_underscore, \* MixedLower's flag
          mixed,            \* its result
          upper,            \* ToAllUpperCase's
          hash,             \* Hash's
          rv                \* Hashing.hash's

vars == <<word, at, i, after_underscore, mixed, upper, hash, rv>>

Loops == <<"MixedLower", "ToAllUpperCase", "Hash", "Hashing.hash">>
Done  == at > Len(Loops)

toupper(c) == IF c \in Lowers THEN c - 32 ELSE c
tolower(c) == IF c \in Uppers THEN c + 32 ELSE c

Half == 65536
Ids  == [hi : 0 .. Half - 1, lo : 0 .. Half - 1]
Prime == [hi |-> 256, lo |-> 403]        \* 0x01000193
Seed  == [hi |-> 33052, lo |-> 40389]    \* 0x811C9DC5

(* The low 32 bits of a product.                                           *)
Times(a, b) ==
  LET low == a.lo * b.lo
  IN  [hi |-> (a.hi * b.lo + a.lo * b.hi + low \div Half) % Half,
       lo |-> low % Half]

(* The bits of two halves that are set in both; p goes over the powers of  *)
(* two.                                                                    *)
And(a, b) ==
  LET Both(p) == p * ((a \div p) % 2) * ((b \div p) % 2)
  IN  Both(1) + Both(2) + Both(4) + Both(8)
        + Both(16) + Both(32) + Both(64) + Both(128)
        + Both(256) + Both(512) + Both(1024) + Both(2048)
        + Both(4096) + Both(8192) + Both(16384) + Both(32768)
Or(a, b)  == a + b - And(a, b)
Xor(a, b) == a + b - 2 * And(a, b)

XorChar(h, c) == [hi |-> h.hi, lo |-> Xor(h.lo, c)]

Signed(h) == (IF h.hi >= 32768 THEN h.hi - Half ELSE h.hi) * Half + h.lo

(* (long) of an id: the sign fills the upper half.                         *)
Extended(id) == LET sign == IF id.hi >= Half \div 2 THEN Half - 1 ELSE 0
                IN  <<sign, sign, id.hi, id.lo>>

Shifted(id)  == SubSeq(Extended(id), 3, 4) \o <<0, 0>>   \* << 32
LowInt(id)   == <<0, 0>> \o SubSeq(Extended(id), 3, 4)   \* & 0xFFFFFFFFL

compoundKey_Mutant(keyPartA, keyPartB) ==
  [q \in 1 .. 4 |-> Or(Shifted(keyPartA)[q], Extended(keyPartB)[q])]

compoundKey(keyPartA, keyPartB) ==
  [q \in 1 .. 4 |-> Or(Shifted(keyPartA)[q], LowInt(keyPartB)[q])]

Start(name) == /\ word = name
               /\ at = 1 /\ i = 2
               /\ after_underscore = FALSE
               /\ mixed = <<tolower(word[1])>>
               /\ upper = <<>>
               /\ hash = Seed /\ rv = Seed

Init == \E name \in Words : Start(name)
-----------------------------------------------------------------------------
InLoop(loop) == ~Done /\ Loops[at] = loop /\ i <= Len(word)

NextLoop == /\ ~Done /\ i > Len(word)
            /\ at' = at + 1 /\ i' = 1
            /\ UNCHANGED <<word, after_underscore, mixed, upper, hash, rv>>

(* The letter behind an underscore, which itself is left out.              *)
MixedLower_Mutant ==
  /\ InLoop("MixedLower")
  /\ after_underscore' = (word[i] = Underscore)
  /\ mixed' = IF word[i] = Underscore \/ (after_underscore /\ word[i] \in Digits)
              THEN mixed
              ELSE Append(mixed, IF after_underscore THEN toupper(word[i])
                                 ELSE word[i])
  /\ i' = i + 1
  /\ UNCHANGED <<word, at, upper, hash, rv>>
MixedLower ==
  /\ InLoop("MixedLower")
  /\ \/ /\ word[i] = Underscore
        /\ after_underscore' = TRUE
        /\ UNCHANGED mixed
     \/ /\ word[i] # Underscore
        /\ after_underscore' = FALSE
        /\ mixed' = Append(mixed, IF after_underscore THEN toupper(word[i])
                                  ELSE word[i])
  /\ i' = i + 1
  /\ UNCHANGED <<word, at, upper, hash, rv>>

(* Between two words of a name in camel case.                              *)
Boundary(k) ==
  k < Len(word) /\ word[k] \in Lowers /\ word[k + 1] \in Uppers

ToAllUpperCase ==
  /\ InLoop("ToAllUpperCase")
  /\ upper' = Append(upper, toupper(word[i]))
                \o IF Boundary(i) THEN <<Underscore>> ELSE <<>>
  /\ i' = i + 1
  /\ UNCHANGED <<word, at, after_underscore, mixed, hash, rv>>

HashStep_Mutant(h, c) == XorChar(Times(h, Prime), c)
HashStep(h, c) == Times(XorChar(h, c), Prime)

(* Up to the terminator of c_str().                                        *)
Hash ==
  /\ InLoop("Hash")
  /\ hash' = HashStep(hash, word[i])
  /\ i' = i + 1
  /\ UNCHANGED <<word, at, after_underscore, mixed, upper, rv>>

JavaHash ==
  /\ InLoop("Hashing.hash")
  /\ rv' = Times(XorChar(rv, word[i]), Prime)
  /\ i' = i + 1
  /\ UNCHANGED <<word, at, after_underscore, mixed, upper, hash>>

Next == MixedLower \/ ToAllUpperCase \/ Hash \/ JavaHash \/ NextLoop

Spec == Init /\ [][Next]_vars
-----------------------------------------------------------------------------
(* Properties.                                                             *)

(* A name without its underscores and without case.                        *)
Letters(name) ==
  LET Prefix[n \in 0 .. Len(name)] ==
        IF n = 0 THEN <<>>
        ELSE IF name[n] = Underscore THEN Prefix[n - 1]
        ELSE Append(Prefix[n - 1], tolower(name[n]))
  IN  Prefix[Len(name)]

(* Two methods collide in Java, in their names or in their constants, only *)
(* if their names differ in nothing but case and underscores: both         *)
(* conversions keep every letter and digit (java_generator.cpp:54, :71).   *)
NamesKeepLetters ==
  Done => Letters(mixed) = Letters(word) /\ Letters(upper) = Letters(word)

(* The library's hash of a name is the id the generator prints for it, so  *)
(* that a service written by hand can name its ids, and the id that stands *)
(* in the code that was generated before (Hashing.java:25,                 *)
(* java_generator.cpp:40).                                                 *)
SameHash ==
  Done => /\ rv = hash
          /\ word \in DOMAIN Committed => Signed(hash) = Committed[word]

Keys(ids) == {compoundKey(a, b) : a, b \in ids}

(* Two pairs of a namespace and a service never have one key in the map,   *)
(* which compares keys alone, though either id may be negative and the     *)
(* lower one would then fill the upper half (Hashing.java:57).             *)
KeysDiffer ==
  Done =>
    LET ids == Namespaces \cup {hash}
    IN  Cardinality(Keys(ids)) = Cardinality(ids \X ids)
=============================================================================
