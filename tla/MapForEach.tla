----------------------------- MODULE MapForEach -----------------------------
(***************************************************************************)
(* BiInt2ObjectMap.forEach (BiInt2ObjectMap.java:235).  Its loop reads the *)
(* field values once and walks over that array; between two values the     *)
(* consumer may call the map, which writes into the array under the loop   *)
(* until a rehash replaces it: the loop then goes on over the old one.     *)
(*                                                                         *)
(* One forEach runs at a time, outside of mapping functions; the calls     *)
(* of its consumer are those of BiInt2ObjectMap.                           *)
(***************************************************************************)
EXTENDS BiInt2ObjectMap

VARIABLES
  walking,   \* forEach runs
  cursor,    \* the loop's position
  old,       \* the array it walks over with its keys, once it was replaced
  before,    \* (history) the keys in the map when forEach began,
  visits,    \*   and how often the consumer got each key's value; kept
             \*   until the first removal
  lost       \* (history) whether a key was removed or cleared meanwhile

walkVars == <<walking, cursor, old, before, visits, lost>>

Present == {k \in Keys : AbstractMap[k] # NULL}

(* The array that the loop reads, and the keys that belong to it.          *)
WalkedOver_Mutant == [keys |-> keys, values |-> values]
WalkedOver == IF old = NULL THEN [keys |-> keys, values |-> values] ELSE old

NoVisits == [k \in Keys |-> 0]

AtEnd == cursor \notin DOMAIN WalkedOver.values

WalkInit == /\ walking = FALSE /\ cursor = 0 /\ old = NULL
            /\ before = {} /\ visits = NoVisits /\ lost = FALSE

(* A step of the map's own, of the consumer or outside of forEach.  rehash *)
(* ends by replacing the arrays.                                           *)
MapStep ==
  /\ Next
  /\ old' = IF walking /\ old = NULL /\ pc = "rehash" /\ pc' = "idle"
            THEN [keys |-> keys, values |-> values] ELSE old
  /\ lost' = (lost \/ (walking /\ ~(Present \subseteq Present')))
  /\ before' = IF lost' THEN {} ELSE before
  /\ visits' = IF lost' THEN NoVisits ELSE visits
  /\ UNCHANGED <<walking, cursor>>

BeginForEach == /\ pc = "idle" /\ computing = NULL /\ ~walking
                /\ walking' = TRUE /\ before' = Present
                /\ UNCHANGED <<vars, cursor, old, visits, lost>>

SkipEmpty == /\ pc = "idle" /\ computing = NULL /\ walking /\ ~AtEnd
             /\ WalkedOver.values[cursor] = NULL
             /\ cursor' = cursor + 1
             /\ UNCHANGED <<vars, walking, old, before, visits, lost>>

Accept == /\ pc = "idle" /\ computing = NULL /\ walking /\ ~AtEnd
          /\ WalkedOver.values[cursor] # NULL
          /\ visits' = IF lost THEN visits
                       ELSE [visits EXCEPT ![WalkedOver.keys[cursor]] = @ + 1]
          /\ cursor' = cursor + 1
          /\ UNCHANGED <<vars, walking, old, before, lost>>

EndForEach == /\ pc = "idle" /\ computing = NULL /\ walking /\ AtEnd
              /\ walking' = FALSE /\ cursor' = 0 /\ old' = NULL
              /\ before' = {} /\ visits' = NoVisits /\ lost' = FALSE
              /\ UNCHANGED vars

WalkNext == MapStep \/ BeginForEach \/ SkipEmpty \/ Accept \/ EndForEach

WalkSpec == Init /\ WalkInit /\ [][WalkNext]_<<vars, walkVars>>
-----------------------------------------------------------------------------
(* Properties.                                                             *)

(* If the consumer removes nothing, it gets the value of every key that    *)
(* was in the map at the start exactly once and of no other key twice,     *)
(* whatever it puts and however often the table grows or is compacted      *)
(* under the loop (BiInt2ObjectMap.java:236).  After a removal an entry    *)
(* that compactChain moves across the cursor may be missed or come again.  *)
VisitedOnce ==
  (walking /\ ~lost) =>
    /\ \A k \in Keys : visits[k] <= 1
    /\ AtEnd => \A k \in before : visits[k] = 1
=============================================================================
