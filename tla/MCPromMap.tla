----------------------------- MODULE MCPromMap -----------------------------
(***************************************************************************)
(* Model-checking instance of PromMap.  The maps start with two buckets    *)
(* (PROM_MAP_INITIAL_SIZE is 32 in the code; the hash and the resize rule  *)
(* do not depend on it).  "a" and "e" share bucket 1 in maps of two and    *)
(* four buckets and part in a map of eight, "d" lands in bucket 0, so      *)
(* chains form, resizes happen and they reorder the keys list.  "b" lands *)
(* in bucket 0 of two buckets and bucket 2 of four or eight.               *)
(***************************************************************************)
EXTENDS PromMap

\* Character codes of the key strings.
MCKeyText == [k \in Keys |-> CASE k = "a" -> <<97>>
                              [] k = "e" -> <<101>>
                              [] k = "d" -> <<100>>
                              [] k = "b" -> <<98>>]

CONSTANTS
  MaxAlloc,   \* bound on allocations: nextId stops at MaxAlloc
  MaxSize     \* bound on size, besides the two values below zero

StateBound == /\ nextId <= MaxAlloc
              /\ map.size \in (0 .. MaxSize) \cup (SizeT - 2 .. SizeT - 1)
=============================================================================
