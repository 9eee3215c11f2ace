------------------------------ MODULE PromMap ------------------------------
(***************************************************************************)
(* The hash map of src/src/monitor/impl/prom_map.c.                        *)
(*                                                                         *)
(* The map holds an array `addrs` of bucket lists and a `keys` list, and   *)
(* `nulled`, the buckets a failed resize has freed and set to NULL.  Each  *)
(* bucket node owns a strdup'ed copy of its key and a value.  The keys     *)
(* list does not own anything: it points at the key copies of the nodes.   *)
(* Every operation holds the map's rwlock for its whole duration           *)
(* (prom_map.c:305, 498, 573).  So each operation is a single step here,   *)
(* and the lock is not state.                                              *)
(*                                                                         *)
(* Allocations are identified by numbers.  A node and its key copy share   *)
(* one id, and `keys` holds the key copies it points at, as KeyRefs.      *)
(* `freed` collects the ids of nodes and keys that have been freed.        *)
(* `destroyed` collects the values that the map's free_value_fn has        *)
(* destroyed.  `last` is the call that completed last and what it          *)
(* returned.                                                               *)
(***************************************************************************)
EXTENDS Naturals, Sequences, SequencesExt, FiniteSets

CONSTANTS
  Keys,          \* the key strings callers pass
  KeyText,       \* KeyText[k]: the characters of key k, as character codes
  Values,        \* the values callers store
  InitialSize,   \* PROM_MAP_INITIAL_SIZE (prom_map.c:33)
  MayFail,       \* the allocations that may return NULL (see below)
  Ops,           \* the updates callers issue: "insert", "overwrite", "delete"
  NoValue        \* what prom_map_get returns for a missing key (NULL)

(***************************************************************************)
(* MayFail names the allocations that may fail:                            *)
(*   "node"   prom_map_node_new in prom_map_set_internal and in            *)
(*            prom_map_delete_internal;                                    *)
(*   "resize" the allocations of prom_map_ensure_space before it moves    *)
(*            any entry: the new keys list, the new bucket array and its   *)
(*            lists;                                                       *)
(*   "move"   the node copy ensure_space makes of each entry it moves;     *)
(*   "append" the list nodes of prom_linked_list_append in                 *)
(*            prom_map_set_internal;                                       *)
(*   "get"    the temporary node of prom_map_get_internal.                 *)
(***************************************************************************)
ASSUME /\ InitialSize \in Nat /\ InitialSize >= 2
       /\ KeyText \in [Keys -> Seq(0 .. 127)]
       /\ MayFail \subseteq {"node", "resize", "move", "append", "get"}
       /\ Ops \subseteq {"insert", "overwrite", "delete"}
       /\ NoValue \notin Values

VARIABLES
  map,        \* [addrs, keys, size, max, nulled]: struct prom_map
  nextId,     \* the id the next allocation gets
  freed,      \* ids of nodes and key copies that have been freed
  destroyed,  \* values passed to free_value_fn
  last        \* the call that returned last

mapVars == <<map, nextId, freed, destroyed, last>>

\* size_t arithmetic.  TLC's integers are 32 bits wide, so the model wraps
\* at 2^30 instead of 2^64: all that matters is that 0 - 1 wraps to a
\* value far above any max_size.
SizeT == 2^30

Node == [key : Keys, id : Nat, val : Values]

Call(op, k, v, ret) == [op |-> op, key |-> k, val |-> v, ret |-> ret]

\* A pointer of the keys list: the key copy with this id, holding k.
KeyRef(id, k) == [id |-> id, key |-> k]

(***************************************************************************)
(* prom_map_get_index_internal: Horner's rule with a coefficient `a` that *)
(* changes per character.  `a` is updated modulo max_size - 1 after each   *)
(* character, and the index modulo max_size.  The values stay far below    *)
(* 2^64 for the sizes used, so size_t arithmetic does not wrap.            *)
(***************************************************************************)
RECURSIVE HashLoop(_, _, _, _)
HashLoop(text, a, index, max) ==
  IF text = <<>> THEN index
  ELSE HashLoop(Tail(text), (a * 27183) % (max - 1),
                (a * index + Head(text)) % max, max)

GetIndex(k, max) == HashLoop(KeyText[k], 31415, 0, max)

\* Position of k's node in its bucket, or 0: the chain walk with
\* prom_map_node_compare (strcmp on the keys).
FindNode(m, k) == SelectInSeq(m.addrs[GetIndex(k, m.max)], LAMBDA n : n.key = k)

\* prom_map_get_internal: the value stored under k, or NoValue.
\* Mutant: the get loop returns the bucket's first node without comparing keys.
LookupNoCompare(m, k) ==
  IF m.addrs[GetIndex(k, m.max)] = <<>> THEN NoValue
  ELSE m.addrs[GetIndex(k, m.max)][1].val

Lookup(m, k) ==
  LET pos == FindNode(m, k)
  IN IF pos = 0 THEN NoValue ELSE m.addrs[GetIndex(k, m.max)][pos].val

\* The dictionary the map represents: what a lookup finds for each key.
Contents(m) ==
  [k \in {x \in Keys : FindNode(m, x) # 0} |-> Lookup(m, k)]

\* prom_map_new: max_size empty buckets, an empty keys list, size 0.
EmptyMap(max) == [addrs |-> [i \in 0 .. max - 1 |-> <<>>], keys |-> <<>>,
                  size |-> 0, max |-> max, nulled |-> {}]

\* Mutant: size is not counted for a new key.
InsertNodeNoCount(m, k, v, id, bucketOk, keysOk) ==
  [m EXCEPT !.addrs[GetIndex(k, m.max)] = Append(@, [key |-> k, id |-> id, val |-> v]),
            !.keys = Append(@, KeyRef(id, k))]

(***************************************************************************)
(* prom_map_set_internal for a key that is not in its bucket yet: append a *)
(* new node to the bucket and its key to `keys`, and count it.  Both       *)
(* prom_linked_list_append results are ignored, so an append that fails   *)
(* is silently skipped while size still grows.                             *)
(***************************************************************************)
InsertNode(m, k, v, id, bucketOk, keysOk) ==
  LET i == GetIndex(k, m.max)
  IN [m EXCEPT !.addrs[i] = IF bucketOk THEN Append(@, [key |-> k, id |-> id, val |-> v])
                                      ELSE @,
               !.keys = IF keysOk THEN Append(@, KeyRef(id, k)) ELSE @,
               !.size = @ + 1]

\* Mutant: the new node is appended and the old one stays in the chain.
ReplaceNodeKeepOld(m, k, v, id) ==
  [m EXCEPT !.addrs[GetIndex(k, m.max)] = Append(@, [key |-> k, id |-> id, val |-> v])]

\* prom_map_set_internal for a key already present: the new node takes the
\* old one's place in the chain; `keys` is left alone.
ReplaceNode(m, k, v, id) ==
  LET i == GetIndex(k, m.max)
      pos == FindNode(m, k)
  IN [m EXCEPT !.addrs[i] = SubSeq(@, 1, pos - 1) \o <<[key |-> k, id |-> id, val |-> v]>>
                             \o SubSeq(@, pos + 1, Len(@))]

\* prom_map_ensure_space: the resize condition.
NeedsSpace(m) == m.size > m.max \div 2

\* The entries in the order the resize visits them: bucket 0 to max - 1,
\* each chain from head to tail.
ScanOrder(m) == FlattenSeq([i \in 1 .. m.max |-> m.addrs[i - 1]])

\* Mutant: the old keys list is kept instead of building a new one.
RehashedStaleKeys(m, firstId) ==
  LET old == ScanOrder(m)
      max == 2 * m.max
      moved == [j \in 1 .. Len(old) |-> [old[j] EXCEPT !.id = firstId + j - 1]]
  IN [addrs |-> [i \in 0 .. max - 1 |-> SelectSeq(moved, LAMBDA n : GetIndex(n.key, max) = i)],
      keys |-> m.keys, size |-> Len(old), max |-> max, nulled |-> {}]

(***************************************************************************)
(* The loop of prom_map_ensure_space that moves every entry into a map of *)
(* twice the size by prom_map_set_internal: each entry gets a fresh node,  *)
(* numbered from firstId in scan order, and is appended to its new bucket  *)
(* and to the new keys list.  The entries have distinct keys, so no copy   *)
(* overwrites another, and the new size is the number of entries.          *)
(***************************************************************************)
Rehashed(m, firstId) ==
  LET old == ScanOrder(m)
      max == 2 * m.max
      moved == [j \in 1 .. Len(old) |-> [old[j] EXCEPT !.id = firstId + j - 1]]
  IN [addrs |-> [i \in 0 .. max - 1 |->
                   SelectSeq(moved, LAMBDA n : GetIndex(n.key, max) = i)],
      keys  |-> [j \in 1 .. Len(old) |-> KeyRef(firstId + j - 1, old[j].key)],
      size  |-> Len(old),
      max   |-> max,
      nulled |-> {}]

-----------------------------------------------------------------------------
(***************************************************************************)
(* prom_map_set_internal(key, value, ..., destroy_current_value = true) on *)
(* map m, after whatever ensure_space did; fr is `freed` after that.  The  *)
(* new node (id) is allocated first by prom_map_node_new, which may fail.  *)
(* An overwrite destroys the old value and frees the old node and key.     *)
(***************************************************************************)
SetInternal(m, k, v, id, fr) ==
  \/ /\ "node" \in MayFail
     /\ map' = m
     /\ freed' = fr
     /\ last' = Call("set", k, v, "error")
     /\ UNCHANGED destroyed
  \/ /\ FindNode(m, k) # 0
     /\ "overwrite" \in Ops
     /\ LET old == m.addrs[GetIndex(k, m.max)][FindNode(m, k)]
        IN /\ map' = ReplaceNode(m, k, v, id)
           /\ freed' = fr \cup {old.id}
           /\ destroyed' = destroyed \cup {old.val}
     /\ last' = Call("set", k, v, "ok")
  \/ /\ FindNode(m, k) = 0
     /\ "insert" \in Ops
     /\ \E bucketOk, keysOk \in IF "append" \in MayFail THEN BOOLEAN ELSE {TRUE} :
          map' = InsertNode(m, k, v, id, bucketOk, keysOk)
     /\ freed' = fr
     /\ last' = Call("set", k, v, "ok")
     /\ UNCHANGED destroyed

(***************************************************************************)
(* The points where prom_map_ensure_space can fail: 0 for the allocations  *)
(* before its move loop, j >= 1 for the copy of the j-th entry in scan     *)
(* order (prom_map_set_internal's node allocation).                        *)
(***************************************************************************)
ResizeFailPoints(n) == (IF "resize" \in MayFail THEN {0} ELSE {})
                       \cup (IF "move" \in MayFail THEN 1 .. n ELSE {})

(***************************************************************************)
(* The map after ensure_space returned the error of failure point j.  By   *)
(* then the old nodes and keys of entries 1 .. j-1 are freed, but the      *)
(* bucket of entry j still links those of them that precede j in it; the   *)
(* buckets scanned before that one are freed and set to NULL.  size,       *)
(* max_size and the keys list are left alone.  j = 0 changes nothing.      *)
(***************************************************************************)
HalfMoved(m, j) ==
  IF j = 0 THEN m
  ELSE LET b == GetIndex(ScanOrder(m)[j].key, m.max)
       IN [m EXCEPT !.addrs = [i \in DOMAIN @ |-> IF i < b THEN <<>> ELSE @[i]],
                    !.nulled = 0 .. b - 1]

(***************************************************************************)
(* prom_map_set: under the lock, prom_map_ensure_space, then               *)
(* prom_map_set_internal.  A resize failing at point j returns the error   *)
(* after destroying new_addrs, whose copies destroy the values of entries  *)
(* 1 .. j-1 with them, and new_keys.                                       *)
(***************************************************************************)
Set(k, v) ==
  LET old == ScanOrder(map)
      oldIds == {old[j].id : j \in 1 .. Len(old)}
  IN
  \/ /\ ~NeedsSpace(map)
     /\ nextId' = nextId + 1
     /\ SetInternal(map, k, v, nextId, freed)
  \/ /\ NeedsSpace(map)
     /\ nextId' = nextId + Len(old) + 1
     /\ SetInternal(Rehashed(map, nextId), k, v, nextId + Len(old), freed \cup oldIds)
  \/ /\ NeedsSpace(map)
     /\ \E j \in ResizeFailPoints(Len(old)) :
          /\ map' = HalfMoved(map, j)
          /\ freed' = freed \cup {old[i].id : i \in 1 .. j - 1}
          /\ destroyed' = destroyed \cup {old[i].val : i \in 1 .. j - 1}
     /\ last' = Call("set", k, v, "error")
     /\ UNCHANGED nextId

\* Mutant: size is decremented as a signed integer.
DeleteNoWrap(k) ==
  LET node == map.addrs[GetIndex(k, map.max)][FindNode(map, k)]
  IN /\ "delete" \in Ops
     /\ FindNode(map, k) # 0
     /\ map' = [map EXCEPT !.keys = RemoveFirst(@, KeyRef(node.id, k)), !.size = @ - 1]
     /\ last' = Call("delete", k, NoValue, "ok")
     /\ UNCHANGED <<nextId, freed, destroyed>>

(***************************************************************************)
(* prom_map_delete.  The temporary node for the comparison may fail to    *)
(* allocate, and the call fails with nothing changed.  A missing key is a  *)
(* no-op that returns 0.  If the key is found,                             *)
(* prom_linked_list_remove(list, current_node) is passed the list node     *)
(* where the bucket's compare_fn (prom_map_node_compare) expects a map     *)
(* node, so strcmp compares each key with the bytes of the list node's     *)
(* first field, the address of a map node.  glibc's malloc aligns to 16    *)
(* bytes, so that string starts with a byte whose low four bits are zero,  *)
(* which no key of the model does: nothing is removed from the bucket and  *)
(* prom_linked_list_remove returns 0.  The key is then removed from `keys` *)
(* (by identity) and size is decremented, although the entry is still      *)
(* there.  Deleting it again finds it again and decrements size again.     *)
(***************************************************************************)
Delete(k) ==
  LET node == map.addrs[GetIndex(k, map.max)][FindNode(map, k)]
  IN
  /\ "delete" \in Ops
  /\ \/ /\ "node" \in MayFail
        /\ last' = Call("delete", k, NoValue, "error")
        /\ UNCHANGED map
     \/ /\ FindNode(map, k) = 0
        /\ last' = Call("delete", k, NoValue, "ok")
        /\ UNCHANGED map
     \/ /\ FindNode(map, k) # 0
        /\ map' = [map EXCEPT !.keys = RemoveFirst(@, KeyRef(node.id, k)),
                              !.size = (@ - 1) % SizeT]
        /\ last' = Call("delete", k, NoValue, "ok")
  /\ UNCHANGED <<nextId, freed, destroyed>>

(***************************************************************************)
(* prom_map_get: under the lock, the chain walk of prom_map_get_internal.  *)
(* Its temporary node is freed before it returns.  If that node cannot be  *)
(* allocated, it returns NULL, as for a missing key.                       *)
(***************************************************************************)
Get(k) ==
  /\ \/ last' = Call("get", k, Lookup(map, k), "ok")
     \/ /\ "get" \in MayFail
        /\ last' = Call("get", k, NoValue, "ok")
  /\ UNCHANGED <<map, nextId, freed, destroyed>>

-----------------------------------------------------------------------------
Init == /\ map = EmptyMap(InitialSize)
        /\ nextId = 1
        /\ freed = {}
        /\ destroyed = {}
        /\ last = Call("none", NoValue, NoValue, "ok")

\* The ids of the nodes linked in the buckets.
LiveIds(m) == {n.id : n \in UNION {ToSet(m.addrs[i]) : i \in DOMAIN m.addrs}}

(***************************************************************************)
(* A map that a failed resize left with NULL buckets or with freed nodes   *)
(* linked.  Every later call on it is undefined behaviour: prom_map_set's  *)
(* ensure_space restarts its scan at bucket 0, and get and delete index a *)
(* bucket that may be NULL or walk freed nodes.  The model stops there.    *)
(***************************************************************************)
Broken == map.nulled # {} \/ LiveIds(map) \cap freed # {}

Next == /\ ~Broken
        /\ \E k \in Keys : \/ \E v \in Values : Set(k, v)
                          \/ Delete(k)
                          \/ Get(k)

Spec == Init /\ [][Next]_mapVars

-----------------------------------------------------------------------------

\* Every variable has the shape the C structures allow.
TypeOK ==
  /\ map.max \in {InitialSize * 2^e : e \in 0 .. 8}
  /\ DOMAIN map.addrs = 0 .. map.max - 1
  /\ \A i \in DOMAIN map.addrs : \A j \in 1 .. Len(map.addrs[i]) : map.addrs[i][j] \in Node
  /\ \A j \in 1 .. Len(map.keys) : map.keys[j] \in [id : Nat, key : Keys]
  /\ map.size \in 0 .. SizeT - 1
  /\ map.nulled \subseteq DOMAIN map.addrs
  /\ nextId \in Nat \ {0}
  /\ freed \subseteq 1 .. nextId
  /\ destroyed \subseteq Values

(***************************************************************************)
(* The map implements a dictionary (spec.md 4.1 and 8.1-8.2): every        *)
(* prom_map_set, prom_map_delete and prom_map_get, resizes included,       *)
(* returns what the dictionary would and changes what lookups find only    *)
(* as the dictionary does.                                                 *)
(***************************************************************************)
Abstract == INSTANCE AbstractMap WITH dict <- Contents(map)
Refinement == Abstract!Spec

(***************************************************************************)
(* The keys list, which the renderer walks (prom_metric_formatter.c        *)
(* load_metric) and dereferences, names exactly the key copies of the      *)
(* nodes in the buckets, each once (spec.md 4.1): prom_map_set_internal    *)
(* appends a key with every node, and prom_map_ensure_space rebuilds the   *)
(* list with the moved nodes.                                              *)
(***************************************************************************)
KeyListExact ==
  /\ IsInjective(map.keys)
  /\ {r.id : r \in ToSet(map.keys)} = LiveIds(map)

(***************************************************************************)
(* prom_map_size (used by prom_map_ensure_space to decide a resize)        *)
(* counts the keys the map binds: size++ in prom_map_set_internal and the  *)
(* size recomputed by the resize track the entries a lookup finds.         *)
(***************************************************************************)
SizeCountsEntries == map.size = Cardinality(DOMAIN Contents(map))

(***************************************************************************)
(* No node that has been freed is still linked in a bucket, where every    *)
(* later prom_map_get would read it: spec.md 4.1 says a failed resize      *)
(* leaves the map unresized.                                               *)
(***************************************************************************)
NoFreedNodeReachable == LiveIds(map) \cap freed = {}
=============================================================================
