--------------------------- MODULE PromLinkedList ---------------------------
(***************************************************************************)
(* The singly linked list of src/src/monitor/impl/prom_linked_list.c at   *)
(* the level of its nodes: `head`, `tail`, `size` and the `next` and       *)
(* `item` fields of every node.  A node is an id in 1 .. MaxNodes; malloc  *)
(* hands out an id never used before, so a stale pointer to a freed node   *)
(* stays recognisable.  A field malloc returned and nobody has written     *)
(* yet holds Unset.                                                        *)
(*                                                                         *)
(* One writer calls the operations one after another: in the code every   *)
(* list is changed only under the lock of the prom_map that owns it.  A    *)
(* reader walks the list from `head` along `next` with no lock, as the     *)
(* render loops of prom_metric_formatter.c walk `samples->keys`.  The      *)
(* append is two steps, because the reader can run between the line that  *)
(* links the new node and the line that sets its `next`.                   *)
(***************************************************************************)
EXTENDS Naturals, Sequences, SequencesExt

CONSTANTS
  Items,      \* the item pointers callers store
  NoItem,     \* NULL as an item
  MaxNodes,   \* bound on node allocations
  MayFail,    \* whether malloc of a node may fail
  Ops         \* the operations the writer calls

ASSUME /\ MaxNodes \in Nat \ {0}
       /\ MayFail \in BOOLEAN
       /\ Ops \subseteq {"append", "push", "pop", "remove", "purge"}
       /\ NoItem \notin Items

Nodes == 1 .. MaxNodes
Null == 0
Unset == MaxNodes + 1

VARIABLES
  head, tail, size,   \* the fields of struct prom_linked_list
  next, item,         \* next[n], item[n]: the fields of node n
  used,               \* ids malloc has handed out
  freed,              \* ids that have been freed
  wpc, wnode,         \* the writer: "idle", or "append" with the new node
  last,               \* the call that returned last
  rpc, rcur           \* the reader: "idle" or "walk", and current_node

listVars == <<head, tail, size, next, item, used, freed>>
vars == <<listVars, wpc, wnode, last, rpc, rcur>>

Call(op, x, ret) == [op |-> op, item |-> x, ret |-> ret]

\* The nodes reached from n along `next`, at most k of them.
RECURSIVE Chain(_, _)
Chain(n, k) == IF k = 0 \/ n \notin Nodes THEN <<>>
               ELSE <<n>> \o Chain(next[n], k - 1)

\* The loops `for (node = self->head; node != NULL; node = node->next)`;
\* a cycle would show as a chain longer than MaxNodes.
Reachable == Chain(head, MaxNodes + 1)

\* The items of the first `size` nodes: what the list holds.
Contents == LET c == Chain(head, size) IN [i \in 1 .. Len(c) |-> item[c[i]]]

FreshNode == CHOOSE n \in Nodes \ used : TRUE

\* A writer call begins when no call is in progress.
Begin(op) == /\ wpc = "idle"
             /\ op \in Ops

\* malloc of the node returns NULL: pr_enomem(), the list is unchanged.
NodeFails(op, x) ==
  /\ Begin(op)
  /\ op \in {"append", "push"}
  /\ MayFail
  /\ last' = Call(op, x, "enomem")
  /\ UNCHANGED <<listVars, wpc, wnode, rpc, rcur>>

\* prom_linked_list_append up to `self->tail = node`: the new node is
\* linked after the old tail (or made the head) while its `next` is Unset.
AppendLink(x) ==
  /\ Begin("append")
  /\ used # Nodes
  /\ LET n == FreshNode IN
       /\ used' = used \cup {n}
       /\ item' = [item EXCEPT ![n] = x]
       /\ next' = IF tail # Null THEN [next EXCEPT ![tail] = n] ELSE next
       /\ head' = IF tail # Null THEN head ELSE n
       /\ tail' = n
       /\ wpc' = "append"
       /\ wnode' = n
  /\ UNCHANGED <<size, freed, last, rpc, rcur>>

\* The rest of the append: `node->next = NULL; self->size++; return 0`.
AppendEnd ==
  /\ wpc = "append"
  /\ next' = [next EXCEPT ![wnode] = Null]
  /\ size' = size + 1
  /\ last' = Call("append", item[wnode], "ok")
  /\ wpc' = "idle"
  /\ UNCHANGED <<head, tail, item, used, freed, wnode, rpc, rcur>>

\* prom_linked_list_push: the node takes the old head as `next` before it
\* becomes the head, and the tail of an empty list.
Push(x) ==
  /\ Begin("push")
  /\ used # Nodes
  /\ LET n == FreshNode IN
       /\ used' = used \cup {n}
       /\ item' = [item EXCEPT ![n] = x]
       /\ next' = [next EXCEPT ![n] = head]
       /\ head' = n
       /\ tail' = IF tail = Null THEN n ELSE tail
       /\ size' = size + 1
       /\ last' = Call("push", x, "ok")
  /\ UNCHANGED <<freed, wpc, wnode, rpc, rcur>>

\* Mutant: node->item = NULL runs before `item = node->item`.
PopClearFirst ==
  /\ Begin("pop")
  /\ \/ /\ head = Null
        /\ last' = Call("pop", NoItem, NoItem)
        /\ UNCHANGED listVars
     \/ /\ head # Null
        /\ head' = next[head]
        /\ tail' = IF tail = head THEN Null ELSE tail
        /\ item' = [item EXCEPT ![head] = NoItem]
        /\ size' = size - 1
        /\ last' = Call("pop", NoItem, NoItem)
        /\ UNCHANGED <<next, used, freed>>
  /\ UNCHANGED <<wpc, wnode, rpc, rcur>>

(***************************************************************************)
(* prom_linked_list_pop: unlinks the head, clears the tail when the head   *)
(* was the tail, passes the item to free_fn, sets node->item = NULL and    *)
(* returns the item.  The node itself is never freed.                      *)
(***************************************************************************)
Pop ==
  /\ Begin("pop")
  /\ \/ /\ head = Null
        /\ last' = Call("pop", NoItem, NoItem)
        /\ UNCHANGED listVars
     \/ /\ head # Null
        /\ head' = next[head]
        /\ tail' = IF tail = head THEN Null ELSE tail
        /\ item' = [item EXCEPT ![head] = NoItem]
        /\ size' = size - 1
        /\ last' = Call("pop", NoItem, item[head])
        /\ UNCHANGED <<next, used, freed>>
  /\ UNCHANGED <<wpc, wnode, rpc, rcur>>

\* Mutant: the remove leaves `tail` alone when it unlinks the last node.
RemoveItemNoTail(x) ==
  LET c == Reachable
      i == SelectInSeq(c, LAMBDA n : item[n] = x)
  IN /\ Begin("remove")
     /\ i > 0
     /\ LET n == c[i] IN
          /\ head' = IF i = 1 THEN next[n] ELSE head
          /\ next' = IF i = 1 THEN next ELSE [next EXCEPT ![c[i - 1]] = next[n]]
          /\ item' = [item EXCEPT ![n] = NoItem]
          /\ freed' = freed \cup {n}
          /\ size' = size - 1
     /\ last' = Call("remove", x, "ok")
     /\ UNCHANGED <<tail, used, wpc, wnode, rpc, rcur>>

(***************************************************************************)
(* prom_linked_list_remove: the loop stops at the first node whose item    *)
(* equals `item` (compare_fn of the map buckets compares the keys; the     *)
(* keys list compares pointers; both are item equality here), remembering  *)
(* the node before it.  Not found: return 0.  Found: the previous node (or *)
(* head) takes its `next`, `tail` becomes the previous node when the node  *)
(* was last, the item goes to free_fn and the node is freed.               *)
(***************************************************************************)
RemoveItem(x) ==
  LET c == Reachable
      i == SelectInSeq(c, LAMBDA n : item[n] = x)
  IN /\ Begin("remove")
     /\ \/ /\ i = 0
           /\ UNCHANGED listVars
        \/ /\ i > 0
           /\ LET n == c[i]
                  prev == IF i = 1 THEN Null ELSE c[i - 1]
              IN /\ head' = IF prev = Null THEN next[n] ELSE head
                 /\ next' = IF prev = Null THEN next ELSE [next EXCEPT ![prev] = next[n]]
                 /\ tail' = IF next[n] = Null THEN prev ELSE tail
                 /\ item' = [item EXCEPT ![n] = NoItem]
                 /\ freed' = freed \cup {n}
                 /\ size' = size - 1
           /\ UNCHANGED used
     /\ last' = Call("remove", x, "ok")
     /\ UNCHANGED <<wpc, wnode, rpc, rcur>>

\* prom_linked_list_purge: frees every node from head to NULL (their items
\* through free_fn) and empties the list.
Purge ==
  /\ Begin("purge")
  /\ freed' = freed \cup ToSet(Reachable)
  /\ head' = Null
  /\ tail' = Null
  /\ size' = 0
  /\ last' = Call("purge", NoItem, "ok")
  /\ UNCHANGED <<next, item, used, wpc, wnode, rpc, rcur>>

(***************************************************************************)
(* The unlocked render walk: current_node = head, then read its item and   *)
(* follow `next` until NULL.  A node that is not allocated (Unset was read *)
(* as a pointer) or already freed makes the read undefined: the walk goes  *)
(* no further.                                                             *)
(***************************************************************************)
RStart ==
  /\ rpc = "idle"
  /\ rpc' = "walk"
  /\ rcur' = head
  /\ UNCHANGED <<listVars, wpc, wnode, last>>

RVisit ==
  /\ rpc = "walk"
  /\ rcur # Null
  /\ \/ /\ rcur \in used \ freed
        /\ rcur' = next[rcur]
        /\ UNCHANGED rpc
     \/ /\ rcur \notin used \ freed
        /\ rpc' = "idle"
        /\ rcur' = Null
  /\ UNCHANGED <<listVars, wpc, wnode, last>>

RDone ==
  /\ rpc = "walk"
  /\ rcur = Null
  /\ rpc' = "idle"
  /\ UNCHANGED <<listVars, wpc, wnode, last, rcur>>

\* prom_linked_list_new.
Init ==
  /\ head = Null
  /\ tail = Null
  /\ size = 0
  /\ next = [n \in Nodes |-> Unset]
  /\ item = [n \in Nodes |-> NoItem]
  /\ used = {}
  /\ freed = {}
  /\ wpc = "idle"
  /\ wnode = Null
  /\ last = Call("none", NoItem, "ok")
  /\ rpc = "idle"
  /\ rcur = Null

Next ==
  \/ \E x \in Items : \/ AppendLink(x) \/ Push(x) \/ RemoveItem(x)
                      \/ \E op \in Ops : NodeFails(op, x)
  \/ AppendEnd \/ Pop \/ Purge
  \/ RStart \/ RVisit \/ RDone

Spec == Init /\ [][Next]_vars

-----------------------------------------------------------------------------
(***************************************************************************)
(* Every call refines AbstractList: the first `size` nodes from `head`     *)
(* hold the items the calls so far leave, in order.  Push, pop and remove  *)
(* each update head, tail and the links in an order that must keep the    *)
(* later appends (which link after `tail`) attached to the same chain.     *)
(***************************************************************************)
AL == INSTANCE AbstractList WITH list <- Contents
Refinement == AL!Spec

(***************************************************************************)
(* Between calls the chain from `head` is `size` distinct live nodes that  *)
(* ends in NULL, and `tail` is its last node (NULL for an empty list):     *)
(* prom_linked_list_append writes through `tail`, so a stale tail would    *)
(* link the next item to a node the walk no longer reaches.                *)
(***************************************************************************)
Shape ==
  wpc = "idle" =>
    LET c == Reachable IN
      /\ Len(c) = size
      /\ IsInjective(c)
      /\ ToSet(c) \cap freed = {}
      /\ IF c = <<>> THEN tail = Null
                     ELSE tail = Last(c) /\ next[tail] = Null

(***************************************************************************)
(* The unlocked walk only ever dereferences a node that malloc returned    *)
(* and nobody freed, whose `next` has been written (prom_metric_formatter  *)
(* reads current_node->item and current_node->next with no lock).          *)
(***************************************************************************)
WalkReadsLinkedNodes ==
  rpc = "walk" /\ rcur # Null => rcur \in used \ freed /\ next[rcur] # Unset
=============================================================================
