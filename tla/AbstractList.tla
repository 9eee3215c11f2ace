---------------------------- MODULE AbstractList ----------------------------
(***************************************************************************)
(* What an OrderedList (prom_linked_list) promises its callers: a sequence *)
(* of items changed by one call at a time.  `last` is the call that        *)
(* completed last and what it returned.  An append or a push that fails    *)
(* for want of memory leaves the sequence alone; a pop of an empty list    *)
(* returns NoItem; a remove of an item the list does not hold is a no-op   *)
(* that returns 0.                                                         *)
(***************************************************************************)
EXTENDS Sequences, SequencesExt

CONSTANTS Items, NoItem

VARIABLES list, last

vars == <<list, last>>

Call(op, x, ret) == [op |-> op, item |-> x, ret |-> ret]

AddLast(x) == /\ list' = Append(list, x)
              /\ last' = Call("append", x, "ok")

AddFirst(x) == /\ list' = Cons(x, list)
               /\ last' = Call("push", x, "ok")

AddFails(op, x) == /\ last' = Call(op, x, "enomem")
                   /\ UNCHANGED list

TakeFirst == /\ list' = IF list = <<>> THEN list ELSE Tail(list)
             /\ last' = Call("pop", NoItem, IF list = <<>> THEN NoItem ELSE Head(list))

Drop(x) == /\ list' = RemoveFirst(list, x)
           /\ last' = Call("remove", x, "ok")

Clear == /\ list' = <<>>
         /\ last' = Call("purge", NoItem, "ok")

Init == /\ list = <<>>
        /\ last = Call("none", NoItem, "ok")

Next == \/ \E x \in Items : \/ AddLast(x) \/ AddFirst(x) \/ Drop(x)
                            \/ \E op \in {"append", "push"} : AddFails(op, x)
        \/ TakeFirst
        \/ Clear

Spec == Init /\ [][Next]_vars
=============================================================================
