---------------------------- MODULE AbstractMap ----------------------------
(***************************************************************************)
(* What a ConcurrentMap promises its callers (spec.md 4.1, 8.1, 8.2): a    *)
(* dictionary from keys to values, one call at a time.  `last` is the call *)
(* that completed last with what it returned: a set that returns ok has    *)
(* bound the key to the value, a set that returns an error has left the    *)
(* dictionary alone, a delete unbinds the key (a missing key is a no-op),  *)
(* and a get returns the bound value or NoValue.                           *)
(***************************************************************************)
EXTENDS TLC

CONSTANTS Keys, Values, NoValue

VARIABLES dict, last

vars == <<dict, last>>

Call(op, k, v, ret) == [op |-> op, key |-> k, val |-> v, ret |-> ret]

Put(k, v) == /\ dict' = (k :> v) @@ dict
             /\ last' = Call("set", k, v, "ok")

PutFails(k, v) == /\ last' = Call("set", k, v, "error")
                  /\ UNCHANGED dict

Remove(k) == /\ dict' = [x \in DOMAIN dict \ {k} |-> dict[x]]
             /\ last' = Call("delete", k, NoValue, "ok")

RemoveFails(k) == /\ last' = Call("delete", k, NoValue, "error")
                  /\ UNCHANGED dict

Find(k) == /\ last' = Call("get", k, IF k \in DOMAIN dict THEN dict[k] ELSE NoValue, "ok")
           /\ UNCHANGED dict

Init == /\ dict = [x \in {} |-> x]
        /\ last = Call("none", NoValue, NoValue, "ok")

Next == \E k \in Keys : \/ \E v \in Values : Put(k, v) \/ PutFails(k, v)
                       \/ Remove(k) \/ RemoveFails(k)
                       \/ Find(k)

Spec == Init /\ [][Next]_vars
=============================================================================
