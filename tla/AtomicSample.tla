---------------------------- MODULE AtomicSample ----------------------------
(***************************************************************************)
(* What Samples promise (spec.md 4.2 and 5): add, sub and set on a         *)
(* sample's value by many threads with no lock, each linearizable.  A call *)
(* either takes effect at once (Instant), or begins, stays pending while   *)
(* other threads run, and takes effect atomically at the moment it returns *)
(* (Begin, Commit).  Either way its effect is applied exactly once.        *)
(*                                                                         *)
(* The effect: add of a non-negative delta on any sample, and of a         *)
(* negative delta on gauges and histogram samples; add of a negative delta *)
(* on a counter is an invalid-argument error.  sub and set act on gauges   *)
(* only and are a wrong-type error on other samples.                       *)
(***************************************************************************)
EXTENDS Integers

CONSTANTS Threads, Samples, SampleType, Calls, NoOp

VARIABLES value, busy, op, ret

vars == <<value, busy, op, ret>>

\* The error a call returns, or "ok".
Outcome(o) ==
  CASE o.kind = "add" /\ o.arg < 0 /\ SampleType[o.sample] = "counter" -> "einval"
    [] o.kind \in {"sub", "set"} /\ SampleType[o.sample] # "gauge"     -> "wrongtype"
    [] OTHER                                                          -> "ok"

\* The value after a successful call.
Effect(v, o) == CASE o.kind = "add" -> v + o.arg
                  [] o.kind = "sub" -> v - o.arg
                  [] o.kind = "set" -> o.arg

Apply(o) == value' = IF Outcome(o) = "ok"
                     THEN [value EXCEPT ![o.sample] = Effect(@, o)]
                     ELSE value

Instant(t, o) == /\ ~busy[t]
                 /\ Apply(o)
                 /\ op' = [op EXCEPT ![t] = o]
                 /\ ret' = [ret EXCEPT ![t] = Outcome(o)]
                 /\ UNCHANGED busy

Begin(t, o) == /\ ~busy[t]
               /\ busy' = [busy EXCEPT ![t] = TRUE]
               /\ op' = [op EXCEPT ![t] = o]
               /\ UNCHANGED <<value, ret>>

Commit(t) == /\ busy[t]
             /\ Apply(op[t])
             /\ busy' = [busy EXCEPT ![t] = FALSE]
             /\ ret' = [ret EXCEPT ![t] = Outcome(op[t])]
             /\ UNCHANGED op

Init == /\ value = [s \in Samples |-> 0]
        /\ busy = [t \in Threads |-> FALSE]
        /\ op = [t \in Threads |-> NoOp]
        /\ ret = [t \in Threads |-> "ok"]

Next == \E t \in Threads : \/ \E o \in Calls : Instant(t, o) \/ Begin(t, o)
                           \/ Commit(t)

Spec == Init /\ [][Next]_vars
=============================================================================
