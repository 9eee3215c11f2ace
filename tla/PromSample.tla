----------------------------- MODULE PromSample -----------------------------
(***************************************************************************)
(* prom_metric_sample_add, _sub and _set of                                *)
(* src/src/monitor/impl/prom_metric_sample.c, called by several threads    *)
(* on samples with no lock (prom_counter_inc/_add, prom_gauge_*, and    *)
(* the updates of prom_metric_sample_histogram_observe).                   *)
(*                                                                         *)
(* add and sub load the value once and then loop on                        *)
(* atomic_compare_exchange_weak: each CAS is one atomic step, and on       *)
(* failure it reloads `old` with the value it found.  A weak CAS may also  *)
(* fail spuriously when the value equals `old`; that changes nothing and  *)
(* is a stuttering step here.  set is one atomic store.                    *)
(* The double values are integers here: sums of small integers are exact   *)
(* in binary floating point, so the arithmetic is the same.                *)
(***************************************************************************)
EXTENDS Integers

CONSTANTS
  Threads,     \* the threads updating the samples
  Samples,     \* the samples
  SampleType,  \* each sample's type: "counter", "gauge" or "histogram"
  Calls,       \* the calls threads make: [kind, arg, sample]
  MaxCalls,  \* calls each thread makes
  NoOp       \* the call of a thread that has made none

ASSUME /\ SampleType \in [Samples -> {"counter", "gauge", "histogram"}]
       /\ Calls \subseteq [kind : {"add", "sub", "set"}, arg : Int, sample : Samples]
       /\ MaxCalls \in Nat

VARIABLES
  r_value,   \* self->r_value of each sample
  pc,        \* "idle" between calls, "loop" in the CAS loop
  op,        \* the call a thread is making (or made last)
  old,       \* the thread's local `old`
  ret,       \* what the thread's last call returned
  calls      \* calls the thread has made

sVars == <<r_value, pc, op, old, ret, calls>>

\* The value a CAS loop tries to store.
Candidate(o, v) == IF o.kind = "add" THEN v + o.arg ELSE v - o.arg

(***************************************************************************)
(* prom_metric_sample_add: a negative delta returns -EINVAL, whatever the  *)
(* sample's type; otherwise atomic_load into `old` and enter the loop.     *)
(***************************************************************************)
Add(t, o) ==
  /\ pc[t] = "idle"
  /\ o.kind = "add"
  /\ \/ /\ o.arg < 0
        /\ ret' = [ret EXCEPT ![t] = "einval"]
        /\ UNCHANGED <<pc, old>>
     \/ /\ o.arg >= 0
        /\ pc' = [pc EXCEPT ![t] = "loop"]
        /\ old' = [old EXCEPT ![t] = r_value[o.sample]]
        /\ UNCHANGED ret
  /\ UNCHANGED r_value

(***************************************************************************)
(* prom_metric_sample_sub: gauges only; then atomic_load and the loop.     *)
(***************************************************************************)
Sub(t, o) ==
  /\ pc[t] = "idle"
  /\ o.kind = "sub"
  /\ \/ /\ SampleType[o.sample] # "gauge"
        /\ ret' = [ret EXCEPT ![t] = "wrongtype"]
        /\ UNCHANGED <<pc, old>>
     \/ /\ SampleType[o.sample] = "gauge"
        /\ pc' = [pc EXCEPT ![t] = "loop"]
        /\ old' = [old EXCEPT ![t] = r_value[o.sample]]
        /\ UNCHANGED ret
  /\ UNCHANGED r_value

(***************************************************************************)
(* prom_metric_sample_set: gauges only; one atomic_store.                  *)
(***************************************************************************)
SetValue(t, o) ==
  /\ pc[t] = "idle"
  /\ o.kind = "set"
  /\ \/ /\ SampleType[o.sample] # "gauge"
        /\ ret' = [ret EXCEPT ![t] = "wrongtype"]
        /\ UNCHANGED r_value
     \/ /\ SampleType[o.sample] = "gauge"
        /\ r_value' = [r_value EXCEPT ![o.sample] = o.arg]
        /\ ret' = [ret EXCEPT ![t] = "ok"]
  /\ UNCHANGED <<pc, old>>

\* A thread starts its next call.
Call(t, o) ==
  /\ calls[t] < MaxCalls
  /\ \/ Add(t, o) \/ Sub(t, o) \/ SetValue(t, o)
  /\ op' = [op EXCEPT ![t] = o]
  /\ calls' = [calls EXCEPT ![t] = @ + 1]

\* Mutant: the CAS is a plain store of the candidate.
CasOkBlind(t) ==
  /\ pc[t] = "loop"
  /\ r_value' = [r_value EXCEPT ![op[t].sample] = Candidate(op[t], old[t])]
  /\ pc' = [pc EXCEPT ![t] = "idle"]
  /\ ret' = [ret EXCEPT ![t] = "ok"]
  /\ UNCHANGED <<op, old, calls>>

\* The CAS finds `old` and stores old + delta (old - delta for sub); the
\* call returns 0.
CasOk(t) ==
  /\ pc[t] = "loop"
  /\ r_value[op[t].sample] = old[t]
  /\ r_value' = [r_value EXCEPT ![op[t].sample] = Candidate(op[t], old[t])]
  /\ pc' = [pc EXCEPT ![t] = "idle"]
  /\ ret' = [ret EXCEPT ![t] = "ok"]
  /\ UNCHANGED <<op, old, calls>>

\* Mutant: `old` is not refreshed when the CAS fails.
CasFailNoReload(t) ==
  /\ pc[t] = "loop"
  /\ r_value[op[t].sample] # old[t]
  /\ UNCHANGED <<r_value, pc, op, old, ret, calls>>

\* The CAS finds another value, written by another thread since the load,
\* and copies it into `old`; the loop retries.
CasFail(t) ==
  /\ pc[t] = "loop"
  /\ r_value[op[t].sample] # old[t]
  /\ old' = [old EXCEPT ![t] = r_value[op[t].sample]]
  /\ UNCHANGED <<r_value, pc, op, ret, calls>>

\* prom_metric_sample_new(type, l_value, 0.0)
Init == /\ r_value = [s \in Samples |-> 0]
        /\ pc = [t \in Threads |-> "idle"]
        /\ op = [t \in Threads |-> NoOp]
        /\ old = [t \in Threads |-> 0]
        /\ ret = [t \in Threads |-> "ok"]
        /\ calls = [t \in Threads |-> 0]

Next == \E t \in Threads : \/ \E o \in Calls : Call(t, o)
                           \/ CasOk(t) \/ CasFail(t)

(***************************************************************************)
(* Fairness.  Threads are scheduled by the OS, so a thread in the CAS loop *)
(* eventually executes its next CAS (weak fairness), and a spurious        *)
(* failure of compare_exchange_weak is a transient event (a lost           *)
(* reservation on an LL/SC machine; x86's cmpxchg never fails              *)
(* spuriously), so it cannot repeat forever.  Nothing is assumed about     *)
(* when a thread makes its next call.                                      *)
(***************************************************************************)
Fairness == \A t \in Threads : WF_sVars(CasOk(t) \/ CasFail(t))

Spec == Init /\ [][Next]_sVars

FairSpec == Spec /\ Fairness

-----------------------------------------------------------------------------
(***************************************************************************)
(* Every call is linearizable and applies its effect once (spec.md 4.2, 5  *)
(* and property 3: no lost updates): a thread in the CAS loop is a call    *)
(* that has begun and not yet taken effect, and each step of the code is   *)
(* a step of AtomicSample or changes nothing it shows.                     *)
(***************************************************************************)
Atomic == INSTANCE AtomicSample WITH value <- r_value,
                                     busy <- [t \in Threads |-> pc[t] = "loop"]
Linearizable == Atomic!Spec

(***************************************************************************)
(* Every call returns (spec.md 5, non-blocking operations): a thread in    *)
(* the CAS loop gets out of it, however the other threads' CASes and       *)
(* stores interleave with its own.                                         *)
(***************************************************************************)
CallsReturn == \A t \in Threads : pc[t] = "loop" ~> pc[t] = "idle"
=============================================================================
