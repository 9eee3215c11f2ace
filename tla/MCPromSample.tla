---------------------------- MODULE MCPromSample ----------------------------
(***************************************************************************)
(* Model-checking instance of PromSample: threads updating one counter and *)
(* one gauge sample.                                                       *)
(***************************************************************************)
EXTENDS PromSample, TLC

CONSTANTS Counter, Gauge

MCSampleType == (Counter :> "counter") @@ (Gauge :> "gauge")

\* prom_counter_inc and prom_counter_add (a negative delta among them) on
\* the counter; prom_gauge_inc, _dec, _sub and _set on the gauge; a sub on
\* the counter, which the type check rejects.
MCCalls ==
  {[kind |-> "add", arg |-> a, sample |-> Counter] : a \in {1, -1}}
  \cup {[kind |-> "add", arg |-> 1, sample |-> Gauge],
        [kind |-> "sub", arg |-> 1, sample |-> Gauge],
        [kind |-> "set", arg |-> 0, sample |-> Gauge],
        [kind |-> "sub", arg |-> 1, sample |-> Counter]}

\* prom_gauge_add with a negative delta, and prom_gauge_inc.
GaugeNegativeCalls == {[kind |-> "add", arg |-> a, sample |-> Gauge] : a \in {1, -1}}
=============================================================================
