---------------------------- MODULE MCPromMetric ----------------------------
(***************************************************************************)
(* Model-checking instance of PromMetric: two workers, a renderer, and a   *)
(* counter "c" with one label key "k".  The label sets give the values     *)
(* "a", "e" and "d", so the l_values are c{k="a"}, c{k="e"} and c{k="d"}:  *)
(* eight characters, one less than the builder size chosen, so that the   *)
(* final '}' of a load from an empty builder needs the realloc, as longer  *)
(* l_values do with the code's 32 bytes.                                   *)
(***************************************************************************)
EXTENDS PromMetric, TLC

\* Workers are interchangeable: they run the same code on the same metric.
ThreadSymmetry == Permutations(Threads)

MCMetricName == <<99>>
MCLabelKeys == <<<<107>>>>
MCLabelValues == [l \in Labels |-> <<<<CASE l = "a" -> 97 [] l = "e" -> 101 [] l = "d" -> 100>>>>]
\* Two label keys, "k" and "j", and label values holding quotes and commas:
\* label set "a" gives k = a",j="b and j = c, label set "e" gives k = a and
\* j = b",j="c.  load_l_value renders both as c{k="a",j="b",j="c"}.
MCTwoLabelKeys == <<<<107>>, <<106>>>>
MCQuotedValues ==
  [l \in Labels |-> CASE l = "a" -> <<<<97, 34, 44, 106, 61, 34, 98>>, <<99>>>>
                      [] l = "e" -> <<<<97>>, <<98, 34, 44, 106, 61, 34, 99>>>>]
=============================================================================
