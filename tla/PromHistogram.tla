---------------------------- MODULE PromHistogram ----------------------------
(***************************************************************************)
(* One HistogramSample of src/src/monitor/impl/prom_metric_sample_histogram.c *)
(* (the samples of one label set of a histogram): observer threads call    *)
(* prom_histogram_observe on it and a scraper thread renders it with the   *)
(* histogram branch of prom_metric_formatter_load_metric.                  *)
(*                                                                         *)
(* Doubles are integers in units of 10^-7, so that "%f" (six decimals)     *)
(* really loses a digit.  The maps `l_values` (bound text to l_value) and  *)
(* `samples` (l_value to sample) are plain dictionaries: PromMap is shown  *)
(* to refine one (AbstractMap), and after construction only lookups reach  *)
(* them.  An l_value is a record naming its `le` label, or "count"/"sum".  *)
(* Each prom_metric_sample_add is one step: PromSample shows it            *)
(* linearizable.  The sample lookups of a step are part of the step.       *)
(***************************************************************************)
EXTENDS Integers, Sequences, SequencesExt, FiniteSetsExt, TLC, PromHistogramBuckets

CONSTANTS
  Bounds,     \* buckets->upper_bounds, in units of 10^-7
  Values,     \* the values observers pass
  Threads,    \* observer threads
  MaxObs,     \* observations per thread
  NoThread    \* the holder of an unlocked rwlock

ASSUME /\ Bounds \in Seq(Nat) /\ Len(Bounds) > 0
       /\ Values \subseteq Int

VARIABLES
  r_value,    \* r_value of every sample construction allocated
  lock,       \* the thread holding self->rwlock
  pc,         \* "idle", "bucket", "inf", "count", "sum"
  val,        \* the value being observed
  idx,        \* the loop counter i of observe, plus one
  calls,      \* observations the thread has started
  done,       \* ghost: observations that returned 0, per value
  rpc,        \* the renderer: "idle" or "walk"
  rpos,       \* the position of current_hist_node in l_value_list
  shown       \* the values rendered so far by the current (or last) walk

obsVars == <<lock, pc, val, idx, calls, done>>
rendVars == <<rpc, rpos, shown>>
vars == <<r_value, obsVars, rendVars>>

(***************************************************************************)
(* prom_metric_sample_histogram_bucket_to_str: sprintf "%f", six decimals, *)
(* rounded to the nearest (no configured bound lies half-way); the text    *)
(* is kept as the digits of the value in millionths.                       *)
(***************************************************************************)
BucketToStr(b) == ToString((b + 5) \div 10)

(***************************************************************************)
(* The l_values the formatter renders: <name><suffix>{<labels>,le="<le>"}  *)
(* for a bucket and +Inf, <name>_count{<labels>} and <name>_sum{<labels>}. *)
(***************************************************************************)
BucketLValue(text) == [suffix |-> "", le |-> text]
InfLValue == [suffix |-> "", le |-> "+Inf"]
CountLValue == [suffix |-> "count", le |-> ""]
SumLValue == [suffix |-> "sum", le |-> ""]

(***************************************************************************)
(* One initialiser of prom_metric_sample_histogram_new: append a copy of   *)
(* the l_value to l_value_list, prom_map_set(l_values, key, l_value) and   *)
(* prom_map_set(samples, l_value, new sample).  A set of a key already     *)
(* bound replaces the value and destroys the old one.                      *)
(***************************************************************************)
InitSample(st, key, lv) ==
  [list |-> Append(st.list, lv),
   lvalues |-> (key :> lv) @@ st.lvalues,
   samples |-> (lv :> st.next) @@ st.samples,
   next |-> st.next + 1,
   destroyed |-> IF lv \in DOMAIN st.samples
                 THEN st.destroyed \cup {st.samples[lv]} ELSE st.destroyed]

\* init_inf, init_count and init_summary: the l_value (l_value_for_inf, or
\* load_l_value with the suffix and dump), then the steps above.
InitInf(st) == InitSample(st, "+Inf", InfLValue)
InitCount(st) == InitSample(st, "count", CountLValue)
InitSum(st) == InitSample(st, "sum", SumLValue)

\* init_bucket_samples: one sample per bound, in the order of the bounds.
InitBucket(st, b) == InitSample(st, BucketToStr(b), BucketLValue(BucketToStr(b)))

EmptyHistogram == [list |-> <<>>, lvalues |-> <<>>, samples |-> <<>>,
                   next |-> 1, destroyed |-> {}]

\* prom_metric_sample_histogram_new: the buckets, then +Inf, count, sum.
Histogram ==
  LET b == FoldLeft(InitBucket, EmptyHistogram, Bounds)
  IN InitSum(InitCount(InitInf(b)))

SampleIds == 1 .. Histogram.next - 1

\* The sample prom_map_get(samples, prom_map_get(l_values, key)) finds.
SampleOf(key) == Histogram.samples[Histogram.lvalues[key]]

ASSUME BoundsAccepted(Bounds)

\* Mutant: the loop runs from the lowest bucket up.
BucketIndexAscending(k) == Len(Bounds) - k + 1

\* The bucket observe visits when k iterations remain:
\* for (i = bucket_count - 1; i >= 0; i--), with i = k - 1.
BucketIndex(k) == k

\* Mutant: the break also takes values equal to the bound.
AboveOrEqual(v, b) == v >= b

\* The break of the bucket loop: the value lies above the bound.
Above(v, b) == v > b

(***************************************************************************)
(* prom_histogram_observe -> prom_metric_sample_histogram_observe: take    *)
(* the histogram sample's rwlock for writing.                              *)
(***************************************************************************)
Lock(t, v) ==
  /\ pc[t] = "idle"
  /\ calls[t] < MaxObs
  /\ lock = NoThread
  /\ lock' = t
  /\ pc' = [pc EXCEPT ![t] = "bucket"]
  /\ val' = [val EXCEPT ![t] = v]
  /\ idx' = [idx EXCEPT ![t] = Len(Bounds)]
  /\ calls' = [calls EXCEPT ![t] = @ + 1]
  /\ UNCHANGED <<r_value, done, rendVars>>

(***************************************************************************)
(* One iteration of the bucket loop: the loop ends when i < 0, or breaks   *)
(* when the value lies above the bound; else it looks the bucket's sample  *)
(* up by its bound text and adds 1 to it.  The HANDLE_UNLOCK returns for a *)
(* failed bucket_to_str, map get or sample_add are not modelled: the      *)
(* histogram's maps are complete and the bucket samples take any delta.    *)
(***************************************************************************)
Bucket(t) ==
  /\ pc[t] = "bucket"
  /\ LET i == BucketIndex(idx[t]) IN
     \/ /\ idx[t] = 0
        /\ pc' = [pc EXCEPT ![t] = "inf"]
        /\ UNCHANGED <<r_value, idx>>
     \/ /\ idx[t] > 0 /\ Above(val[t], Bounds[i])
        /\ pc' = [pc EXCEPT ![t] = "inf"]
        /\ UNCHANGED <<r_value, idx>>
     \/ /\ idx[t] > 0 /\ ~Above(val[t], Bounds[i])
        /\ r_value' = [r_value EXCEPT ![SampleOf(BucketToStr(Bounds[i]))] = @ + 1]
        /\ idx' = [idx EXCEPT ![t] = @ - 1]
        /\ UNCHANGED pc
  /\ UNCHANGED <<lock, val, calls, done, rendVars>>

\* Add 1 to the +Inf sample, then to the count sample.
Inf(t) ==
  /\ pc[t] = "inf"
  /\ r_value' = [r_value EXCEPT ![SampleOf("+Inf")] = @ + 1]
  /\ pc' = [pc EXCEPT ![t] = "count"]
  /\ UNCHANGED <<lock, val, idx, calls, done, rendVars>>

Count(t) ==
  /\ pc[t] = "count"
  /\ r_value' = [r_value EXCEPT ![SampleOf("count")] = @ + 1]
  /\ pc' = [pc EXCEPT ![t] = "sum"]
  /\ UNCHANGED <<lock, val, idx, calls, done, rendVars>>

(***************************************************************************)
(* prom_metric_sample_add(sum_sample, value), then unlock and return its   *)
(* result.  sample_add rejects a negative delta with -EINVAL, whatever the *)
(* sample's type, after the buckets, +Inf and count were incremented.      *)
(***************************************************************************)
Sum(t) ==
  /\ pc[t] = "sum"
  /\ LET ok == val[t] >= 0 IN
       /\ r_value' = IF ok THEN [r_value EXCEPT ![SampleOf("sum")] = @ + val[t]]
                           ELSE r_value
       /\ done' = IF ok THEN [done EXCEPT ![val[t]] = @ + 1] ELSE done
  /\ lock' = NoThread
  /\ pc' = [pc EXCEPT ![t] = "idle"]
  /\ UNCHANGED <<val, idx, calls, rendVars>>

-----------------------------------------------------------------------------
(***************************************************************************)
(* The histogram branch of load_metric: walk hist_sample->l_value_list     *)
(* with no lock, look every l_value up in hist_sample->samples and render  *)
(* the sample's r_value.  A new walk starts at the head.                   *)
(***************************************************************************)
RStart ==
  /\ rpc = "idle"
  /\ rpc' = "walk"
  /\ rpos' = 1
  /\ shown' = <<>>
  /\ UNCHANGED <<r_value, obsVars>>

\* Mutant: the walk does not stop at the end of the list.
RVisitNoEnd ==
  /\ rpc = "walk"
  /\ shown' = Append(shown, r_value[Histogram.samples[Histogram.list[rpos]]])
  /\ rpos' = rpos + 1
  /\ UNCHANGED <<rpc, r_value, obsVars>>

RVisit ==
  /\ rpc = "walk"
  /\ shown' = Append(shown, r_value[Histogram.samples[Histogram.list[rpos]]])
  /\ rpos' = rpos + 1
  /\ rpc' = IF rpos = Len(Histogram.list) THEN "idle" ELSE "walk"
  /\ UNCHANGED <<r_value, obsVars>>

-----------------------------------------------------------------------------
Init == /\ r_value = [s \in SampleIds |-> 0]
        /\ lock = NoThread
        /\ pc = [t \in Threads |-> "idle"]
        /\ val = [t \in Threads |-> 0]
        /\ idx = [t \in Threads |-> 0]
        /\ calls = [t \in Threads |-> 0]
        /\ done = [v \in Values |-> 0]
        /\ rpc = "idle"
        /\ rpos = 1
        /\ shown = <<>>

Next == \/ \E t \in Threads : \/ \E v \in Values : Lock(t, v)
                              \/ Bucket(t) \/ Inf(t) \/ Count(t) \/ Sum(t)
        \/ RStart
        \/ RVisit

Spec == Init /\ [][Next]_vars

-----------------------------------------------------------------------------
TypeOK == /\ r_value \in [SampleIds -> Int]
          /\ pc \in [Threads -> {"idle", "bucket", "inf", "count", "sum"}]
          /\ idx \in [Threads -> 0 .. Len(Bounds)]
          /\ rpc \in {"idle", "walk"}
          /\ rpc = "walk" => rpos \in 1 .. Len(Histogram.list)

\* The observations that returned 0 with a value at most b.
Cumulative(b) == MapThenSumSet(LAMBDA v : done[v], {v \in Values : v <= b})

(***************************************************************************)
(* spec.md 4.3 (observe) and 8: whenever no observation is in progress,    *)
(* the sample of each bound holds the number of observations with a value *)
(* at most that bound, +Inf and count hold the number of observations, and *)
(* sum holds their total.  The loop from the top bucket down with its      *)
(* break, and the bound text that names each bucket's sample, must agree   *)
(* with this cumulative reference.                                         *)
(***************************************************************************)
BucketsCumulative ==
  lock = NoThread =>
    /\ \A i \in 1 .. Len(Bounds) :
         r_value[SampleOf(BucketToStr(Bounds[i]))] = Cumulative(Bounds[i])
    /\ r_value[SampleOf("+Inf")] = MapThenSumSet(LAMBDA v : done[v], Values)
    /\ r_value[SampleOf("count")] = r_value[SampleOf("+Inf")]
    /\ r_value[SampleOf("sum")] = MapThenSumSet(LAMBDA v : v * done[v], Values)

(***************************************************************************)
(* spec.md 10: the bucket lines a scrape renders never decrease, though    *)
(* the renderer holds no lock and observations land between its reads.    *)
(* This rests on observe incrementing the buckets from the highest down.   *)
(***************************************************************************)
RenderedMonotone ==
  \A i, j \in 1 .. Min({Len(shown), Len(Bounds)}) :
    i < j => shown[i] <= shown[j]

=============================================================================
