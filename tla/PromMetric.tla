----------------------------- MODULE PromMetric -----------------------------
(***************************************************************************)
(* One counter metric of src/src/monitor/impl/prom_metric.c, updated by    *)
(* worker threads through prom_counter_inc and rendered by a scraper       *)
(* thread through prom_metric_formatter_load_metric.                       *)
(*                                                                         *)
(* The metric's `samples` map is PromMap, instantiated with l_value texts  *)
(* as keys and sample ids as values; each map operation is one atomic step,*)
(* as it runs under the map's own lock.  A worker resolves its sample by   *)
(* prom_metric_sample_from_labels under the metric's rwlock (the lookup    *)
(* and the insertion of a new sample are separate map operations), then    *)
(* unlocks and adds 1 to the sample, which PromSample shows to be one      *)
(* linearizable step.  The renderer walks the map's keys list holding      *)
(* neither lock: between two of its steps, workers run.                    *)
(*                                                                         *)
(* The key a worker looks up is what the metric's formatter builder holds  *)
(* after load_l_value and what dump copies out (PromMetricFormatter): the  *)
(* builder lives as long as the metric, so text a failed call left in it   *)
(* is part of the next call's key.                                         *)
(***************************************************************************)
EXTENDS Naturals, Sequences, SequencesExt

CONSTANTS
  Threads,      \* worker threads
  Labels,       \* the label sets workers pass
  MetricName,   \* the metric's name (character codes)
  LabelKeys,    \* its label keys, in order
  LabelValues,  \* LabelValues[l]: the label values of label set l, in order
  InitialSize,  \* PROM_MAP_INITIAL_SIZE
  BuilderSize,  \* PROM_STRING_BUILDER_INIT_SIZE
  MapMayFail,   \* allocations of the samples map that may fail (PromMap)
  MayFail,      \* other allocations that may fail: "realloc" and "dump" in
                \* the formatter, "sample"
  MaxCalls,     \* prom_counter_inc calls each worker makes
  NoThread,     \* the holder of an unlocked rwlock
  NoSample      \* NULL

ASSUME MayFail \subseteq {"realloc", "dump", "sample"}

\* Every call may allocate one sample.
SampleIds == 1 .. MaxCalls * Cardinality(Threads)

VARIABLES
  samples, mapNextId, mapFreed, mapDestroyed, mapLast,  \* the samples map
  r_value,      \* r_value of each sample allocated so far
  nextSample,   \* the id of the next sample allocated
  lock,         \* the thread holding the metric's rwlock
  pc,           \* "idle", "get" (locked), "create" (locked, l_value dumped), "update"
  lbl,          \* the label set of the worker's current call
  key,          \* the l_value the worker's dump returned
  fmt,          \* the metric's formatter builder
  held,         \* the sample the worker resolved
  calls,        \* calls the worker has made
  incs,         \* ghost: increments that returned 0, per label set
  keyIncs,      \* ghost: increments that returned 0, per key looked up
  rpc,          \* the renderer: "idle" or "walk"
  cursor,       \* the item (a KeyRef) of the list node current_node points at
  rFault        \* the renderer has read freed memory

mapVars == <<samples, mapNextId, mapFreed, mapDestroyed, mapLast>>
workerVars == <<r_value, nextSample, lock, pc, lbl, key, fmt, held, calls, incs, keyIncs>>
rendVars == <<rpc, cursor, rFault>>
vars == <<mapVars, workerVars, rendVars>>

\* Any text can be a key: the map hashes the key's characters.
Texts == Seq(0 .. 127)

Map == INSTANCE PromMap WITH map <- samples, nextId <- mapNextId,
         freed <- mapFreed, destroyed <- mapDestroyed, last <- mapLast,
         Keys <- Texts, KeyText <- [x \in Texts |-> x], Values <- SampleIds,
         MayFail <- MapMayFail, Ops <- {"insert", "overwrite"}, NoValue <- NoSample

\* What the map operation of this step returned.
MapResult == mapLast'.val
MapOk == mapLast'.ret = "ok"

Fmt == INSTANCE PromMetricFormatter WITH InitSize <- BuilderSize,
         MayFail <- MayFail \cap {"realloc", "dump"}

\* No call in progress.
NoLabel == CHOOSE l \in Labels : TRUE

\* The end of a prom_counter_inc: unlock (if held) and return; the call's
\* locals are gone.
Return(t) == /\ pc' = [pc EXCEPT ![t] = "idle"]
             /\ held' = [held EXCEPT ![t] = NoSample]
             /\ key' = [key EXCEPT ![t] = <<>>]
             /\ lbl' = [lbl EXCEPT ![t] = NoLabel]

\* HANDLE_UNLOCK: unlock and return NULL, the map untouched.
ReturnNull(t) == /\ Return(t)
                 /\ lock' = NoThread
                 /\ UNCHANGED mapVars

\* Mutant: rwlock_write_lock does not exclude the other writers.
LockNoWait(t, l) ==
  /\ pc[t] = "idle"
  /\ calls[t] < MaxCalls
  /\ lock' = t
  /\ pc' = [pc EXCEPT ![t] = "get"]
  /\ lbl' = [lbl EXCEPT ![t] = l]
  /\ calls' = [calls EXCEPT ![t] = @ + 1]
  /\ UNCHANGED <<mapVars, r_value, nextSample, key, fmt, held, incs, keyIncs, rendVars>>

(***************************************************************************)
(* prom_counter_inc(l) -> prom_metric_sample_from_labels: take the         *)
(* metric's rwlock for writing.                                            *)
(***************************************************************************)
Lock(t, l) ==
  /\ pc[t] = "idle"
  /\ calls[t] < MaxCalls
  /\ lock = NoThread
  /\ lock' = t
  /\ pc' = [pc EXCEPT ![t] = "get"]
  /\ lbl' = [lbl EXCEPT ![t] = l]
  /\ calls' = [calls EXCEPT ![t] = @ + 1]
  /\ UNCHANGED <<mapVars, r_value, nextSample, key, fmt, held, incs, keyIncs, rendVars>>

\* What load_l_value of the worker's label values may leave.
LoadOutcomes(t) ==
  Fmt!LoadLValue(fmt, MetricName, Fmt!NoSuffix, LabelKeys, LabelValues[lbl[t]])

(***************************************************************************)
(* Render the l_value into the metric's formatter and dump it.  A failed   *)
(* add returns its error with what the earlier adds put in the builder     *)
(* left there; a failed dump leaves the whole l_value there.  Either way:  *)
(* unlock and return NULL (prom_counter_inc returns -ENOENT), no clear.    *)
(* Otherwise dump has cleared the builder, and prom_map_get looks up the   *)
(* copy: a hit unlocks and goes on to the update; a miss goes on to        *)
(* create a sample, still locked.                                          *)
(***************************************************************************)
GetSample(t) ==
  /\ pc[t] = "get"
  /\ \E lo \in LoadOutcomes(t) :
       \/ /\ lo.st = "error"
          /\ fmt' = lo.b
          /\ ReturnNull(t)
       \/ /\ lo.st = "ok"
          /\ \E d \in Fmt!Dump(lo.b) :
               /\ fmt' = d.b
               /\ \/ /\ d.st = "error"
                     /\ ReturnNull(t)
                  \/ /\ d.st = "ok"
                     /\ Map!Get(d.out)
                     /\ key' = [key EXCEPT ![t] = d.out]
                     /\ UNCHANGED lbl
                     /\ \/ /\ MapResult # NoSample
                           /\ held' = [held EXCEPT ![t] = MapResult]
                           /\ pc' = [pc EXCEPT ![t] = "update"]
                           /\ lock' = NoThread
                        \/ /\ MapResult = NoSample
                           /\ pc' = [pc EXCEPT ![t] = "create"]
                           /\ UNCHANGED <<held, lock>>
  /\ UNCHANGED <<r_value, nextSample, calls, incs, keyIncs, rendVars>>

(***************************************************************************)
(* A miss: prom_metric_sample_new(type, l_value, 0.0) and prom_map_set.    *)
(* If the sample cannot be allocated, or the set fails, unlock and return  *)
(* NULL; a sample whose set failed is not destroyed (it leaks).  Then      *)
(* unlock and update the new sample.                                       *)
(***************************************************************************)
Create(t) ==
  /\ pc[t] = "create"
  /\ \/ /\ "sample" \in MayFail
        /\ Return(t)
        /\ UNCHANGED <<mapVars, nextSample>>
     \/ /\ Map!Set(key[t], nextSample)
        /\ nextSample' = nextSample + 1
        /\ \/ /\ MapOk
              /\ held' = [held EXCEPT ![t] = nextSample]
              /\ pc' = [pc EXCEPT ![t] = "update"]
              /\ UNCHANGED <<key, lbl>>
           \/ /\ ~MapOk
              /\ Return(t)
  /\ lock' = NoThread
  /\ UNCHANGED <<r_value, fmt, calls, incs, keyIncs, rendVars>>

\* The ghost count of increments under key k, one more.
Counted(f, k) == IF k \in DOMAIN f THEN [f EXCEPT ![k] = @ + 1] ELSE f @@ (k :> 1)

(***************************************************************************)
(* prom_metric_sample_add(sample, 1.0), outside every lock; 0 is returned. *)
(***************************************************************************)
Update(t) ==
  /\ pc[t] = "update"
  /\ r_value' = [r_value EXCEPT ![held[t]] = @ + 1]
  /\ incs' = [incs EXCEPT ![lbl[t]] = @ + 1]
  /\ keyIncs' = Counted(keyIncs, key[t])
  /\ Return(t)
  /\ UNCHANGED <<mapVars, nextSample, lock, fmt, calls, rendVars>>

-----------------------------------------------------------------------------
\* The item after x in the keys list, or NoKey for NULL.
NoKey == Map!KeyRef(0, NoSample)

NextKey(x) == LET pos == SelectInSeq(samples.keys, LAMBDA y : y = x)
              IN IF pos = Len(samples.keys) THEN NoKey ELSE samples.keys[pos + 1]

(***************************************************************************)
(* load_metric: current_node = metric->samples->keys->head.  (The HELP and *)
(* TYPE lines come first; an empty list renders nothing more.)             *)
(***************************************************************************)
RStart ==
  /\ rpc = "idle"
  /\ samples.keys # <<>>
  /\ rpc' = "walk"
  /\ cursor' = Head(samples.keys)
  /\ UNCHANGED <<mapVars, workerVars, rFault>>

\* Mutant: the walk does not advance.
RVisitNoAdvance ==
  /\ rpc = "walk"
  /\ cursor' = cursor
  /\ UNCHANGED <<mapVars, workerVars, rpc, rFault>>

(***************************************************************************)
(* One iteration of the walk: read current_node->item (the key copy), look *)
(* it up with prom_map_get, read the sample's l_value and r_value, and     *)
(* follow current_node->next.  If a resize has freed the list node, or an  *)
(* overwrite or resize the key copy, these reads touch freed memory; what  *)
(* happens next is undefined, and the model ends the walk.  A lookup that  *)
(* finds nothing ends the render with -ENOENT.                             *)
(***************************************************************************)
RVisit ==
  /\ rpc = "walk"
  /\ \/ /\ cursor \notin ToSet(samples.keys) \/ cursor.id \in mapFreed
        /\ rFault' = TRUE
        /\ rpc' = "idle"
        /\ UNCHANGED <<mapVars, cursor>>
     \/ /\ cursor \in ToSet(samples.keys) /\ cursor.id \notin mapFreed
        /\ Map!Get(cursor.key)
        /\ \/ /\ MapResult = NoSample
              /\ rpc' = "idle"
              /\ UNCHANGED <<cursor, rFault>>
           \/ /\ MapResult # NoSample
              /\ cursor' = NextKey(cursor)
              /\ rpc' = IF NextKey(cursor) = NoKey THEN "idle" ELSE "walk"
              /\ UNCHANGED rFault
  /\ UNCHANGED workerVars

-----------------------------------------------------------------------------
\* prom_metric_new: an empty samples map, the rwlock free.
Init == /\ Map!Init
        /\ r_value = [s \in SampleIds |-> 0]
        /\ nextSample = 1
        /\ lock = NoThread
        /\ pc = [t \in Threads |-> "idle"]
        /\ lbl = [t \in Threads |-> NoLabel]
        /\ key = [t \in Threads |-> <<>>]
        /\ fmt = Fmt!EmptyBuilder
        /\ held = [t \in Threads |-> NoSample]
        /\ calls = [t \in Threads |-> 0]
        /\ incs = [l \in Labels |-> 0]
        /\ keyIncs = <<>>
        /\ rpc = "idle"
        /\ cursor = NoKey
        /\ rFault = FALSE

Next == \/ \E t \in Threads : \/ \E l \in Labels : Lock(t, l)
                              \/ GetSample(t) \/ Create(t) \/ Update(t)
        \/ RStart
        \/ RVisit

\* Workers and the renderer are OS threads: one that can step eventually
\* does.  (A worker that could start a call need not.)
Fairness == /\ \A t \in Threads : WF_vars(GetSample(t) \/ Create(t) \/ Update(t))
            /\ WF_vars(RVisit)

Spec == Init /\ [][Next]_vars

FairSpec == Spec /\ Fairness

-----------------------------------------------------------------------------
\* The l_value of label set l, as load_l_value renders it on an empty builder.
LV(l) == Fmt!LValue(MetricName, Fmt!NoSuffix, LabelKeys, LabelValues[l])

\* The keys the samples map binds.
BoundKeys == {n.key : n \in ToSet(Map!ScanOrder(samples))}

(***************************************************************************)
(* No lost increments per key: the sample the map binds to a key counts    *)
(* every prom_counter_inc that resolved its sample under that key and      *)
(* returned 0, and no other.  This is what the metric's rwlock around      *)
(* get-then-create (prom_metric_sample_from_labels) is for: two workers    *)
(* missing one new key must not both create and set a sample.              *)
(***************************************************************************)
KeyCountsExact ==
  \A k \in BoundKeys :
    r_value[Map!Lookup(samples, k)] = IF k \in DOMAIN keyIncs THEN keyIncs[k] ELSE 0

(***************************************************************************)
(* No lost increments (spec.md 8, property 3): the sample bound to a label *)
(* set's l_value counts every prom_counter_inc on that label set that      *)
(* returned 0.  spec.md 2 calls the formatter stateless per call; the      *)
(* metric's formatter keeps what a failed call left in its builder.        *)
(***************************************************************************)
CountsExact ==
  \A l \in Labels : Map!Lookup(samples, LV(l)) # NoSample =>
                      r_value[Map!Lookup(samples, LV(l))] = incs[l]

(***************************************************************************)
(* The renderer's unlocked walk of samples->keys never reads a list node,  *)
(* key or sample that has been freed (spec.md 4.4 allows it to see updates *)
(* sample by sample, not to read freed memory).                            *)
(***************************************************************************)
RendererReadsLive == ~rFault

(***************************************************************************)
(* Every render of the metric ends: the walk reaches the end of the keys   *)
(* list or stops with an error, however workers insert meanwhile.          *)
(***************************************************************************)
RenderEnds == rpc = "walk" ~> rpc = "idle"
=============================================================================
