# TLA+ models of the FORT-validator Prometheus metrics core

This directory holds TLA+ models of the in-process metrics library under
`src/src/monitor/`, a fork of DigitalOcean's prometheus-client-c. TLC checks
every module with the configurations listed in section 3. `PROJECT.json` is
the machine-readable index. It lists:

* the components and how far each is modelled;
* the runs and the mutants that each passing property must catch;
* the map from every TLA+ definition to the C lines it translates;
* the findings and the hazards.

## 1. The system

| Component | Source | Model |
|---|---|---|
| OrderedList | `prom_linked_list.c` | `PromLinkedList`, refining `AbstractList`; sequences inside `PromMap` |
| ConcurrentMap | `prom_map.c` | `PromMap`, refining `AbstractMap` |
| GrowableBuffer | `prom_string_builder.c` | `PromStringBuilder` |
| Sample | `prom_metric_sample.c` | `PromSample`, refining `AtomicSample` |
| Counter / Gauge | `prom_counter.c`, `prom_gauge.c` | the calls of `PromSample`; `Update` of `PromMetric` |
| Metric | `prom_metric.c` | `PromMetric` (composes `PromMap` and `PromMetricFormatter`) |
| HistogramBuckets | `prom_histogram.c`, `prom_histogram_buckets.c` | `PromHistogramBuckets` (constructors, `prom_histogram_new`'s choice of buckets); observe entry in `PromHistogram` |
| HistogramSample | `prom_metric_sample_histogram.c` | `PromHistogram` |
| Formatter | `prom_metric_formatter.c` | `load_l_value` and `dump` in `PromMetricFormatter`; the render walks of `PromMetric`, `PromHistogram`, `PromRegistry` |
| Collector, Registry | `prom_collector.c`, `prom_collector_registry.c` | `PromRegistry` (with the process collector's collect step) |
| HTTP handler | `monitor/http/promhttp.c` | not modelled (I/O); its `/metrics` path is `bridge` |
| Process metrics | `prom_process_limits.c`, `prom_procfs.c`, `prom_process_fds.c` | the limits parser in `PromProcessLimits`; the fd count is not modelled |
| VRP CSV loader | `src/csv.c` | not modelled (FORT's file loader, not the metrics core) |

The components interact in three flows.

* **Updates.** A worker calls `prom_counter_inc` or `prom_histogram_observe`,
  which take the following steps:
  1. Take the metric's rwlock.
  2. Render the label values into an l_value, in the metric's formatter,
     and copy it out (`dump`, which clears the formatter).
  3. `prom_map_get` it on the metric's `samples` map; each map call runs
     under the map's own rwlock.
  4. On a miss, create a sample and `prom_map_set` it.
  5. Release the metric lock.
  6. Update the sample with a compare-and-swap loop and no lock. A histogram
     observation instead holds the histogram sample's lock and adds to
     `n + 3` samples one after another.
* **Scrapes.** The HTTP thread calls `prom_collector_registry_bridge`, which
  walks:
  * the registry's `collectors->keys` list;
  * each collector's `metrics->keys` list;
  * each metric's `samples->keys` list;
  * each histogram sample's `l_value_list`.

  Before it walks a collector's metrics it calls the collector's
  `collect_fn`. The process collector's reads and parses
  `/proc/self/limits` and sets two gauges. It looks every key up with
  `prom_map_get` and reads `r_value`. **None of these walks holds a lock.**
* **Setup.** `default_init`, `enable_process_metrics`, `register_collector`
  (under the registry lock) and `register_metric`. The last goes through
  `prom_collector_add_metric`, which makes a get and then a set with no lock.

In this snapshot of FORT, nothing outside `monitor/` calls the library except
`promhttp.c`. The models therefore check what the library promises its
callers, as spec.md states it.

## 2. Modules

Conventions shared by all modules:

* Every module names the C function each action translates, and
  `PROJECT.json` "map" gives the lines.
* Data is abstracted to what the properties distinguish:
  * strings become model values or short sequences of character codes
    (one-letter strings where a parser reads them character by character);
  * doubles become integers;
  * freed memory is a set of freed object ids, and a read of one sets a
    fault flag or breaks an invariant.
* Each map call is one step, because it runs entirely under the map's lock.
  `PromMap` is shown to refine a dictionary (`AbstractMap`), which is why
  `PromHistogram` and `PromRegistry` may use a dictionary for their maps.

**AbstractList**: what an ordered list promises. It is a sequence and the
last call with its result. Its actions are `AddLast`, `AddFirst`,
`AddFails`, `TakeFirst`, `Drop` and `Clear`.

**PromLinkedList** (`prom_linked_list.c`): the nodes `1..MaxNodes` with
their `next` and `item` fields, `head`, `tail`, `size`, the nodes ever
allocated (`used`) and those freed (`freed`). A node's `next` is `Unset`
until the code writes it, because `malloc` does not clear it.

* The writer's actions are one per function: `Push`, `Pop`, `RemoveItem`,
  `Purge`, and `NodeFails` for a failed node allocation. `append` is two
  steps, as the code stores them: `AppendLink` (`tail->next = node`) and
  `AppendEnd` (`node->next = NULL`, then `size++`).
* A reader (`RStart`, `RVisit`, `RDone`) walks from `head` with no lock, as
  `load_metric` walks a keys list. When it follows an unwritten `next` it
  holds `Unset`, which is no node; the model then stops the walk, as it
  does at a freed node. `WalkReadsLinkedNodes` says neither happens.
* `Chain` (RECURSIVE) follows `next` from a node. `Contents` is the items of
  the first `size` nodes from `head`. `Refinement` is `AbstractList!Spec`
  under the mapping `list <- Contents`.

**AbstractMap**: what a map promises. It is a dictionary and the last call
with its result. Its actions are `Put`, `PutFails`, `Remove`, `RemoveFails`
and `Find`.

**PromMap** (`prom_map.c`): `map` holds the bucket array `addrs` (chains of
nodes with id, key and value), the `keys` list, `size` and `max_size`. Next
to it are:

* `nextId`, the allocation counter;
* `freed`, the node ids freed so far;
* `destroyed`, the values destroyed by `free_value_fn`;
* `last`, the call and its result.

The hash (`HashLoop`, RECURSIVE) is the code's loop over the key's
characters, taken modulo `max_size`. `Set` is `prom_map_set` with the whole
of `prom_map_ensure_space`:

* a resize (`Rehashed`) rebuilds the buckets and the keys list in
  bucket-scan order and frees the old nodes;
* the allocations named in the constant `MayFail` can fail: `node`,
  `resize` (the resize's allocations before it moves any entry, which
  leave the map as it was), `move` (the node copy of one entry inside the
  move loop), `append`, and `get` (the temporary node of `prom_map_get`);
* a resize failing at the copy of the j-th entry (`HalfMoved`) leaves what
  the code leaves: entries 1 .. j-1 freed and their values destroyed, the
  buckets scanned before entry j's emptied and recorded in `nulled` (the
  code frees them and sets them to NULL), the freed nodes that precede
  entry j in its bucket still linked, and `size` and `keys` unchanged.
  Every later call on such a map is undefined behaviour (the next
  `ensure_space` restarts its scan at bucket 0), so `Next` stops at a
  `Broken` map.

`Delete` and `Get` complete the operations. `size` is a `size_t`, modulo
`SizeT`. `Refinement` is `AbstractMap!Spec` under the mapping `dict <-
Contents(map)`.

**PromStringBuilder** (`prom_string_builder.c`): tracks `allocated`, `len`,
the real block size `bufCap` (0 for NULL) and `access`, the bytes the last
call touched. Characters are abstracted to lengths. `Grown` is the doubling
loop of `ensure_space` (RECURSIVE).

**AtomicSample and PromSample** (`prom_metric_sample.c`):

* In `AtomicSample` each call is one atomic step between a `Begin` and a
  `Commit`.
* In `PromSample`, `Add` and `Sub` load `r_value` and enter the CAS loop.
  `CasOk` stores the candidate when `r_value` still equals `old`. `CasFail`
  reloads `old`. `SetValue` is one atomic store.
* The refinement maps `busy[t]` to "t is inside its CAS loop".

**PromMetric** (`prom_metric.c`, the counter branch of
`prom_metric_formatter_load_metric`):

* The samples map is `PromMap` by `INSTANCE ... WITH`. Its keys are l_value
  texts (`Texts`, any sequence of character codes). The map hashes the
  characters, so the key a worker builds decides its bucket.
* `fmt` is the metric's formatter builder, which lives as long as the
  metric. `GetSample` takes its load and dump outcomes from
  `PromMetricFormatter`, and the key it looks up is what `dump` copied out.
* Worker actions: `Lock`, `GetSample` (load failure, dump failure, hit,
  miss), `Create`
  (sample allocation failure, set failure, success) and `Update` (the
  sample add, outside the lock).
* Renderer actions: `RStart` and `RVisit`. `RVisit` walks `samples.keys`
  with no lock and sets `rFault` when its node or key has been freed.

**PromMetricFormatter** (`prom_metric_formatter.c`, `prom_string_builder.c`):

* Operators only, like `PromProcessLimits`. A builder is a record: `text`
  (character codes), `alloc` (the field `allocated`), `cap` (the size of
  the block `str` points at) and `over` (some write has landed past the
  block).
* `Add` is `add_str` and `add_char`: the room test, then `Grown` (taken
  from `PromStringBuilder`) and a `realloc` that may fail. A failure leaves
  `alloc` doubled and the text unchanged. A later add then passes the room
  test and writes past the block; the model takes the outcome where the
  bytes are written and the call goes on, and sets `over`.
* `LValuePieces` lists the strings `load_l_value` adds, in order, with the
  values unescaped. `AddAll` adds them until one fails, and what the earlier
  ones added stays.
* `Dump` is `prom_metric_formatter_dump`: a copy whose `malloc` may fail,
  leaving the builder as it was, then `clear`.

**PromHistogramBuckets** (`prom_histogram_buckets.c`, `prom_histogram_new`):

* Operators only. A buckets pointer is a record, NULL or a `count` with
  its `upper_bounds`.
* `BucketsNew`, `BucketsLinear` and `BucketsExponential` are the three
  constructors, each with its own check: linear returns NULL for
  `count <= 1`, exponential for `count < 1`, `start <= 0` or
  `factor <= 1`. Neither checks the sign of `width`.
* `HistogramNew` is `prom_histogram_new`'s choice of buckets. NULL becomes
  `DefaultBuckets`, which is NULL because nothing assigns
  `prom_histogram_default_buckets`. Other buckets pass `BoundsAccepted`,
  which rejects only a bound above the next one.
* `MCPromHistogram` builds every bound sequence a run uses through these
  operators: `SeparateBounds` is `BucketsLinear(10, 10, 2)`.

**PromHistogram** (`prom_metric_sample_histogram.c`, `prom_histogram.c`):

* Values are integers in units of 10^-7, so that `BucketToStr` (`%f`, six
  decimals) really drops a digit.
* `Histogram` folds the four initialisers of
  `prom_metric_sample_histogram_new` over the bounds. It gives
  `l_value_list`, the `l_values` map (bound text to l_value) and the
  `samples` map (l_value to sample id).
* A repeated key overwrites its entry and destroys the old sample, as
  `prom_map_set` does.
* Observers: `Lock`, then one `Bucket` step per loop iteration. The loop
  ends at `i < 0`, breaks when the value is above the bound, and otherwise
  adds 1. Then come `Inf`, `Count` and `Sum`; the sum add fails for a
  negative value.
* The renderer (`RStart`, `RVisit`) walks `l_value_list` with no lock and
  records the values it shows.

**PromRegistry** (`prom_collector_registry.c`, `prom_collector.c`,
`load_metrics`):

* The main thread runs `default_init`: `MainNew`, then `MainEnable`. The
  constant `MayFail` lets two constructors return NULL, and one set fail:
  * `"collector"`: `prom_collector_new("default")` returns NULL, and
    `registry_new` binds that NULL unchecked;
  * `"process"`: `prom_collector_process_new` returns NULL. `default_init`
    then returns -EINVAL with the registry already stored. The main thread
    calls it again, and that call returns 0 at the NULL test without
    adding "process".
  * `"set"`: the collectors-map `prom_map_set` of `register_collector`
    fails (`RCSet`), which unlocks and returns the error with nothing
    changed.

  The allocations `registry_new` does check leave no state behind when
  they fail, so they are not steps. The workers start once a call has
  returned 0. They:
  * call `default_init` again (`DefaultInitAgain`);
  * register collectors (`RCLock`, `RCGet`, `RCSet`, under the registry
    lock);
  * register metrics (`RMGet`, `AMGet`, `AMSet`, with no lock). `RMGet`
    returns -ENOENT when the default collector is NULL.
* The bridge (`BStart`, `BCollector`, `BMetric`) walks the collectors' and
  metrics' keys orders. A NULL collector entry ends the walk, as
  `load_metrics` returns -ENOENT there.
* At the "process" collector the bridge runs
  `prom_collector_process_collect` (`BProcessCollect`). It reads one of the
  files in the constant `LimitsFiles`, or fails to open one (`NoObj`). It
  parses the file with `PromProcessLimits` and looks up "Max open files"
  and "Max address space". If both are found it sets `gauges` to their soft
  limits and records the file in the ghost `limitsRead`. Otherwise the
  collect returns NULL, `load_metrics` returns -ENOENT, and the walk ends
  there.
* `Parsed` is computed once per file. An `ASSUME` states that no file makes
  the parser crash.

**PromProcessLimits** (`prom_process_limits.c`, `prom_procfs.c`): the
recursive-descent parser of `/proc/self/limits`, as operators.

* The buffer is a sequence of one-letter strings ending in `NUL`, the byte
  `prom_procfs_buf_new` appends. `index` is 0-based as in the code.
* Each `rdp_*` function is an operator from an index to the index it
  leaves: `FirstLine`, `WordAndSpace`, `Limit`, `GenericLimit`, `Units`,
  `DataLine`. Each `while` loop over letters, digits or blanks is a
  RECURSIVE operator.
* The code's quirks are kept:
  * `GenericLimit` moves past the digits twice, plus one;
  * `Units` leaves a row without units NULL, which `row_new` would pass to
    `strdup` (`DataLine` reports "crash");
  * the `' ' < size - 1` test of `rdp_character`.
* `ParseLimits` returns the rows map, or "fail" where the code returns NULL.
* The reference is the file the kernel writes (`proc_pid_limits` in Linux's
  `fs/proc/base.c`): `KernelRow` pads the name to 25 columns, each value to
  20, and the units (when the limit has any) to 10. `KernelSoft` is the soft
  value a row was written with.
* Maps are dictionaries plus their keys order. An overwrite keeps the place
  and frees the old value.

Each `MC*` module supplies definitions for the constants (key texts, call
sets, bounds) and a symmetry set where threads are interchangeable.

## 3. Runs

| Run | Cfg | Expect | States | What it shows |
|---|---|---|---|---|
| list_ops | PromLinkedList.cfg | pass | 580,308 | Appends, pushes, pops, removes and purges on up to 4 nodes, with node allocations failing and an unlocked reader walking, behave as a sequence (`Refinement`). Between calls the chain from `head` has `size` distinct live nodes and ends at `tail` (`Shape`). |
| list_walk_append | PromLinkedListWalk.cfg | violation | | A reader that follows `tail->next` right after `append` links a node reads the node's unwritten `next` (`WalkReadsLinkedNodes`). |
| map_all_ops | PromMapAllOps.cfg | pass | 39,907 | With deletes and failing lookups, the structure stays well formed, size_t wrap included (`TypeOK`). Every freed node is unlinked (`NoFreedNodeReachable`). |
| map_structure | PromMapStructure.cfg | pass | 6,845 | Three keys through resizes, with node allocations and the resize's allocations before its move loop failing: the keys list names each node once (`KeyListExact`), `size` counts the entries (`SizeCountsEntries`), and sets, gets and resizes behave as a dictionary (`Refinement`). |
| sb_safe | PromStringBuilder.cfg | pass | 206 | Every read or write lies inside the block (`MemorySafe`), and the block holds the string and its terminator (`CapacityCoversLength`). |
| sample_ops | PromSample.cfg | pass | 380,528 | Three threads on a counter and a gauge: every call is linearizable (`Linearizable`, the refinement of `AtomicSample`). Every CAS loop ends (`CallsReturn`). |
| metric_counts | PromMetric.cfg | pass | 61,895 | With node, realloc, dump and sample allocations failing, the sample bound to each key counts every increment that resolved it and returned 0 (`KeyCountsExact`). Every render of the metric ends, with inserts and resizes during its walk (`RenderEnds`). |
| metric_render_resize | PromMetricResize.cfg | violation | | The unlocked walk reads a freed keys-list node after an insert resizes the map (`RendererReadsLive`). |
| metric_format_leftover | PromMetricLeftover.cfg | violation | | A failed `dump` leaves the l_value in the metric's formatter. The next increment, of whatever label set, goes to a sample keyed by the two l_values, and the label set's own sample misses it (`CountsExact`). |
| histogram_observe | PromHistogram.cfg | pass | 175,392 | Buckets equal the cumulative reference, and +Inf = count (`BucketsCumulative`). An unlocked render never shows a lower bucket above a higher one (`RenderedMonotone`). |
| registry_register | PromRegistry.cfg | pass | 312,227 | `default_init` may bind a NULL default collector or fail to add "process", and `register_collector`'s set may fail. No registration that returned 0 is lost (`RegistrationsKept`). Every scrape renders each metric registered before it began (`RenderCoversRegistered`). Each process collect that succeeds sets the gauges to the soft limits the kernel wrote for open files and address space (`ProcessLimitsExposed`). The registry lock is always released again (`LockReleased`, under `FairSpec`). |
| registry_shared_metric | PromRegistryShared.cfg | violation | | Two concurrent `register_metric` calls of one name both return 0, and the second frees the first metric (`RegistrationsKept`). |

Each property of a passing run has a mutant in `PROJECT.json`: a plausible
bug in a mapped definition, which TLC must catch under that run's cfg. For
example:

* `AboveOrEqual` changes the break of the bucket loop from `>` to `>=`;
* `BucketIndexAscending` runs the loop upwards;
* `RCLockNoWait` drops the registry lock;
* `RCGetKeepLock` returns -EEXIST without unlocking;
* `CasFailNoReload` forgets to reload `old`;
* `HasRoomNoNul` forgets the terminator;
* `PopClearFirst` clears the node's item before reading it;
* `GenericLimitShort` copies one digit too few;
* `LookupNoCompare` returns a bucket's first node without comparing keys.

### Bounds, and why they are enough

* **Maps** start with 2 buckets instead of 32; the hash and the resize rule
  do not depend on the size. The keys `a`, `e`, `d` (and `b`) are chosen so
  that chains form and resizes reorder the keys list (see `MCPromMap`). In
  `map_structure` the third key forces a resize, whose allocations before
  the move loop may fail (a failure inside the loop breaks the map, and
  its properties with it: section 5);
  overwrites and deletes are left to `map_all_ops`, because they break
  `KeyListExact` and `Refinement` (section 5).
  `MaxAlloc` and `MaxSize` bound the allocations and the size.
* **Samples:** 3 threads with 2 calls each is the smallest setting in which
  one thread's CAS loses twice to two others.
* **Metrics:** 2 workers and 2 or 3 label sets. A third insert resizes
  the samples map; in `metric_counts` the keys that failed calls leave
  behind make the extra inserts. The l_values (`c{k="a"}` and so on) are 8
  characters long and the builder starts at 8 bytes instead of 32, so that,
  as with longer names in the code, the final `}` of a fresh load needs a
  `realloc`, and a leftover makes the next load grow twice. All three
  l_values hash to one bucket until the map has 8 buckets, so chains form.
* **Histograms:** 2 bounds, and values below, equal to and above them. The
  equal value is what tells `>` from `>=`. 2 threads with 2 observations
  each, and a renderer running all the time.
* **Registry:** 2 workers with 2 calls each. The collector names collide
  with each other and with "process". Each worker registers its own metric
  name twice, so the -EEXIST paths run.
* **Limits files:** `MCPromRegistry` writes the kernel's sixteen rows, in
  the kernel's order, with two sets of values. The first set is a default
  process: 1024 open files and an unlimited address space. The second is a
  capped one: 524288 files and 1073741824 bytes. Together they cover:
  * `unlimited`;
  * 1- to 10-digit values; 10 digits is the widest value whose double
    advance still lands in the padding;
  * the two unitless rows;
  * the failed open.
* **Linked list:** 4 nodes and 2 items. That is enough for a remove in the
  middle and at the tail, and for a pop or purge to free nodes while the
  reader stands on them. In the walk run, one append on 2 nodes is enough.

### Fairness

Liveness is checked only where the code's scheduling justifies it.

* `CallsReturn` assumes weak fairness of each thread's CAS steps. Threads
  are OS threads, so one that can step eventually does.
* A spurious failure of `atomic_compare_exchange_weak` changes nothing and
  is a stutter step. Weak fairness does not force the CAS to succeed: the
  loop ends because some thread's CAS succeeds whenever `old` is current.
* `RenderEnds` assumes weak fairness of the renderer and of the workers'
  in-call steps. Workers need not start new calls.
* `LockReleased` assumes weak fairness of `RCGet` and `RCSet` for each
  worker: a thread holding the registry lock is running and is scheduled.
  Nothing is assumed of threads waiting for the lock. Taking it (`RCLock`)
  starts a call, and a worker need not start one.

## 4. Findings

1. **Render races a resize** (`prom_metric_formatter.c:301`, run
   metric_render_resize). `load_metric` walks `metric->samples->keys`
   holding no lock. A worker inserting a new label set can resize the map,
   which frees the list and every key copy under the walk.
2. **Append publishes an unfinished node** (`prom_linked_list.c:127`, run
   list_walk_append). `prom_linked_list_append` stores `tail->next = node`
   before `node->next = NULL`. A render walking the samples' keys list
   with no lock can follow the new node and read its uninitialised `next`
   as a pointer.
3. **Concurrent metric registration** (`prom_collector.c:160`, run
   registry_shared_metric). `prom_collector_add_metric` makes a get and then
   a set with no lock. Two registrations of one name both succeed, and the
   later one frees the earlier metric. spec.md property 9 says the second
   registration must fail with already-exists.
4. **A failed call poisons the next key** (`prom_metric.c:212`, run
   metric_format_leftover). `prom_metric_sample_from_labels` renders the
   l_value into the metric's formatter, which lives as long as the metric.
   When `dump` fails (or an add of `load_l_value` does, line 206), it
   unlocks and returns NULL without clearing the formatter. The next call
   on the metric appends its own l_value to the leftover text, creates a
   sample under the concatenation and counts its increment there. The
   label set's own sample never sees it, and the exposition shows a line
   whose name is two l_values. spec.md 2 calls the formatter stateless per
   call. `KeyCountsExact` in `metric_counts` holds through the same
   failures: the lock keeps the counts exact per key, and only the key is
   wrong.

## 5. Reproducing the other disagreements

The problems below are listed as hazards in `PROJECT.json`. None of them is
a run of its own: each is reproduced by changing one constant of a passing
configuration.

| Problem | How to reproduce | Result |
|---|---|---|
| Close bounds share one sample (`prom_metric_sample_histogram.c:245`): buckets are keyed by the `%f` text of their bound, so 1.0e-6 and 1.4e-6 share one sample, which each observation increments twice | run `MCPromHistogram` with `PromHistogramClose.cfg` | `BucketsCumulative` fails |
| Zero-width linear buckets (`prom_histogram_buckets.c:88`): `buckets_linear(1e-6, 0, 2)` gives two equal bounds, which `prom_histogram_new` accepts; they share one sample | run `MCPromHistogram` with `PromHistogramZeroWidth.cfg` | `BucketsCumulative` fails |
| Failed append in the metric's `set` (`prom_map.c:349`) | `MapMayFail = {"node", "append"}` in `PromMetric.cfg` | `KeyCountsExact` fails: a sample missing from its bucket takes an increment, and a second sample is created for its key |
| Overwrite leaves the keys list stale (`prom_map.c:341`) | run `MCPromMap` with `PromMapKeysOverwrite.cfg` | `KeyListExact` fails |
| Delete never unlinks the node (`prom_map.c:542`) | add `"delete"` to `Ops` in `PromMapStructure.cfg` and check `Refinement` alone | `Refinement` fails |
| Failed list append in `set` is ignored (`prom_map.c:349`) | `MayFail = {"append"}` in `PromMapStructure.cfg`, checking `Refinement` alone | `Refinement` fails |
| A failed `get` allocation looks like a miss (`prom_map.c:280`) | `MayFail = {"get"}` in `PromMapStructure.cfg`, checking `Refinement` alone | `Refinement` fails |
| ... and the metric then creates a second sample (`prom_metric.c:218`) | `MapMayFail = {"get"}` in `PromMetric.cfg` | `KeyCountsExact` fails |
| Label values are not escaped (`prom_metric_formatter.c:193`): label sets (`a",j="b`, `c`) and (`a`, `b",j="c`) both render `c{k="a",j="b",j="c"}` | run `MCPromMetric` with `PromMetricEscape.cfg` | `CountsExact` fails: the two label sets share one sample |
| Resize that fails halfway (`prom_map.c:449`) | `MayFail = {"move"}` and a third key in `PromMapAllOps.cfg`; or `MayFail = {"move"}` in `PromMapStructure.cfg`, checking one property at a time | `NoFreedNodeReachable` fails; `KeyListExact`, `SizeCountsEntries` and `Refinement` each fail |
| `realloc` failure leaves `allocated` doubled (`prom_string_builder.c:116`) | `MayFail = {"realloc"}` in `PromStringBuilder.cfg` | `CapacityCoversLength` fails at once; `MemorySafe`, checked alone, fails a few steps later |
| `init` failure in `clear` (`prom_string_builder.c:192`) | `MayFail = {"init"}` in `PromStringBuilder.cfg` | `MemorySafe` fails |
| Negative deltas rejected for gauges (`prom_metric_sample.c:99`) | run `MCPromSample` with `PromSampleGaugeNegative.cfg` | `Linearizable` fails |
| Negative observation counted but not summed (`prom_metric_sample_histogram.c:532`) | `Values <- ValuesWithNegative` in `PromHistogram.cfg` | `BucketsCumulative` fails |
| Registry seeded with a NULL default collector (`prom_collector_registry.c:80`): spec.md 3 says the registry always holds a "default" collector | run `MCPromRegistry` with `PromRegistrySeeded.cfg` | `DefaultSeeded` fails: `default_init` returns 0 with the entry NULL |

One more disagreement is visible in `registry_register`'s state space, but
no property checks it. When the limits file cannot be opened (for instance
because the descriptor table is full), `BProcessCollect` ends the walk at
"process", as `load_metrics` does with -ENOENT. `bridge`
(`prom_collector_registry.c:294`) ignores that result and returns the text
rendered so far as a complete scrape, although spec.md section 7 asks for a
failed render. Every collector after "process" is missing from that scrape.
`RenderCoversRegistered` does not catch this: it tracks the metrics
`register_metric` adds, and those live in the default collector, which is
rendered first.

## 6. What is not modelled

* **`observe`'s early returns.** `prom_metric_sample_histogram_observe`
  returns through `HANDLE_UNLOCK` when a map get, `bucket_to_str` or a
  `sample_add` fails inside the bucket loop or at +Inf and count. The
  histogram's maps are complete, so only allocation failures take them,
  and each leaves the buckets ahead of the count, which the only
  histogram run's `BucketsCumulative` would report; the hazard list
  records it. `bucket_to_str`'s own malloc is unchecked, so its NULL
  return crashes in `sprintf` before observe can test it.
* **Construction and destruction failure paths.** Covered elsewhere:
  failures inside map, builder and metric operations. Not covered:
  * `prom_metric_sample_histogram_new` leaks `self`, and destroys partly
    initialised structs;
  * the allocations `prom_collector_registry_new` checks (each frees what
    was made and returns NULL, leaving nothing behind);
  * every `*_destroy` function.

  Each is a hazard with a note.
* **Concurrent first calls to `default_init`.** The model runs it on the
  main thread before the workers start, the only usage the code supports.
  spec.md 9 asks for idempotent concurrent initialisation, and the hazard
  list records the race.
* **Inside `PromMap`, lists are sequences**, because each map call runs
  under the map lock. The window inside `prom_linked_list_append` is
  modelled in `PromLinkedList`, where the reader has no lock.
* **`prom_linked_list_destroy` and the setters** of the free and compare
  functions. They belong to the construction and teardown of the owning
  map.
* **Parser inputs beyond 32 bits.** TLC integers are 32-bit, so the runs
  cannot write a limit of 2^31 or more. The C parser fails on such limits
  in two ways:
  * `atoi` into an `int` wraps them: 4294967296 becomes 0 with glibc's
    `(int)strtol`;
  * an 11-digit value moves the index past the padding into the hard-limit
    field, and the hard value is read from the middle of its digits.

  Both are hazards with notes.
* **Files the kernel does not write.** A last row without units crashes in
  `strdup(NULL)`. A unitless row takes the next row's "Max" as its units,
  and the row after it loses the "Max " of its key. On the kernel's file
  this hits only the two priority rows, which come after the rows the
  collector reads. The `ASSUME` rules out the crash.
* **The stat part of `process_collect`.** The `prom_process_stat_*`
  functions it calls have no definition under `src/`. Its gauges, and the
  open-fd count of `prom_process_fds.c`, are read by no property. The leak
  of the limits map when the stat file is missing, and the unchecked
  `stat` pointer, are hazards.
* **`clear`'s `init` failing inside the metric's `dump`.** It leaves `str`
  NULL with the old `len`, and the next call's adds write at NULL + len or
  copy uninitialised bytes into the key. `PromStringBuilder` checks the
  builder itself (`MemorySafe`); `PromMetricFormatter` does not take this
  failure.
* **Rendered text.** Formatting of HELP, TYPE and sample lines, and the
  50-byte `%f` buffer of `load_sample`. Values are small integers, so the
  overflow for magnitudes of 1e42 and above is a hazard only.
* **NULL buckets.** `prom_histogram_new` turns NULL buckets into the
  never-assigned default, which is NULL. That includes the result of
  `buckets_linear` with count 1. The first observe then dereferences it
  while it builds the HistogramSample. `HistogramNew` gives this NULL
  (`DefaultBuckets`). `PromHistogram` assumes at least one bound, so the
  crash itself is a hazard only. The same holds for `buckets_new` with
  count 0. `buckets_destroy` only frees and is not modelled.
* **Bucket constructors.** Bounds are integers, so the double rounding of
  `buckets_linear` and `_exponential` is not modelled. Also not modelled:
  the HTTP routing in `promhttp.c`, and FORT's `csv.c`.
