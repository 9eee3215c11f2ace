---------------------------- MODULE PromRegistry ----------------------------
(***************************************************************************)
(* The default registry of src/src/monitor/impl/prom_collector_registry.c  *)
(* and its collectors (prom_collector.c): a main thread runs               *)
(* prom_collector_registry_default_init, worker threads then register      *)
(* collectors and metrics, and the HTTP thread renders the registry with   *)
(* prom_collector_registry_bridge (prom_metric_formatter_load_metrics).    *)
(*                                                                         *)
(* Every map is a dictionary plus the order of its `keys` list: PromMap    *)
(* refines a dictionary, and each map call is one step under the map's     *)
(* lock.  An overwrite keeps the key's place in the list.  Objects are     *)
(* the two built-in collectors and <<thread, call>> for what a worker      *)
(* registers; `destroyed` holds the objects a map's free_value_fn freed.   *)
(***************************************************************************)
EXTENDS Naturals, Sequences, FiniteSets, TLC

CONSTANTS
  Threads,          \* worker threads
  CollectorNames,   \* names of the collectors workers register
  MetricNamesOf,    \* MetricNamesOf[t]: names of the metrics t registers
  MaxCalls,         \* registration calls per worker
  LimitsFiles,      \* the /proc/self/limits files a collect may read
  MayFail,          \* allocations that may fail: "collector" (the default
                    \* one), "process", and "set", the collectors-map
                    \* set of register_collector
  NoObj             \* NULL; as a limits file, one fopen could not open

ASSUME MayFail \subseteq {"collector", "process", "set"}

PL == INSTANCE PromProcessLimits

\* prom_process_limits on each file, as the kernel writes it.
Parsed == [f \in LimitsFiles |-> PL!ParseLimits(PL!LimitsBuffer(f))]

\* A parse that crashes the process (units of NULL given to strdup) is not
\* a step of the model: every limits file ends with a row that has units.
ASSUME \A f \in LimitsFiles : Parsed[f].status # "crash"

\* The collectors prom_collector_registry_new and enable_process_metrics
\* create, and the metrics prom_collector_process_new adds (two of six).
DefaultColl == <<"registry", 1>>
ProcessColl == <<"registry", 2>>
ProcessMetrics == <<"process_max_fds", "process_open_fds">>
ProcessMetric(i) == <<"process", i>>

Objs == {DefaultColl, ProcessColl} \cup (Threads \X (1 .. MaxCalls))
        \cup {ProcessMetric(i) : i \in 1 .. 2}

VARIABLES
  inited,      \* PROM_COLLECTOR_REGISTRY_DEFAULT != NULL
  mainPc,      \* the main thread in default_init: "new", "enable";
               \* "done" once a call has returned 0
  colls,       \* the registry's collectors map: name -> collector
  corder,      \* the collector names in collectors->keys order
  mets,        \* mets[c]: collector c's metrics map: name -> metric
  morder,      \* morder[c]: the metric names in its keys order
  destroyed,   \* objects freed by a map's free_value_fn
  lock,        \* the thread holding the registry's rwlock
  pc,          \* a worker: "idle", "rcget", "rcset", "amget", "amset"
  nm,          \* the name being registered
  dc,          \* the default collector register_metric found
  calls,       \* calls the worker has made
  kept,        \* ghost: registrations that returned 0
  rpc,         \* bridge: "idle", "coll" (at collector ci), "metric"
  ci, mi,      \* positions in corder and in the current collector's list
  rc,          \* the collector being rendered
  rendered,    \* metrics rendered by the current walk
  snap,        \* ghost: metric registrations kept when the walk started
  lastWalk,    \* ghost: snap and rendered of the last finished walk
  gauges,      \* process_max_fds and process_virtual_memory_max_bytes
  limitsRead   \* ghost: the limits file of the last collect that set them

regVars == <<inited, mainPc, colls, corder, mets, morder, destroyed, lock>>
workerVars == <<pc, nm, dc, calls, kept>>
bridgeVars == <<rpc, ci, mi, rc, rendered, snap, lastWalk, gauges, limitsRead>>
vars == <<regVars, workerVars, bridgeVars>>

Dom(f) == DOMAIN f

\* prom_map_set(map, k, v) on a dictionary and its keys order: an overwrite
\* keeps the place and frees the old value.
Bind(f, k, v) == (k :> v) @@ f
Order(o, f, k) == IF k \in Dom(f) THEN o ELSE Append(o, k)
Freed(f, k) == IF k \in Dom(f) THEN {f[k]} ELSE {}

\* The object the worker registers in its current call.
NewObj(t) == <<t, calls[t]>>

(***************************************************************************)
(* default_init on the main thread, which calls it again while it returns *)
(* an error.  A registry already set returns 0 at once.  Otherwise         *)
(* prom_collector_registry_new("default") is stored in                     *)
(* PROM_COLLECTOR_REGISTRY_DEFAULT: a registry whose "default" entry is    *)
(* prom_collector_new("default"), bound unchecked, so NULL when that       *)
(* constructor fails.  (When one of the allocations it does check fails,   *)
(* it frees what it made and returns NULL, default_init returns -EINVAL    *)
(* and nothing the model keeps has changed.)                               *)
(***************************************************************************)
MainNew ==
  /\ mainPc = "new"
  /\ \/ /\ inited
        /\ mainPc' = "done"
        /\ UNCHANGED <<inited, colls, corder>>
     \/ /\ ~inited
        /\ inited' = TRUE
        /\ \E c \in {DefaultColl} \cup (IF "collector" \in MayFail THEN {NoObj} ELSE {}) :
             colls' = "default" :> c
        /\ corder' = <<"default">>
        /\ mainPc' = "enable"
  /\ UNCHANGED <<mets, morder, destroyed, lock, workerVars, bridgeVars>>

(***************************************************************************)
(* enable_process_metrics: prom_collector_process_new (a collector whose   *)
(* add_metric calls bind the process gauges), then prom_map_set of         *)
(* "process" on the collectors map, with no registry lock.  When the       *)
(* collector cannot be made, default_init returns -EINVAL with the         *)
(* registry already stored, and its next call returns 0 at the NULL test.  *)
(***************************************************************************)
MainEnable ==
  /\ mainPc = "enable"
  /\ \/ /\ colls' = Bind(colls, "process", ProcessColl)
        /\ corder' = Order(corder, colls, "process")
        /\ destroyed' = destroyed \cup Freed(colls, "process")
        /\ mets' = [mets EXCEPT ![ProcessColl] =
                      [n \in {ProcessMetrics[i] : i \in 1 .. 2} |->
                         ProcessMetric(CHOOSE i \in 1 .. 2 : ProcessMetrics[i] = n)]]
        /\ morder' = [morder EXCEPT ![ProcessColl] = ProcessMetrics]
        /\ mainPc' = "done"
     \/ /\ "process" \in MayFail
        /\ mainPc' = "new"
        /\ UNCHANGED <<colls, corder, destroyed, mets, morder>>
  /\ UNCHANGED <<inited, lock, workerVars, bridgeVars>>

\* Worker calls start once the application has initialised the registry:
\* register_metric dereferences PROM_COLLECTOR_REGISTRY_DEFAULT unchecked.
Start(t, to, n) ==
  /\ mainPc = "done"
  /\ pc[t] = "idle"
  /\ calls[t] < MaxCalls
  /\ pc' = [pc EXCEPT ![t] = to]
  /\ nm' = [nm EXCEPT ![t] = n]
  /\ calls' = [calls EXCEPT ![t] = @ + 1]

Return(t) == pc' = [pc EXCEPT ![t] = "idle"]

\* A later default_init finds the registry set and returns 0.
DefaultInitAgain(t) ==
  /\ Start(t, "idle", nm[t])
  /\ inited
  /\ UNCHANGED <<regVars, dc, kept, bridgeVars>>

\* Mutant: the -EEXIST return leaves the registry lock held.
RCGetKeepLock(t) ==
  /\ pc[t] = "rcget"
  /\ \/ /\ nm[t] \in Dom(colls)
        /\ Return(t)
     \/ /\ nm[t] \notin Dom(colls)
        /\ pc' = [pc EXCEPT ![t] = "rcset"]
  /\ UNCHANGED <<inited, mainPc, colls, corder, mets, morder, destroyed, lock,
                 nm, dc, calls, kept, bridgeVars>>

\* Mutant: rwlock_write_lock does not exclude the other writers.
RCLockNoWait(t, n) ==
  /\ Start(t, "rcget", n)
  /\ lock' = t
  /\ UNCHANGED <<inited, mainPc, colls, corder, mets, morder, destroyed,
                 dc, kept, bridgeVars>>

\* register_collector(registry, prom_collector_new(n)): take the lock.
RCLock(t, n) ==
  /\ Start(t, "rcget", n)
  /\ lock = NoObj
  /\ lock' = t
  /\ UNCHANGED <<inited, mainPc, colls, corder, mets, morder, destroyed,
                 dc, kept, bridgeVars>>

\* prom_map_get of the name: a collector already bound gives -EEXIST.
RCGet(t) ==
  /\ pc[t] = "rcget"
  /\ \/ /\ nm[t] \in Dom(colls)
        /\ lock' = NoObj
        /\ Return(t)
     \/ /\ nm[t] \notin Dom(colls)
        /\ pc' = [pc EXCEPT ![t] = "rcset"]
        /\ UNCHANGED lock
  /\ UNCHANGED <<inited, mainPc, colls, corder, mets, morder, destroyed,
                 nm, dc, calls, kept, bridgeVars>>

(***************************************************************************)
(* prom_map_set of the name, unlock, return 0.  When the set fails (its    *)
(* node allocation; the collectors map stays below its first resize), it   *)
(* changed nothing, and register_collector unlocks and returns the error.  *)
(***************************************************************************)
RCSet(t) ==
  /\ pc[t] = "rcset"
  /\ \/ /\ colls' = Bind(colls, nm[t], NewObj(t))
        /\ corder' = Order(corder, colls, nm[t])
        /\ destroyed' = destroyed \cup Freed(colls, nm[t])
        /\ kept' = kept \cup {[kind |-> "collector", name |-> nm[t], obj |-> NewObj(t)]}
     \/ /\ "set" \in MayFail
        /\ UNCHANGED <<colls, corder, destroyed, kept>>
  /\ lock' = NoObj
  /\ Return(t)
  /\ UNCHANGED <<inited, mainPc, mets, morder, nm, dc, calls, bridgeVars>>

(***************************************************************************)
(* register_metric(metric named n): prom_map_get of "default" on the       *)
(* collectors map, with no registry lock; the NULL that default_init bound *)
(* when prom_collector_new failed gives -ENOENT.                           *)
(***************************************************************************)
RMGet(t, n) ==
  /\ mainPc = "done"
  /\ \/ /\ colls["default"] # NoObj
        /\ Start(t, "amget", n)
        /\ dc' = [dc EXCEPT ![t] = colls["default"]]
     \/ /\ colls["default"] = NoObj
        /\ Start(t, "idle", n)
        /\ UNCHANGED dc
  /\ UNCHANGED <<regVars, kept, bridgeVars>>

\* prom_collector_add_metric: prom_map_get of the name on the collector's
\* metrics map, no lock held; a metric already bound gives -EEXIST.
AMGet(t) ==
  /\ pc[t] = "amget"
  /\ \/ /\ nm[t] \in Dom(mets[dc[t]])
        /\ Return(t)
     \/ /\ nm[t] \notin Dom(mets[dc[t]])
        /\ pc' = [pc EXCEPT ![t] = "amset"]
  /\ UNCHANGED <<regVars, nm, dc, calls, kept, bridgeVars>>

\* Mutant: the set does not reach the keys list.
AMSetNoKey(t) ==
  /\ pc[t] = "amset"
  /\ mets' = [mets EXCEPT ![dc[t]] = Bind(@, nm[t], NewObj(t))]
  /\ destroyed' = destroyed \cup Freed(mets[dc[t]], nm[t])
  /\ kept' = kept \cup {[kind |-> "metric", name |-> nm[t], obj |-> NewObj(t)]}
  /\ Return(t)
  /\ UNCHANGED <<inited, mainPc, colls, corder, morder, lock, nm, dc, calls,
                 bridgeVars>>

\* ... then prom_map_set, whose result is returned.
AMSet(t) ==
  /\ pc[t] = "amset"
  /\ mets' = [mets EXCEPT ![dc[t]] = Bind(@, nm[t], NewObj(t))]
  /\ morder' = [morder EXCEPT ![dc[t]] = Order(@, mets[dc[t]], nm[t])]
  /\ destroyed' = destroyed \cup Freed(mets[dc[t]], nm[t])
  /\ kept' = kept \cup {[kind |-> "metric", name |-> nm[t], obj |-> NewObj(t)]}
  /\ Return(t)
  /\ UNCHANGED <<inited, mainPc, colls, corder, lock, nm, dc, calls, bridgeVars>>

-----------------------------------------------------------------------------
(***************************************************************************)
(* bridge -> load_metrics: walk collectors->keys with no lock; for each    *)
(* collector, prom_map_get it and call its collect_fn (both return the     *)
(* metrics map; the process one refreshes its gauges first), then walk the *)
(* metrics' keys list and render each metric.  The walk starts once the    *)
(* application has set the active registry.                                *)
(***************************************************************************)
BStart ==
  /\ rpc = "idle"
  /\ mainPc = "done"
  /\ rpc' = "coll"
  /\ ci' = 1
  /\ rendered' = {}
  /\ snap' = {r \in kept : r.kind = "metric"}
  /\ UNCHANGED <<regVars, workerVars, mi, rc, lastWalk, gauges, limitsRead>>

\* The walk ends: past the last collector, or when a collector's entry or
\* its collect gave NULL and load_metrics returned -ENOENT (which bridge
\* does not look at).
EndWalk == /\ rpc' = "idle"
           /\ lastWalk' = [snap |-> snap, rendered |-> rendered]
           /\ UNCHANGED <<rc, mi>>

\* Render the metrics of collector c, whose collect_fn returned them.
Collected(c) == /\ rc' = c
                /\ mi' = 1
                /\ rpc' = "metric"
                /\ UNCHANGED lastWalk

BCollector ==
  /\ rpc = "coll"
  /\ \/ /\ ci <= Len(corder)
        /\ colls[corder[ci]] \notin {ProcessColl, NoObj}
        /\ Collected(colls[corder[ci]])
     \/ /\ ci <= Len(corder)
        /\ colls[corder[ci]] = NoObj
        /\ EndWalk
     \/ /\ ci > Len(corder)
        /\ EndWalk
  /\ UNCHANGED <<regVars, workerVars, ci, rendered, snap, gauges, limitsRead>>

(***************************************************************************)
(* prom_collector_process_collect on limits file f: the file is opened and *)
(* parsed, "Max open files" and "Max address space" are looked up, and     *)
(* their soft limits are set on the two gauges; NULL when the file cannot  *)
(* be opened, the parse fails, or a row is missing.  (The stat file and    *)
(* the open-fds count that follow set gauges no property reads.)           *)
(***************************************************************************)
LimitsFound(f) == /\ f # NoObj
                  /\ Parsed[f].status = "ok"
                  /\ {PL!MaxOpenFiles, PL!MaxAddressSpace} \subseteq DOMAIN Parsed[f].rows

BProcessCollect(f) ==
  /\ rpc = "coll"
  /\ ci <= Len(corder)
  /\ colls[corder[ci]] = ProcessColl
  /\ \/ /\ LimitsFound(f)
        /\ gauges' = [max_fds |-> Parsed[f].rows[PL!MaxOpenFiles].soft,
                      virtual_memory_max_bytes |-> Parsed[f].rows[PL!MaxAddressSpace].soft]
        /\ limitsRead' = f
        /\ Collected(ProcessColl)
     \/ /\ ~LimitsFound(f)
        /\ EndWalk
        /\ UNCHANGED <<gauges, limitsRead>>
  /\ UNCHANGED <<regVars, workerVars, ci, rendered, snap>>

BMetric ==
  /\ rpc = "metric"
  /\ \/ /\ mi <= Len(morder[rc])
        /\ rendered' = rendered \cup {mets[rc][morder[rc][mi]]}
        /\ mi' = mi + 1
        /\ UNCHANGED <<rpc, ci>>
     \/ /\ mi > Len(morder[rc])
        /\ rpc' = "coll"
        /\ ci' = ci + 1
        /\ UNCHANGED <<rendered, mi>>
  /\ UNCHANGED <<regVars, workerVars, rc, snap, lastWalk, gauges, limitsRead>>

-----------------------------------------------------------------------------
Init == /\ inited = FALSE
        /\ mainPc = "new"
        /\ colls = <<>>
        /\ corder = <<>>
        /\ mets = [c \in Objs |-> <<>>]
        /\ morder = [c \in Objs |-> <<>>]
        /\ destroyed = {}
        /\ lock = NoObj
        /\ pc = [t \in Threads |-> "idle"]
        /\ nm = [t \in Threads |-> NoObj]
        /\ dc = [t \in Threads |-> NoObj]
        /\ calls = [t \in Threads |-> 0]
        /\ kept = {}
        /\ rpc = "idle"
        /\ ci = 1
        /\ mi = 1
        /\ rc = NoObj
        /\ rendered = {}
        /\ snap = {}
        /\ lastWalk = [snap |-> {}, rendered |-> {}]
        /\ gauges = [max_fds |-> 0, virtual_memory_max_bytes |-> 0]
        /\ limitsRead = NoObj

Next == \/ MainNew \/ MainEnable
        \/ \E t \in Threads :
             \/ DefaultInitAgain(t)
             \/ \E n \in CollectorNames : RCLock(t, n)
             \/ RCGet(t) \/ RCSet(t)
             \/ \E n \in MetricNamesOf[t] : RMGet(t, n)
             \/ AMGet(t) \/ AMSet(t)
        \/ BStart \/ BCollector \/ BMetric
        \/ \E f \in LimitsFiles \cup {NoObj} : BProcessCollect(f)

Spec == Init /\ [][Next]_vars

\* A worker that has taken the registry lock is a running thread: the OS
\* keeps scheduling it until register_collector returns.
FairSpec == Spec /\ \A t \in Threads : WF_vars(RCGet(t)) /\ WF_vars(RCSet(t))

-----------------------------------------------------------------------------
(***************************************************************************)
(* spec.md 4.6 and 8 (property 9): a registration that returned 0 stays in *)
(* force: the name keeps the collector or metric registered under it, and  *)
(* a second registration of the name fails with already-exists instead of *)
(* replacing (and freeing) the first.  register_collector relies on the    *)
(* registry lock between its get and its set, add_metric on nothing.       *)
(***************************************************************************)
RegistrationsKept ==
  \A r \in kept :
    /\ r.kind = "collector" => colls[r.name] = r.obj
    /\ r.kind = "metric" => mets[DefaultColl][r.name] = r.obj
    /\ r.obj \notin destroyed

(***************************************************************************)
(* spec.md 4.5 (render_registry): a scrape renders every metric whose      *)
(* registration had returned 0 before the scrape began, although workers   *)
(* append to the keys lists it walks.                                      *)
(***************************************************************************)
RenderCoversRegistered ==
  {r.obj : r \in lastWalk.snap} \subseteq lastWalk.rendered

(***************************************************************************)
(* spec.md 3 and 6: the process collector's callback refreshes its gauges *)
(* with the process's resource limits.  The gauges set by                  *)
(* prom_collector_process_collect hold the soft limits the                 *)
(* kernel wrote for "Max open files" and "Max address space" in the file   *)
(* it read (-1 for unlimited), after the recursive-descent parser of       *)
(* prom_process_limits.c has walked every row before them.                 *)
(***************************************************************************)
ProcessLimitsExposed ==
  limitsRead # NoObj =>
    gauges = [max_fds |-> PL!KernelSoft(limitsRead, PL!MaxOpenFiles),
              virtual_memory_max_bytes |-> PL!KernelSoft(limitsRead, PL!MaxAddressSpace)]

(***************************************************************************)
(* spec.md 3 (Registry: a map from collector name to Collector, "always    *)
(* pre-seeded with a \"default\" collector"): once default_init has        *)
(* returned 0, the registry's "default" entry is a collector.              *)
(* prom_collector_registry_new binds prom_collector_new("default")         *)
(* without checking it for NULL.                                           *)
(***************************************************************************)
DefaultSeeded == mainPc = "done" => colls["default"] # NoObj

(***************************************************************************)
(* spec.md 5 (every map and registry operation blocks only while another   *)
(* holds the lock): the registry lock that register_collector takes is     *)
(* always released again, on its -EEXIST return and on its success      *)
(* alike, so no later registration waits forever.                       *)
(***************************************************************************)
LockReleased == lock # NoObj ~> lock = NoObj
=============================================================================
