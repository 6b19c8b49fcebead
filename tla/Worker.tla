------------------------------- MODULE Worker -------------------------------
(***************************************************************************)
(* The workers of veneur's servers (worker.go): the bounded channels that   *)
(* feed them, the Work loop, ProcessMetric, ImportMetric and Flush.         *)
(*                                                                         *)
(* A worker is <<s, i>>, the i-th of server s.  Each receive of the Work    *)
(* loop's select and each critical section under the worker's mutex is one  *)
(* step, so a Flush can fall between a receive and the sampling it leads    *)
(* to, and between two metrics of one imported chunk.                       *)
(*                                                                         *)
(* What a worker keeps between two flushes (WorkerMetrics in worker.go) and *)
(* what its samplers do (samplers/samplers.go) are operators on sets.       *)
(* A sample is a record [key, scope, n]: key is the MetricKey (name and     *)
(* type; the joined tags are part of the name here), scope the MetricScope, *)
(* n tells apart samples of the same series.  A WorkerMetrics is a set of   *)
(* entries, at most one for each (map, key):                                *)
(*   map  the Go map of the WorkerMetrics struct the sampler lives in,      *)
(*   all  the samples in its mergeable value (counter, HLL, t-digest),      *)
(*   own  the samples in the Local* fields of a Histo, {} for the others.   *)
(* Sums, sketches and digests are abstracted to the samples they contain:   *)
(* the properties are about which samples a published point accounts for.   *)
(* The configuration is the default one: count, min and max as aggregates   *)
(* and a nonempty percentile list.                                          *)
(***************************************************************************)
EXTENDS FiniteSets, Integers, Sequences

-----------------------------------------------------------------------------
(* WorkerMetrics and the samplers. *)

Types  == {"counter", "gauge", "histogram", "set", "timer", "status"}
Scopes == {"mixed", "local", "global"}

\* The map Upsert creates the entry in, and ProcessMetric samples into.
MixedMap  == [counter |-> "counters", gauge |-> "gauges", histogram |-> "histograms",
              set |-> "sets", timer |-> "timers", status |-> "localStatusChecks"]
GlobalMap == [counter |-> "globalCounters", gauge |-> "globalGauges"]
LocalMap  == [histogram |-> "localHistograms", set |-> "localSets", timer |-> "localTimers"]

\* Mutant of UpsertMap: veneurlocalonly is not looked at.
UpsertMapNoLocal(type, scope) ==
  IF scope = "global" /\ type \in {"counter", "gauge"} THEN GlobalMap[type] ELSE MixedMap[type]

UpsertMap(type, scope) ==
  CASE scope = "global" /\ type \in {"counter", "gauge"}          -> GlobalMap[type]
    [] scope = "local"  /\ type \in {"histogram", "set", "timer"} -> LocalMap[type]
    [] OTHER                                                      -> MixedMap[type]

\* ImportMetric: counters that are imported are global, the rest is mixed.
ImportScope(type) == IF type \in {"counter", "gauge"} THEN "global" ELSE "mixed"

Maps       == {"counters", "gauges", "histograms", "sets", "timers", "localStatusChecks",
               "globalCounters", "globalGauges", "localHistograms", "localSets", "localTimers"}
HistoMaps  == {"histograms", "timers", "localHistograms", "localTimers"}
\* Samplers that retain only the last value: Gauge and StatusCheck.
LastValue  == {"gauges", "globalGauges", "localStatusChecks"}

-----------------------------------------------------------------------------
NewWorkerMetrics == {}

Present(wm, map, key) == {e \in wm : e.map = map /\ e.key = key}
AllOf(es) == UNION {e.all : e \in es}
OwnOf(es) == UNION {e.own : e \in es}

\* What a sampler forgets when a new value comes in.
Overwritten(wm, map, key) ==
  IF map \in LastValue THEN AllOf(Present(wm, map, key)) ELSE {}

Keep(wm, map, key) ==
  IF map \in LastValue THEN {} ELSE AllOf(Present(wm, map, key))

\* Upsert the entry, then Sample: a Histo also counts the sample as its own.
Sample(wm, map, m) ==
  LET old == Present(wm, map, m.key)
  IN  (wm \ old) \cup
        {[map |-> map, key |-> m.key,
          all |-> Keep(wm, map, m.key) \cup {m},
          own |-> IF map \in HistoMaps THEN OwnOf(old) \cup {m} ELSE {}]}

\* Mutant of Combine: the import also goes into the Local* fields.
CombineAsSample(wm, map, j) ==
  LET old == Present(wm, map, j.key)
  IN  (wm \ old) \cup
        {[map |-> map, key |-> j.key,
          all |-> Keep(wm, map, j.key) \cup j.all,
          own |-> IF map \in HistoMaps THEN OwnOf(old) \cup j.all ELSE {}]}

\* Upsert the entry, then Combine: only the mergeable value takes the import.
Combine(wm, map, j) ==
  LET old == Present(wm, map, j.key)
  IN  (wm \ old) \cup
        {[map |-> map, key |-> j.key,
          all |-> Keep(wm, map, j.key) \cup j.all,
          own |-> OwnOf(old)]}

-----------------------------------------------------------------------------
(* The two ways out of a WorkerMetrics: points for the sinks, and JSONMetrics *)
(* for the upstream veneur.                                                  *)

\* Mutant of ExportType: global gauges stay behind.
ExportTypeNoGauges == [globalCounters |-> "counter", histograms |-> "histogram", sets |-> "set",
                       timers |-> "timer"]

\* The type Export gives a JSONMetric; flushForward corrects that of a timer.
ExportType == [globalCounters |-> "counter", globalGauges |-> "gauge",
               histograms |-> "histogram", sets |-> "set", timers |-> "timer"]

Export(wm) ==
  {[key |-> [name |-> e.key.name, type |-> ExportType[e.map]], all |-> e.all] :
     e \in {x \in wm : x.map \in DOMAIN ExportType}}

Point(e, facet, ms) == [map |-> e.map, key |-> e.key, facet |-> facet, ms |-> ms]

\* Histo.Flush: aggregates only if there were local samples, percentiles if asked.
HistoFlush(e, percentiles) ==
  (IF e.own # {} THEN {Point(e, "aggregate", e.own)} ELSE {}) \cup
  (IF percentiles THEN {Point(e, "percentile", e.all)} ELSE {})

\* Mutant of Flush: percentiles of mixed histograms whether or not there is an upstream.
FlushPercentiles(e, isLocal) ==
  CASE e.map \in {"counters", "gauges", "localSets", "localStatusChecks"} ->
         {Point(e, "value", e.all)}
    [] e.map \in HistoMaps -> HistoFlush(e, TRUE)
    [] OTHER -> IF isLocal THEN {} ELSE {Point(e, "value", e.all)}

\* generateInterMetrics for one sampler of a server that is, or is not, local.
Flush(e, isLocal) ==
  CASE e.map \in {"counters", "gauges", "localSets", "localStatusChecks"} ->
         {Point(e, "value", e.all)}
    [] e.map \in {"histograms", "timers"}           -> HistoFlush(e, ~isLocal)
    [] e.map \in {"localHistograms", "localTimers"} -> HistoFlush(e, TRUE)
    [] OTHER -> IF isLocal THEN {} ELSE {Point(e, "value", e.all)}

generateInterMetrics(wm, isLocal) == UNION {Flush(e, isLocal) : e \in wm}

\* The facets a sample of a type must be accounted under, once each.
Facets(type) == IF type \in {"histogram", "timer"} THEN {"aggregate", "percentile"}
                                                   ELSE {"value"}

-----------------------------------------------------------------------------
(* The workers. *)

CONSTANTS Servers,        \* the veneur instances
          NumWorkers,     \* len(Server.Workers)
          Names,          \* metric names (with their tags)
          Metrics,        \* the samples clients may send, each at most once
          Digest,         \* the fnv-1a digest of a MetricKey
          PacketChanCap,  \* capacity of PacketChan, 32 in NewWorker
          ImportChanCap   \* capacity of ImportChan, 32 in NewWorker

Key    == [name : Names, type : Types]
Workers == Servers \X (0 .. NumWorkers - 1)

ASSUME WorkerAssumption ==
  /\ NumWorkers \in Nat \ {0}
  /\ Metrics \subseteq [key : Key, scope : Scopes, n : Nat]
  /\ Digest \in [Key -> Nat]
  /\ PacketChanCap \in Nat \ {0}
  /\ ImportChanCap \in Nat \ {0}

VARIABLES packetChan,  \* PacketChan of each worker
          importChan,  \* ImportChan of each worker
          hand,        \* the metric Work has received and not yet processed
          chunk,       \* the JSONMetrics of a received chunk not yet imported
          wm,          \* Worker.wm
          processed,   \* Worker.processed
          imported,    \* Worker.imported
          accepted,    \* the samples each server has taken in so far
          overwritten  \* samples whose value a gauge or status check replaced

workerVars == <<packetChan, importChan, hand, chunk, wm, processed, imported,
                accepted, overwritten>>

JSONMetric == [key : Key, all : SUBSET Metrics]

AllAccepted == UNION {accepted[s] : s \in Servers}

\* Which worker of server s a series belongs to.
WorkerOf(s, key) == <<s, Digest[key] % NumWorkers>>

WorkerInit ==
  /\ packetChan = [w \in Workers |-> <<>>]
  /\ importChan = [w \in Workers |-> <<>>]
  /\ hand       = [w \in Workers |-> {}]
  /\ chunk      = [w \in Workers |-> {}]
  /\ wm         = [w \in Workers |-> NewWorkerMetrics]
  /\ processed  = [w \in Workers |-> 0]
  /\ imported   = [w \in Workers |-> 0]
  /\ accepted   = [s \in Servers |-> {}]
  /\ overwritten = {}

\* A packet with metric m is parsed and sent to the worker its digest selects;
\* the reader blocks while the channel is full.
HandleMetricPacket(s, m) ==
  LET w == WorkerOf(s, m.key)
  IN  /\ m \in Metrics \ AllAccepted
      /\ Len(packetChan[w]) < PacketChanCap
      /\ packetChan' = [packetChan EXCEPT ![w] = Append(@, m)]
      /\ accepted' = [accepted EXCEPT ![s] = @ \cup {m}]
      /\ UNCHANGED <<importChan, hand, chunk, wm, processed, imported, overwritten>>

\* A chunk of imported metrics goes to worker w; the importer blocks while the
\* channel is full.
SendImport(w, js) ==
  /\ Len(importChan[w]) < ImportChanCap
  /\ importChan' = [importChan EXCEPT ![w] = Append(@, js)]
  /\ UNCHANGED <<packetChan, hand, chunk, wm, processed, imported, accepted, overwritten>>

-----------------------------------------------------------------------------
(* Work: one case of the select at a time. *)

Selecting(w) == hand[w] = {} /\ chunk[w] = {}

WorkPacket(w) ==
  /\ Selecting(w)
  /\ packetChan[w] # <<>>
  /\ hand' = [hand EXCEPT ![w] = {Head(packetChan[w])}]
  /\ packetChan' = [packetChan EXCEPT ![w] = Tail(@)]
  /\ UNCHANGED <<importChan, chunk, wm, processed, imported, accepted, overwritten>>

ProcessMetric(w) ==
  \E m \in hand[w] :
    LET map == UpsertMap(m.key.type, m.scope)
    IN  /\ hand' = [hand EXCEPT ![w] = {}]
        /\ processed' = [processed EXCEPT ![w] = @ + 1]
        /\ wm' = [wm EXCEPT ![w] = Sample(@, map, m)]
        /\ overwritten' = overwritten \cup Overwritten(wm[w], map, m.key)
        /\ UNCHANGED <<packetChan, importChan, chunk, imported, accepted>>

WorkImport(w) ==
  /\ Selecting(w)
  /\ importChan[w] # <<>>
  /\ chunk' = [chunk EXCEPT ![w] = Head(importChan[w])]
  /\ importChan' = [importChan EXCEPT ![w] = Tail(@)]
  /\ UNCHANGED <<packetChan, hand, wm, processed, imported, accepted, overwritten>>

\* Mutant of ImportMetric: the metric is counted as processed here too.
ImportMetricCounted(w) ==
  \E j \in chunk[w] :
    LET map == UpsertMap(j.key.type, ImportScope(j.key.type))
    IN  /\ chunk' = [chunk EXCEPT ![w] = @ \ {j}]
        /\ imported' = [imported EXCEPT ![w] = @ + 1]
        /\ processed' = [processed EXCEPT ![w] = @ + 1]
        /\ wm' = [wm EXCEPT ![w] = Combine(@, map, j)]
        /\ overwritten' = overwritten \cup Overwritten(wm[w], map, j.key)
        /\ UNCHANGED <<packetChan, importChan, hand, accepted>>

ImportMetric(w) ==
  \E j \in chunk[w] :
    LET map == UpsertMap(j.key.type, ImportScope(j.key.type))
    IN  /\ chunk' = [chunk EXCEPT ![w] = @ \ {j}]
        /\ imported' = [imported EXCEPT ![w] = @ + 1]
        /\ wm' = [wm EXCEPT ![w] = Combine(@, map, j)]
        /\ overwritten' = overwritten \cup Overwritten(wm[w], map, j.key)
        /\ UNCHANGED <<packetChan, importChan, hand, processed, accepted>>

WorkStep(w) == WorkPacket(w) \/ ProcessMetric(w) \/ WorkImport(w) \/ ImportMetric(w)

\* Mutant of FlushWorker: the WorkerMetrics is returned and kept.
FlushWorkerKeep(w) ==
  /\ processed' = [processed EXCEPT ![w] = 0]
  /\ imported' = [imported EXCEPT ![w] = 0]
  /\ UNCHANGED <<packetChan, importChan, hand, chunk, wm, accepted, overwritten>>

\* Flush swaps in a fresh WorkerMetrics and zeroes the counts; the caller reads
\* what is returned, wm[w] and processed[w], in the same step.
FlushWorker(w) ==
  /\ wm' = [wm EXCEPT ![w] = NewWorkerMetrics]
  /\ processed' = [processed EXCEPT ![w] = 0]
  /\ imported' = [imported EXCEPT ![w] = 0]
  /\ UNCHANGED <<packetChan, importChan, hand, chunk, accepted, overwritten>>

-----------------------------------------------------------------------------
Entry == [map : Maps, key : Key, all : SUBSET Metrics, own : SUBSET Metrics]

\* The type of the workers' state: Worker and WorkerMetrics in worker.go.
WorkerTypeOK ==
  /\ packetChan \in [Workers -> Seq(Metrics)]
  /\ importChan \in [Workers -> Seq(SUBSET JSONMetric)]
  /\ hand \in [Workers -> SUBSET Metrics]
  /\ chunk \in [Workers -> SUBSET JSONMetric]
  /\ wm \in [Workers -> SUBSET Entry]
  /\ processed \in [Workers -> Nat]
  /\ imported \in [Workers -> Nat]
  /\ accepted \in [Servers -> SUBSET Metrics]
  /\ overwritten \in SUBSET Metrics
=============================================================================
