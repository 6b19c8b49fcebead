---------------------------- MODULE LightStepSink ----------------------------
(***************************************************************************)
(* LightStepSpanSink: span workers hand spans to one of several LightStep   *)
(* tracers and count them by service in a concurrent map of counters, which *)
(* a flush ranges over and resets.                                          *)
(***************************************************************************)
EXTENDS Integers, Sequences, FiniteSets, FiniteSetsExt

CONSTANTS Spans,       \* each is ingested by a goroutine of its own
          SpanOf,      \* [traceId, service]; a span without a trace id is no valid span
          Configured,  \* values of lightstep_num_clients
          MaxFlushes,  \* bound on the flushes
          nil

Service(s) == IF SpanOf[s].service = "" THEN "unknown" ELSE SpanOf[s].service
Services == {Service(s) : s \in Spans}

VARIABLES tracers,      \* the spans each tracer has been given
          serviceCount, \* the map: service -> the counter it holds, or nil
          counter,      \* the value of every counter ever made; the maker's span names it
          ingest,       \* where each span's Ingest is: [pc, count]
          toVisit,      \* services the Range of a flush may still visit
          reported,     \* sums of what Flush has reported, by service
          flushes

vars == <<tracers, serviceCount, counter, ingest, toVisit, reported, flushes>>

\* "If config value is missing, this value should default to one client"
multiplex(n) == IF n <= 0 THEN 1 ELSE n

\* NewLightStepSpanSink
Init ==
  /\ \E n \in Configured : tracers = [k \in 0..(multiplex(n) - 1) |-> {}]
  /\ serviceCount = [v \in Services |-> nil] /\ counter = [s \in Spans |-> 0]
  /\ ingest = [s \in Spans |-> [pc |-> "new", count |-> nil]]
  /\ toVisit = {} /\ reported = [v \in Services |-> 0] /\ flushes = 0

-----------------------------------------------------------------------------
(* Ingest *)

At(s, pc) == ingest[s].pc = pc
Goto(s, pc) == ingest' = [ingest EXCEPT ![s].pc = pc]

\* TraceId % len(tracers): the remainder has the sign of the trace id.
tracerIndex(s) ==
  LET n == Cardinality(DOMAIN tracers) t == SpanOf[s].traceId
  IN  IF t >= 0 THEN t % n ELSE -((-t) % n)

\* ValidateTrace, then the span is built, tagged and finished on its tracer.
IngestSpan(s) ==
  /\ At(s, "new")
  /\ IF SpanOf[s].traceId = 0 \/ DOMAIN tracers = {} THEN Goto(s, "refused") /\ UNCHANGED tracers
     ELSE IF tracerIndex(s) \notin DOMAIN tracers THEN Goto(s, "panic") /\ UNCHANGED tracers
     ELSE /\ tracers' = [tracers EXCEPT ![tracerIndex(s)] = @ \cup {s}]
          /\ Goto(s, "load")
  /\ UNCHANGED <<serviceCount, counter, toVisit, reported, flushes>>

\* serviceCount.Load
Load(s) ==
  /\ At(s, "load")
  /\ ingest' = [ingest EXCEPT ![s] = IF serviceCount[Service(s)] = nil THEN [pc |-> "store", count |-> nil]
                                     ELSE [pc |-> "add", count |-> serviceCount[Service(s)]]]
  /\ UNCHANGED <<tracers, serviceCount, counter, toVisit, reported, flushes>>


\* serviceCount.LoadOrStore(service, &c): another goroutine's counter wins if it came first.
LoadOrStore(s) ==
  /\ At(s, "store")
  /\ serviceCount' = [serviceCount EXCEPT ![Service(s)] = IF @ = nil THEN s ELSE @]
  /\ ingest' = [ingest EXCEPT ![s] = [pc |-> "add", count |-> serviceCount'[Service(s)]]]
  /\ UNCHANGED <<tracers, counter, toVisit, reported, flushes>>

\* atomic.AddInt64
Add(s) ==
  /\ At(s, "add") /\ Goto(s, "done")
  /\ counter' = [counter EXCEPT ![ingest[s].count] = @ + 1]
  /\ UNCHANGED <<tracers, serviceCount, toVisit, reported, flushes>>

Ingest(s) == IngestSpan(s) \/ Load(s) \/ LoadOrStore(s) \/ Add(s)

-----------------------------------------------------------------------------
(* Flush *)

\* The Range of a flush starts: it visits every service the map has now, and may visit more.
FlushRange ==
  /\ toVisit = {} /\ flushes < MaxFlushes /\ flushes' = flushes + 1
  /\ toVisit' \in SUBSET Services
  /\ {v \in Services : serviceCount[v] # nil} \subseteq toVisit'
  /\ UNCHANGED <<tracers, serviceCount, counter, ingest, reported>>

\* atomic.SwapInt64(value, 0); a service that is not in the map is passed by.
FlushService(v) ==
  /\ v \in toVisit /\ toVisit' = toVisit \ {v}
  /\ IF serviceCount[v] = nil THEN UNCHANGED <<counter, reported>>
     ELSE /\ reported' = [reported EXCEPT ![v] = @ + counter[serviceCount[v]]]
          /\ counter' = [counter EXCEPT ![serviceCount[v]] = 0]
  /\ UNCHANGED <<tracers, serviceCount, ingest, flushes>>

Next == FlushRange \/ (\E v \in Services : FlushService(v)) \/ \E s \in Spans : Ingest(s)

Spec == Init /\ [][Next]_vars

-----------------------------------------------------------------------------
(* Properties *)

\* However goroutines race to make a service's first counter, every span is in exactly one
\* report or still in the counter the next flush will report.
ServiceCounts ==
  \A v \in Services :
    reported[v] + (IF serviceCount[v] = nil THEN 0 ELSE counter[serviceCount[v]])
      = Cardinality({s \in Spans : At(s, "done") /\ Service(s) = v})

\* The spans of a trace all go to one tracer, and every valid span goes to some tracer,
\* whatever number of clients is configured.
OneTracerPerTrace ==
  /\ \A j, k \in DOMAIN tracers : \A s \in tracers[j], u \in tracers[k] :
       SpanOf[s].traceId = SpanOf[u].traceId => j = k
  /\ \A s \in Spans : At(s, "refused") => SpanOf[s].traceId = 0
=============================================================================
