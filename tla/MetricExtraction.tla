-------------------------- MODULE MetricExtraction --------------------------
(***************************************************************************)
(* The sink that extracts metrics from spans: a span that comes in over the *)
(* wire is normalised, span workers convert its samples and send them, one  *)
(* by one, into the channels of the metric workers, then derive an          *)
(* indicator timer and a uniqueness set from it, and at last add to two     *)
(* counters, which a flush reports and resets.                              *)
(***************************************************************************)
EXTENDS Parser

CONSTANTS Spans,      \* each is ingested by a span worker of its own
          SpanOf,     \* what came over the wire
          WorkerOf,   \* the worker a digest is routed to, by the metric's name
          ChanCap,    \* capacity of a worker's channel
          TimerName,  \* indicator_span_timer_name
          MaxFlushes  \* bound on the flushes

Workers == {WorkerOf[n] : n \in DOMAIN WorkerOf}

VARIABLES span,     \* the normalised spans, a partial function
          ingest,   \* where each Ingest is: [pc, out, count]; out is still to be sent
          channel,  \* the workers' channels
          received, \* what each worker has taken from its channel
          metricsGenerated, spansProcessed,
          reported, \* sums of what Flush has reported
          flushes   \* how many, and whether one is between its two swaps

vars == <<span, ingest, channel, received, metricsGenerated, spansProcessed, reported, flushes>>

Init ==
  /\ span = [s \in {} |-> 0]
  /\ ingest = [s \in Spans |-> [pc |-> "new", out |-> <<>>, count |-> 0]]
  /\ channel = [w \in Workers |-> <<>>] /\ received = [w \in Workers |-> <<>>]
  /\ metricsGenerated = 0 /\ spansProcessed = 0
  /\ reported = [metrics |-> 0, spans |-> 0] /\ flushes = [n |-> 0, half |-> FALSE]

At(s, pc) == ingest[s].pc = pc

-----------------------------------------------------------------------------
(* ParseSSF *)

\* A span without a name takes it from its tag "name", and a sample rate of 0 is one of 1, in
\* hundredths.
Normalize(sp) ==
  [sp EXCEPT !.metrics = [i \in DOMAIN @ |-> IF @[i].rate = 0 THEN [@[i] EXCEPT !.rate = 100] ELSE @[i]],
             !.name = IF @ = "" THEN sp.nameTag ELSE @,
             !.nameTag = IF sp.name = "" THEN "" ELSE @]

ParseSSF(s) ==
  /\ At(s, "new") /\ span' = Update(span, s, Normalize(SpanOf[s]))
  /\ ingest' = [ingest EXCEPT ![s].pc = "convert"]
  /\ UNCHANGED <<channel, received, metricsGenerated, spansProcessed, reported, flushes>>

-----------------------------------------------------------------------------
(* metricExtractionSink.Ingest *)

\* A sample's results, all alike but for the scope; ValidMetric wants a name.
Good(m) == ~m.err /\ m.ret.name # ""
Valid(sample) == \A m \in ParseMetricSSF(sample) : Good(m)

Sample(name, type, rate) == [name |-> name, type |-> type, value |-> 0, rate |-> rate, tags |-> {}]

\* The conversion of a sequence of samples, with the scope a map's order chooses.
Converted(samples) ==
  {out \in [DOMAIN samples -> UNION {ParseMetricSSF(samples[i]) : i \in DOMAIN samples}] :
     \A i \in DOMAIN samples : out[i] \in ParseMetricSSF(samples[i])}

Sent(s, out) == [i \in DOMAIN out |-> [from |-> s, metric |-> out[i].ret]]

\* Samples that are not valid are left out, and counted by one sample of the sink's own, which
\* is sent before the valid ones.
ConvertMetrics(s) ==
  /\ At(s, "convert")
  /\ LET valid == SelectSeq(span[s].metrics, Valid)
         report == IF valid = span[s].metrics THEN <<>> ELSE <<Sample("ssf.error_total", "counter", 100)>>
     IN  \E out \in Converted(report \o valid) :
           ingest' = [ingest EXCEPT ![s] = [pc |-> "send", out |-> Sent(s, out), count |-> Len(valid)]]
  /\ UNCHANGED <<span, channel, received, metricsGenerated, spansProcessed, reported, flushes>>

\* sendMetrics: the next metric into the channel of its worker, which may have to make room.
sendMetrics(s) ==
  /\ ingest[s].pc \in {"send", "derived"} /\ ingest[s].out # <<>>
  /\ LET m == Head(ingest[s].out) w == WorkerOf[m.metric.digest[1]]
     IN  /\ Len(channel[w]) < ChanCap
         /\ channel' = [channel EXCEPT ![w] = Append(@, m)]
  /\ ingest' = [ingest EXCEPT ![s].out = Tail(@)]
  /\ UNCHANGED <<span, received, metricsGenerated, spansProcessed, reported, flushes>>

\* What is no valid trace span ends here; from the others come a timer if they are indicators
\* and, for one in a hundred of those with a service, a set.
Derive(s) ==
  /\ At(s, "send") /\ ingest[s].out = <<>>
  /\ IF ~span[s].valid THEN ingest' = [ingest EXCEPT ![s].pc = "derived"]
     ELSE LET sp == span[s]
              timer == IF sp.indicator /\ TimerName # "" THEN <<Sample(TimerName, "histogram", 100)>> ELSE <<>>
              unique == <<Sample("ssf.names_unique", "set", 1)>>
          IN  \E sampled \in (IF sp.service = "" THEN {<<>>} ELSE {<<>>, unique}) : \E out \in Converted(timer \o sampled) :
                ingest' = [ingest EXCEPT ![s] = [pc |-> "derived", out |-> Sent(s, out), count |-> @.count + Len(out)]]
  /\ UNCHANGED <<span, channel, received, metricsGenerated, spansProcessed, reported, flushes>>

\* The deferred additions, one after the other.
AddMetrics(s) ==
  /\ At(s, "derived") /\ ingest[s].out = <<>>
  /\ metricsGenerated' = metricsGenerated + ingest[s].count
  /\ ingest' = [ingest EXCEPT ![s].pc = "added"]
  /\ UNCHANGED <<span, channel, received, spansProcessed, reported, flushes>>

AddSpan(s) ==
  /\ At(s, "added") /\ spansProcessed' = spansProcessed + 1
  /\ ingest' = [ingest EXCEPT ![s].pc = "done"]
  /\ UNCHANGED <<span, channel, received, metricsGenerated, reported, flushes>>

Ingest(s) == ParseSSF(s) \/ ConvertMetrics(s) \/ sendMetrics(s) \/ Derive(s) \/ AddMetrics(s) \/ AddSpan(s)

-----------------------------------------------------------------------------

\* A worker takes the next metric.
Receive(w) ==
  /\ channel[w] # <<>>
  /\ received' = [received EXCEPT ![w] = Append(@, Head(channel[w]))]
  /\ channel' = [channel EXCEPT ![w] = Tail(@)]
  /\ UNCHANGED <<span, ingest, metricsGenerated, spansProcessed, reported, flushes>>

\* Flush swaps one counter for 0, then the other.
SwapSpans ==
  /\ flushes.n < MaxFlushes /\ ~flushes.half
  /\ flushes' = [n |-> flushes.n + 1, half |-> TRUE]
  /\ reported' = [reported EXCEPT !.spans = @ + spansProcessed] /\ spansProcessed' = 0
  /\ UNCHANGED <<metricsGenerated, span, ingest, channel, received>>

\* Mutant of SwapMetrics: the counter is read and not reset.
SwapMetricsRead ==
  /\ flushes.half /\ flushes' = [flushes EXCEPT !.half = FALSE]
  /\ reported' = [reported EXCEPT !.metrics = @ + metricsGenerated]
  /\ UNCHANGED <<metricsGenerated, spansProcessed, span, ingest, channel, received>>

SwapMetrics ==
  /\ flushes.half /\ flushes' = [flushes EXCEPT !.half = FALSE]
  /\ reported' = [reported EXCEPT !.metrics = @ + metricsGenerated] /\ metricsGenerated' = 0
  /\ UNCHANGED <<spansProcessed, span, ingest, channel, received>>

Next == SwapSpans \/ SwapMetrics \/ (\E w \in Workers : Receive(w)) \/ \E s \in Spans : Ingest(s)

Spec == Init /\ [][Next]_vars /\ (\A s \in Spans : WF_vars(Ingest(s))) /\ \A w \in Workers : WF_vars(Receive(w))

-----------------------------------------------------------------------------
(* Properties *)

Delivered(s) == UNION {{<<w, i>> : i \in {j \in DOMAIN received[w] : received[w][j].from = s}} : w \in Workers}
MetricAt(p) == received[p[1]][p[2]].metric

\* When a span has been ingested and the channels are empty, every valid sample of it has
\* reached one worker once, in its place, whatever was wrong with its other samples, and each
\* span that had others is counted by one error.
SamplesDelivered ==
  (\A w \in Workers : channel[w] = <<>>) =>
    \A s \in Spans : At(s, "done") =>
      \A n \in DOMAIN WorkerOf \ {TimerName, "ssf.names_unique"} :
        Cardinality({p \in Delivered(s) : MetricAt(p).name = n}) =
          IF n = "ssf.error_total" THEN IF \E i \in DOMAIN span[s].metrics : ~Valid(span[s].metrics[i]) THEN 1 ELSE 0
          ELSE Cardinality({i \in DOMAIN span[s].metrics : Valid(span[s].metrics[i]) /\ span[s].metrics[i].name = n})

\* Metrics derived from a span come from valid trace spans only, and the timer from indicators.
DerivedFromTraces ==
  \A s \in Spans : \A p \in Delivered(s) :
    /\ MetricAt(p).name \in {TimerName, "ssf.names_unique"} => span[s].valid
    /\ MetricAt(p).name = TimerName => span[s].indicator

\* The totals that flushes have reported, with what is left for the next, are the spans ingested
\* and, once all have been, the metrics that reached the workers but for the sink's own error
\* counts, wherever the two swaps of a flush fell between the two additions of an Ingest.
TotalsExact ==
  /\ reported.spans + spansProcessed = Cardinality({s \in Spans : At(s, "done")})
  /\ (\A s \in Spans : At(s, "done")) /\ (\A w \in Workers : channel[w] = <<>>) =>
       reported.metrics + metricsGenerated =
         Cardinality({p \in UNION {Delivered(s) : s \in Spans} : MetricAt(p).name # "ssf.error_total"})

\* Holds in the end: every span is ingested, as the workers keep emptying their channels.
AllIngested == \A s \in Spans : At(s, "done")
=============================================================================
