----------------------------- MODULE KafkaSinks -----------------------------
(***************************************************************************)
(* KafkaSpanSink and KafkaMetricSink: the start with a producer that may be *)
(* missing, the sampling of spans by a hash, the hand-over of messages to   *)
(* the producers' bounded input, which span workers give up on after a      *)
(* timeout, and the flush, which reads and then resets the count of spans.  *)
(***************************************************************************)
EXTENDS Integers, Sequences, FiniteSets

CONSTANTS Spans,     \* each is ingested once, by a goroutine of its own
          HashOf,    \* CRC-32 of the trace id or of the sample tag's value
          Untagged,  \* spans that do not have the sample tag
          Broken,    \* spans that cannot be marshalled
          Rates,     \* sampleRatePercentage
          MaxUint,   \* the largest hash, for math.MaxUint32
          Metrics,   \* what a flush gets: a sequence of "ok", "routed" (to another sink) and "nan"
          InputCap,  \* capacity of a producer's input
          Fails,     \* NewAsyncProducer may fail
          MaxFlushes \* bound on the flushes

VARIABLES rate, sampleTag,  \* the configuration
          state,            \* "new", "refused", "started", "panicked"
          producer,         \* the span sink has a producer
          traceClient,      \* the span sink's, "nil" until somebody sets it
          ingest,           \* where each span's Ingest is
          input,            \* messages in the span producer's input
          spansFlushed,
          loaded,           \* the value Flush has read, or -1
          reported,         \* sum of the values given to ReportOne
          emitted,          \* sum of the values that reached the trace client
          flushes,
          index,            \* of the metric sink's Flush, 0 before
          minput,           \* metrics in its producer's input
          successes         \* what its Flush has reported, or -1

spanVars == <<ingest, input, spansFlushed, loaded, reported, emitted, flushes>>
metricVars == <<index, minput, successes>>
vars == <<rate, sampleTag, state, producer, traceClient, spanVars, metricVars>>

Init ==
  /\ rate \in Rates /\ sampleTag \in BOOLEAN
  /\ state = "new" /\ producer = FALSE /\ traceClient = "nil"
  /\ ingest = [s \in Spans |-> "new"] /\ input = <<>>
  /\ spansFlushed = 0 /\ loaded = -1 /\ reported = 0 /\ emitted = 0 /\ flushes = 0
  /\ index = 0 /\ minput = <<>> /\ successes = -1

\* uint32(sampleRatePercentage * math.MaxUint32 / 100)
sampleThreshold == (rate * MaxUint) \div 100

\* NewKafkaSpanSink refuses a rate outside 1..100 and does not keep its trace client, nor does
\* Start.  Start takes whatever newConfiguredProducer
\* returns, which has no error even when the producer could not connect.
Start ==
  /\ state = "new"
  /\ IF rate <= 0 \/ rate > 100 THEN state' = "refused" /\ UNCHANGED producer
     ELSE state' = "started" /\ producer' \in (IF Fails THEN BOOLEAN ELSE {TRUE})
  /\ UNCHANGED <<rate, sampleTag, traceClient, spanVars, metricVars>>

-----------------------------------------------------------------------------
(* KafkaSpanSink.Ingest and Flush *)

\* The span is dropped by the sampling rules.
Rejected(s) ==
  /\ sampleTag \/ sampleThreshold < MaxUint
  /\ \/ sampleTag /\ s \in Untagged
     \/ HashOf[s] > sampleThreshold

\* Sampling and marshalling.
Ingest(s) ==
  /\ state = "started" /\ ingest[s] = "new"
  /\ ingest' = [ingest EXCEPT ![s] = IF Rejected(s) THEN "rejected"
                                     ELSE IF s \in Broken THEN "error" ELSE "sending"]
  /\ UNCHANGED <<rate, sampleTag, traceClient, state, producer, input, spansFlushed, loaded, reported, emitted,
                 flushes, metricVars>>

\* producer.Input() <- message; a nil producer panics.
Send(s) ==
  /\ state = "started" /\ ingest[s] = "sending"
  /\ IF producer
     THEN /\ Len(input) < InputCap
          /\ input' = Append(input, s)
          /\ ingest' = [ingest EXCEPT ![s] = "sent"] /\ UNCHANGED state
     ELSE state' = "panicked" /\ UNCHANGED <<input, ingest>>
  /\ UNCHANGED <<rate, sampleTag, traceClient, producer, spansFlushed, loaded, reported, emitted, flushes, metricVars>>


\* atomic.AddInt64, after the send.
Count(s) ==
  /\ state = "started" /\ ingest[s] = "sent"
  /\ spansFlushed' = spansFlushed + 1
  /\ ingest' = [ingest EXCEPT ![s] = "counted"]
  /\ UNCHANGED <<rate, sampleTag, traceClient, state, producer, input, loaded, reported, emitted, flushes, metricVars>>

\* <-time.After(IngestTimeout) while the input is full.
Timeout(s) ==
  /\ state = "started" /\ producer /\ ingest[s] = "sending" /\ Len(input) = InputCap
  /\ ingest' = [ingest EXCEPT ![s] = "timedout"]
  /\ UNCHANGED <<rate, sampleTag, traceClient, state, producer, input, spansFlushed, loaded, reported, emitted,
                 flushes, metricVars>>

\* The producer takes a message off its input; it may stop doing so at any time.
Produce ==
  /\ input # <<>> /\ input' = Tail(input)
  /\ UNCHANGED <<rate, sampleTag, traceClient, state, producer, ingest, spansFlushed, loaded, reported, emitted,
                 flushes, metricVars>>

\* Flush: ReportOne of the loaded count, which does nothing without a trace client.
FlushLoad ==
  /\ state = "started" /\ loaded = -1 /\ flushes < MaxFlushes
  /\ loaded' = spansFlushed /\ reported' = reported + spansFlushed
  /\ emitted' = IF traceClient = "nil" THEN emitted ELSE emitted + spansFlushed
  /\ flushes' = flushes + 1
  /\ UNCHANGED <<rate, sampleTag, traceClient, state, producer, ingest, input, spansFlushed, metricVars>>

\* Flush: atomic.SwapInt64(&k.spansFlushed, 0)
FlushSwap ==
  /\ state = "started" /\ loaded # -1
  /\ loaded' = -1 /\ spansFlushed' = 0
  /\ UNCHANGED <<rate, sampleTag, traceClient, state, producer, ingest, input, reported, emitted, flushes, metricVars>>

-----------------------------------------------------------------------------
(* KafkaMetricSink.Flush *)

\* One iteration: a metric for another sink is skipped, one that cannot be marshalled ends the
\* flush without a report.  The producer is assumed to drain, or the flush blocks.
FlushMetric ==
  /\ state = "started" /\ producer /\ index < Len(Metrics)
  /\ LET m == Metrics[index + 1] IN
       /\ minput' = IF m = "ok" THEN Append(minput, index + 1) ELSE minput
       /\ index' = IF m = "nan" THEN Len(Metrics) ELSE index + 1
       /\ successes' = IF m # "nan" /\ index' = Len(Metrics) THEN Len(minput') ELSE -1
  /\ UNCHANGED <<rate, sampleTag, traceClient, state, producer, spanVars>>

Next ==
  \/ Start \/ Produce \/ FlushLoad \/ FlushSwap \/ FlushMetric
  \/ \E s \in Spans : Ingest(s) \/ Send(s) \/ Count(s) \/ Timeout(s)

Fairness ==
  \A s \in Spans : WF_vars(Send(s) \/ Timeout(s)) /\ WF_vars(Count(s))

Spec == Init /\ [][Next]_vars /\ Fairness

-----------------------------------------------------------------------------
(* Properties. *)

\* The sampling keeps rate percent of the hash values, to within one value, and all of them at
\* 100 percent.
SampledShare ==
  LET kept == {x \in 0..MaxUint : ~(sampleThreshold < MaxUint /\ x > sampleThreshold)} IN
  rate \in 1..100 =>
    /\ 100 * Cardinality(kept) >= rate * (MaxUint + 1) - 100
    /\ 100 * Cardinality(kept) <= rate * (MaxUint + 1) + 100
    /\ rate = 100 => kept = 0..MaxUint

\* No span is reported twice, and none that was not handed to the producer, although Flush resets
\* the count some time after it has read it.
CountBounded ==
  reported + spansFlushed - (IF loaded = -1 THEN 0 ELSE loaded) <= Cardinality({s \in Spans : ingest[s] = "counted"})

\* Holds again and again of every span: Ingest comes back to the span worker even when the
\* producer has stopped.
IngestReturned(s) == ingest[s] # "sending" \/ state = "panicked"

\* KafkaMetricSink.Flush hands over the acceptable metrics up to the first that cannot be
\* marshalled, in order; if there is none it reports exactly their number.
FlushedPrefix ==
  LET firstBad == {n \in 1..Len(Metrics) : Metrics[n] = "nan"} IN
  /\ \A n \in 1..Len(minput) :
       /\ Metrics[minput[n]] = "ok"
       /\ \A b \in firstBad : minput[n] < b
       /\ \A k \in 1..minput[n] : Metrics[k] = "ok" => \E i \in 1..n : minput[i] = k
  /\ successes # -1 => firstBad = {} /\ successes = Cardinality({n \in 1..Len(Metrics) : Metrics[n] = "ok"})
=============================================================================
