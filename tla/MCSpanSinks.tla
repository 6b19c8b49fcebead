----------------------------- MODULE MCSpanSinks -----------------------------
(***************************************************************************)
(* Small instances of what happens to spans under way, with the fairness of  *)
(* the goroutines: the span workers of the server (SpanPipeline), the client *)
(* and its streams (TraceClient, StreamBackend) and the sinks for spans.  A   *)
(* behaviour runs one part; the variables of the others are left alone.      *)
(***************************************************************************)
EXTENDS Integers, Sequences, TLC

CONSTANTS Parts   \* Parts: the parts that a run explores

VARIABLES part,   \* the part that runs; it never changes
          \* SpanPipeline
          arrived, pipeReader, stopped, pipeSpanChan, dropped, tag, work, outer, inner, finished,
          pipeReceived, timeouts, errors, times, capCount, hits, repReceived, repWorker, pipeFlushes,
          \* TraceClient
          cl, life, cancelled, records, clientSpanChan, be, clientBuffer, result, fl, stat,
          clientReported, ticks, reports, sent, lost,
          \* StreamBackend
          streamConn, bufConn, buf, streamPc, wait, elapsed, next, made, wire, open, streamReader,
          answer, flushed, wrote, taken, got,
          \* MetricExtraction
          span, extractIngest, channel, extractReceived, metricsGenerated, spansProcessed,
          extractReported, extractFlushes,
          \* KafkaSinks
          rate, sampleTag, state, producer, traceClient, kafkaIngest, input, spansFlushed, loaded,
          kafkaReported, emitted, kafkaFlushes, index, minput, successes,
          \* DatadogSpans
          ddBuffer, head, waiting, ddPc, ssfSpans, posted, counts, ddFlushes,
          \* GRPCSpanSink
          grpcConn, changes, watcher, marker, grpcIngest, logged, sentCount, dropCount, grpcReported,
          grpcFlushes,
          \* LightStepSink
          tracers, serviceCount, counter, lightstepIngest, toVisit, lightstepReported, lightstepFlushes

Unused == "unused"

-----------------------------------------------------------------------------
(* SpanPipeline. *)

Pipe == INSTANCE SpanPipeline WITH
  Spans <- {"a", "b", "i"}, Bad <- {}, Internal <- {"i"}, Tagged <- {"a"}, Invalid <- {"b"},
  Service <- ("a" :> "x") @@ ("b" :> "y") @@ ("i" :> "y"), Readers <- {"udp"},
  Format <- "udp" :> "packet", Workers <- {"w1"}, Sinks <- {"k1", "k2"}, Hanging <- {"k1"},
  ChanCap <- 1, MaxFlushes <- 0, reader <- pipeReader, spanChan <- pipeSpanChan,
  received <- pipeReceived, flushes <- pipeFlushes

pipeVars == <<arrived, pipeReader, stopped, pipeSpanChan, dropped, tag, work, outer, inner, finished,
  pipeReceived, timeouts, errors, times, capCount, hits, repReceived, repWorker, pipeFlushes>>
PipeIdle ==
  arrived = Unused /\ pipeReader = Unused /\ stopped = Unused /\ pipeSpanChan = Unused /\
  dropped = Unused /\ tag = Unused /\ work = Unused /\ outer = Unused /\ inner = Unused /\ finished = Unused /\
  pipeReceived = Unused /\ timeouts = Unused /\ errors = Unused /\ times = Unused /\ capCount = Unused /\
  hits = Unused /\ repReceived = Unused /\ repWorker = Unused /\ pipeFlushes = Unused

-----------------------------------------------------------------------------
(* TraceClient. *)

\* The options of the constructors: none at all, ones that only a network client takes,
\* and ones that all clients take.
ClientOptions ==
  {<<>>, "capacity" :> 0, ("report" :> 1) @@ ("capacity" :> 2), "backoff" :> 1, ("parallel" :> 0) @@ ("flush" :> 1)}

Client == INSTANCE TraceClient WITH
  Spans <- {"s1", "s2", "e"}, Waiting <- {"s1", "e"}, Samples <- {"s2", "e"}, Empty <- {"e"},
  Flushers <- {"f1", "tick"}, Ticker <- "tick", OptionSets <- ClientOptions,
  Kinds <- {"udp", "unix", "tcp", "backend", "channel"}, DefaultCapacity <- 1, DefaultParallelism <- 2,
  ChanCap <- 1, MaxBackends <- 2, MaxTicks <- 1, MaxReports <- 0, spanChan <- clientSpanChan,
  buffer <- clientBuffer, reported <- clientReported

clientVars == <<cl, life, cancelled, records, clientSpanChan, be, clientBuffer, result, fl, stat,
  clientReported, ticks, reports, sent, lost>>
ClientIdle ==
  cl = Unused /\ life = Unused /\ cancelled = Unused /\ records = Unused /\
  clientSpanChan = Unused /\ be = Unused /\ clientBuffer = Unused /\ result = Unused /\ fl = Unused /\
  stat = Unused /\ clientReported = Unused /\ ticks = Unused /\ reports = Unused /\ sent = Unused /\ lost = Unused

-----------------------------------------------------------------------------
(* StreamBackend. *)

Stream == INSTANCE StreamBackend WITH
  Spans <- <<"a", "b", "c">>, Size <- ("a" :> 1) @@ ("b" :> 0) @@ ("c" :> 2), Unmarshalable <- {},
  MaxSSFPacketLength <- 2, BufferSize <- 4, Foreign <- {<<>>}, Backoff <- 2, MaxBackoff <- 1,
  ConnectTimeout <- 2, MaxConns <- 3, conn <- streamConn, pc <- streamPc, reader <- streamReader

streamVars == <<streamConn, bufConn, buf, streamPc, wait, elapsed, next, made, wire, open, streamReader,
  answer, flushed, wrote, taken, got>>
StreamIdle ==
  streamConn = Unused /\ bufConn = Unused /\ buf = Unused /\ streamPc = Unused /\ wait = Unused /\
  elapsed = Unused /\ next = Unused /\ made = Unused /\ wire = Unused /\ open = Unused /\ streamReader = Unused /\
  answer = Unused /\ flushed = Unused /\ wrote = Unused /\ taken = Unused /\ got = Unused

-----------------------------------------------------------------------------
(* MetricExtraction. *)

Sample(n, t, r, tags) == [name |-> n, type |-> t, value |-> 1, rate |-> r, tags |-> tags]

\* A span with samples that is no span of a trace, with both scope tags (5 and 6), and an
\* indicator span.
ExtractSpans ==
  ("s1" :> [metrics |-> <<Sample("a", "odd", 100, {}), Sample("a", "counter", 0, {1, 2, 5, 6})>>, valid |-> FALSE,
            indicator |-> TRUE, service |-> "", name |-> "", nameTag |-> "tagname"])
  @@ ("s2" :> [metrics |-> <<Sample("b", "gauge", 50, {1})>>, valid |-> TRUE, indicator |-> TRUE, service |-> "web",
               name |-> "n", nameTag |-> "tagname"])

Extract == INSTANCE MetricExtraction WITH
  Spans <- {"s1", "s2"}, SpanOf <- ExtractSpans,
  WorkerOf <- ("a" :> 0) @@ ("b" :> 1) @@ ("ssf.error_total" :> 0) @@ ("timer" :> 0) @@ ("ssf.names_unique" :> 1),
  ChanCap <- 1, TimerName <- "timer", MaxFlushes <- 1, ingest <- extractIngest,
  received <- extractReceived, reported <- extractReported, flushes <- extractFlushes

extractVars == <<span, extractIngest, channel, extractReceived, metricsGenerated, spansProcessed,
  extractReported, extractFlushes>>
ExtractIdle ==
  span = Unused /\ extractIngest = Unused /\ channel = Unused /\ extractReceived = Unused /\
  metricsGenerated = Unused /\ spansProcessed = Unused /\ extractReported = Unused /\ extractFlushes = Unused

-----------------------------------------------------------------------------
(* KafkaSinks. *)

Kafka == INSTANCE KafkaSinks WITH
  Spans <- {"s1", "s2", "s3"}, HashOf <- ("s1" :> 0) @@ ("s2" :> 120) @@ ("s3" :> 255),
  Untagged <- {"s2"}, Broken <- {}, Rates <- {0, 1, 47, 100, 101}, MaxUint <- 255,
  Metrics <- <<"ok", "routed", "ok", "nan", "ok">>, InputCap <- 1, Fails <- FALSE, MaxFlushes <- 2,
  ingest <- kafkaIngest, reported <- kafkaReported, flushes <- kafkaFlushes
Rates == INSTANCE KafkaSinks WITH
  Spans <- {"s1", "s2", "s3"}, HashOf <- ("s1" :> 0) @@ ("s2" :> 120) @@ ("s3" :> 255), Untagged <- {},
  Broken <- {"s3"}, Rates <- -1 .. 101, MaxUint <- 255, Metrics <- <<"ok", "routed">>, InputCap <- 1,
  Fails <- TRUE, MaxFlushes <- 0, ingest <- kafkaIngest, reported <- kafkaReported,
  flushes <- kafkaFlushes

kafkaVars == <<rate, sampleTag, state, producer, traceClient, kafkaIngest, input, spansFlushed, loaded,
  kafkaReported, emitted, kafkaFlushes, index, minput, successes>>
KafkaIdle ==
  rate = Unused /\ sampleTag = Unused /\ state = Unused /\ producer = Unused /\
  traceClient = Unused /\ kafkaIngest = Unused /\ input = Unused /\ spansFlushed = Unused /\ loaded = Unused /\
  kafkaReported = Unused /\ emitted = Unused /\ kafkaFlushes = Unused /\ index = Unused /\ minput = Unused /\
  successes = Unused

-----------------------------------------------------------------------------
(* DatadogSpans. *)

DatadogSpan(t, p, v, svc, n, e) ==
  [traceId |-> t, parentId |-> p, valid |-> v, service |-> svc, name |-> n, resource |-> n, error |-> e]
DatadogSpanOf ==
  ("s1" :> DatadogSpan(1, 0, TRUE, "web", "", FALSE)) @@ ("s2" :> DatadogSpan(1, 7, TRUE, "web", "get", TRUE))
  @@ ("s3" :> DatadogSpan(2, -1, TRUE, "db", "put", FALSE)) @@ ("s4" :> DatadogSpan(0, 0, FALSE, "db", "put", FALSE))
  @@ ("s5" :> DatadogSpan(2, 7, TRUE, "db", "put", FALSE))

Datadog == INSTANCE DatadogSpans WITH
  Spans <- {"s1", "s2", "s3", "s4", "s5"}, SpanOf <- DatadogSpanOf, BufferSize <- 3, MaxFlushes <- 3,
  nil <- "nil", buffer <- ddBuffer, pc <- ddPc, flushes <- ddFlushes

ddVars == <<ddBuffer, head, waiting, ddPc, ssfSpans, posted, counts, ddFlushes>>
DdIdle ==
  ddBuffer = Unused /\ head = Unused /\ waiting = Unused /\ ddPc = Unused /\ ssfSpans = Unused /\
  posted = Unused /\ counts = Unused /\ ddFlushes = Unused

-----------------------------------------------------------------------------
(* GRPCSpanSink. *)

Grpc == INSTANCE GRPCSpanSink WITH
  Spans <- {"s1", "s2", "s3"}, Invalid <- {"s3"}, MaxChanges <- 2, MaxFlushes <- 1, conn <- grpcConn,
  ingest <- grpcIngest, reported <- grpcReported, flushes <- grpcFlushes

grpcVars == <<grpcConn, changes, watcher, marker, grpcIngest, logged, sentCount, dropCount,
  grpcReported, grpcFlushes>>
GrpcIdle ==
  grpcConn = Unused /\ changes = Unused /\ watcher = Unused /\ marker = Unused /\
  grpcIngest = Unused /\ logged = Unused /\ sentCount = Unused /\ dropCount = Unused /\ grpcReported = Unused /\
  grpcFlushes = Unused

-----------------------------------------------------------------------------
(* LightStepSink. *)

LightStepSpans ==
  ("s1" :> [traceId |-> 7, service |-> "web"]) @@ ("s2" :> [traceId |-> 7, service |-> "web"])
  @@ ("s3" :> [traceId |-> 4, service |-> "web"]) @@ ("s4" :> [traceId |-> 0, service |-> ""])

LightStep == INSTANCE LightStepSink WITH
  Spans <- {"s1", "s2", "s3", "s4"}, SpanOf <- LightStepSpans, Configured <- {-1, 0, 2, 3},
  MaxFlushes <- 2, nil <- "nil", ingest <- lightstepIngest, reported <- lightstepReported,
  flushes <- lightstepFlushes

lightstepVars == <<tracers, serviceCount, counter, lightstepIngest, toVisit, lightstepReported,
  lightstepFlushes>>
LightstepIdle ==
  tracers = Unused /\ serviceCount = Unused /\ counter = Unused /\ lightstepIngest = Unused /\
  toVisit = Unused /\ lightstepReported = Unused /\ lightstepFlushes = Unused

-----------------------------------------------------------------------------
(* One part runs, and the variables of the others are left alone. *)

PartInit ==
  /\ part \in Parts
  /\ IF part = "pipeline" THEN Pipe!Init ELSE PipeIdle
  /\ IF part = "client" THEN Client!Init ELSE ClientIdle
  /\ IF part = "stream" THEN Stream!Init ELSE StreamIdle
  /\ IF part = "extract" THEN Extract!Init ELSE ExtractIdle
  /\ IF part = "kafka" THEN Kafka!Init ELSE IF part = "kafkarates" THEN Rates!Init ELSE KafkaIdle
  /\ IF part = "datadog" THEN Datadog!Init ELSE DdIdle
  /\ IF part = "grpc" THEN Grpc!Init ELSE GrpcIdle
  /\ IF part = "lightstep" THEN LightStep!Init ELSE LightstepIdle

PartNext ==
  /\ UNCHANGED part
  /\ \/ part = "pipeline" /\ Pipe!Next /\ UNCHANGED <<clientVars, streamVars, extractVars, kafkaVars, ddVars, grpcVars, lightstepVars>>
     \/ part = "client" /\ Client!Next /\ UNCHANGED <<pipeVars, streamVars, extractVars, kafkaVars, ddVars, grpcVars, lightstepVars>>
     \/ part = "stream" /\ Stream!Next /\ UNCHANGED <<pipeVars, clientVars, extractVars, kafkaVars, ddVars, grpcVars, lightstepVars>>
     \/ part = "extract" /\ Extract!Next /\ UNCHANGED <<pipeVars, clientVars, streamVars, kafkaVars, ddVars, grpcVars, lightstepVars>>
     \/ part = "kafka" /\ Kafka!Next /\ UNCHANGED <<pipeVars, clientVars, streamVars, extractVars, ddVars, grpcVars, lightstepVars>>
     \/ part = "kafkarates" /\ Rates!Next /\ UNCHANGED <<pipeVars, clientVars, streamVars, extractVars, ddVars, grpcVars, lightstepVars>>
     \/ part = "datadog" /\ Datadog!Next /\ UNCHANGED <<pipeVars, clientVars, streamVars, extractVars, kafkaVars, grpcVars, lightstepVars>>
     \/ part = "grpc" /\ Grpc!Next /\ UNCHANGED <<pipeVars, clientVars, streamVars, extractVars, kafkaVars, ddVars, lightstepVars>>
     \/ part = "lightstep" /\ LightStep!Next /\ UNCHANGED <<pipeVars, clientVars, streamVars, extractVars, kafkaVars, ddVars, grpcVars>>

allVars == <<part, pipeVars, clientVars, streamVars, extractVars, kafkaVars, ddVars, grpcVars,
  lightstepVars>>

\* The fairness of every component, for the part that runs.
PartFairness ==
  /\ SF_pipeVars(part = "pipeline" /\ Pipe!PutSpan("udp"))
  /\ WF_pipeVars(part = "pipeline" /\ Pipe!Work("w1"))
  /\ \A s \in {"a", "b", "i"} :
       /\ \A k \in {"k1", "k2"} : /\ WF_pipeVars(part = "pipeline" /\ Pipe!Answer(s, k))
                                  /\ WF_pipeVars(part = "pipeline" /\ Pipe!Timeout(s, k))
       /\ WF_pipeVars(part = "pipeline" /\ Pipe!IngestReturns(s, "k2"))
  /\ \A b \in 1 .. 2 : WF_clientVars(part = "client" /\ b \in Client!Backends /\ Client!Backend(b))
  /\ \A f \in {"f1", "tick"} : WF_clientVars(part = "client" /\ Client!FlushAsync(f))
  /\ WF_clientVars(part = "client" /\ Client!Receive)
  /\ \A c \in Stream!Conns : WF_streamVars(part = "stream" /\ Stream!ReadSSFStreamSocket(c))
  /\ \A s \in {"s1", "s2"} : WF_extractVars(part = "extract" /\ Extract!Ingest(s))
  /\ \A w \in {0, 1} : WF_extractVars(part = "extract" /\ Extract!Receive(w))
  /\ \A s \in {"s1", "s2", "s3"} :
       /\ WF_kafkaVars(part = "kafka" /\ (Kafka!Send(s) \/ Kafka!Timeout(s)))
       /\ WF_kafkaVars(part = "kafka" /\ Kafka!Count(s))
       /\ WF_grpcVars(part = "grpc" /\ Grpc!Ingest(s))
  /\ WF_grpcVars(part = "grpc" /\ Grpc!Watch)

PartSpec == PartInit /\ [][PartNext]_allVars /\ PartFairness

-----------------------------------------------------------------------------
(* Properties. *)

\* Every span that was read is handed to all sinks and finished, although a sink may hang for ever
\* in Ingest, as SpanWorker.Work's timeout keeps the workers going.
Drains == []<>(part = "pipeline" => Pipe!Drained)

\* Whatever the options of the client, a span that trace.Record accepted is in exactly one place
\* and one it refused is nowhere.
OnePlaceEach == part = "client" => Client!Whereabouts

\* trace.Flush returns, also when the client is closed while it runs: a backend answers each
\* notification it received.
FlushReturns == []<>(part = "client" => \A f \in {"f1", "tick"} : Client!FlushEnded(f))

\* While the client is open and has a backend, the result of a span that trace.Record accepted
\* reaches its done channel.
Answered == []<>(part = "client" => \A s \in {"s1", "e"} : Client!AnsweredOrClosed(s))

\* The type invariant of StreamBackend: the buffer never holds more than its size, and every span
\* handed to SendSync has one answer.
StreamTypes == part = "stream" => Stream!TypeOK

\* A FlushSync that returned nil has put every span taken on this connection on the wire.
FlushComplete == part = "stream" => Stream!FlushComplete

\* While a connection is in use, what was written on it is exactly the frames of the spans
\* SendSync took on it, and the reader passes on those spans, in order.
WellFramed == part = "stream" => Stream!WellFramed /\ Stream!ReadsWhatWasSent

\* The reader of a connection reads every whole frame that was written on it, unless it runs into
\* an error.
Delivered == []<>(part = "stream" => \A c \in Stream!Conns : Stream!CaughtUp(c))

\* When a span has been ingested and the channels are empty, every valid sample of it has reached
\* one worker once, whatever was wrong with its other samples, and each span that had others is
\* counted by one error.
SamplesDelivered == part = "extract" => Extract!SamplesDelivered

\* Metrics derived from a span come from valid trace spans only, and the timer from indicators.
DerivedFromTraces == part = "extract" => Extract!DerivedFromTraces

\* The totals that flushes have reported, with what is left for the next, are the spans ingested
\* and the metrics extracted, wherever the two swaps of a flush fell between the two additions of
\* an Ingest.
TotalsExact == part = "extract" => Extract!TotalsExact

\* Every span is ingested, as the workers keep emptying their channels.
AllIngested == []<>(part = "extract" => Extract!AllIngested)

\* The sampling keeps rate percent of the hash values, to within one value, and all of them at
\* 100 percent.
SampledShare == (part = "kafka" => Kafka!SampledShare) /\ (part = "kafkarates" => Rates!SampledShare)

\* KafkaSpanSink reports no span twice, and none that was not handed to the producer, although
\* Flush resets the count some time after it has read it.
CountBounded == part = "kafka" => Kafka!CountBounded

\* KafkaMetricSink.Flush hands over the acceptable metrics up to the first that cannot be
\* marshalled, in order; if there is none it reports exactly their number.
FlushedPrefix == (part = "kafka" => Kafka!FlushedPrefix) /\ (part = "kafkarates" => Rates!FlushedPrefix)

\* KafkaSpanSink.Ingest comes back to the span worker even when the producer has stopped.
IngestReturns == []<>(part = "kafka" => \A s \in {"s1", "s2", "s3"} : Kafka!IngestReturned(s))

\* The ring under the mutex of the Datadog span sink implements a buffer of the newest spans that
\* a flush takes whole and oldest first, whatever comes in while an earlier flush is posting.
KeepsNewest ==
  /\ part = "datadog" => Datadog!Recent!Init
  /\ [][part = "datadog" => Datadog!Recent!Next \/ UNCHANGED Datadog!Recent!vars]_allVars

\* A span is sent to Datadog at most once over all flushes; the spans of one trace that a flush
\* took are sent in one array.
TracesWhole == part = "datadog" => Datadog!TracesWhole

\* Every span is counted exactly once by the gRPC sink, as sent or as dropped, in a report or in a
\* count still to be reported.
SpansCounted == part = "grpc" => Grpc!SpansCounted

\* However the watcher, the workers and the connection interleave, the errors the gRPC sink logs
\* outside the ready state are never more than one and one more for each change of state.
LogsBounded == part = "grpc" => Grpc!LogsBounded

\* The gRPC sink's watcher gets to wait on the state the connection is in, so that its marker is
\* not left alone for ever.
WatcherCatchesUp == []<>(part = "grpc" => Grpc!WatcherCurrent)

\* However goroutines race to make a service's first counter in the LightStep sink, every span is
\* in exactly one report or still in the counter the next flush will report.
ServiceCounts == part = "lightstep" => LightStep!ServiceCounts

\* The spans of a trace all go to one LightStep tracer, and every valid span goes to some tracer,
\* whatever number of clients is configured.
OneTracerPerTrace == part = "lightstep" => LightStep!OneTracerPerTrace

-----------------------------------------------------------------------------
(* What the run states: the promises above, by component. *)

\* The client and its stream: a span is in one place whatever the options, and a flush or a write
\* that succeeded has put whole frames of just the spans taken on the connection.
StreamComplete == StreamTypes /\ OnePlaceEach /\ FlushComplete /\ WellFramed

\* The extraction of metrics: every valid sample reaches a worker once, metrics are derived from
\* trace spans only, and the totals reported are exact.
ExtractionExact == SamplesDelivered /\ DerivedFromTraces /\ TotalsExact



\* No span and no goroutine waits for ever: not in the span workers, the client, the reader of a
\* stream, the extraction of metrics, a sink or the watcher of a connection.
NothingWaits ==
  Drains /\ FlushReturns /\ Answered /\ Delivered /\ AllIngested /\ IngestReturns /\ WatcherCatchesUp
=============================================================================
