------------------------------ MODULE MCMetrics ------------------------------
(***************************************************************************)
(* Small instances of what happens to metrics at the ends of the pipeline:   *)
(* packets, events and checks that are parsed (PacketParser, SplitBytes,     *)
(* Events), polled metrics (PrometheusPoller), histograms (MergingDigest),   *)
(* gauges in a fleet (Forwarding), and the sinks and plugins (DatadogMetrics, *)
(* SignalFxSink, Plugins).  A behaviour runs one part; the variables of the  *)
(* others are left alone.                                                    *)
(***************************************************************************)
EXTENDS Integers, Sequences, SequencesExt

CONSTANTS Parts   \* Parts: the parts that a run explores

VARIABLES part,   \* the part that runs; it never changes
          \* PacketParser
          packet, handled, packetResult,
          \* MergingDigest
          dig, wire, sampled, truth,
          \* Plugins
          now, pluginPc, key, posted, objects, file, written, errors, faults, reports,
          \* SplitBytes
          input, buf, currentChunk, lastChunk, chunks, ended,
          \* Events
          eventPc, packets, eventSamples, statusChecks, ddEvents, sfxEvents, ddChecks, flushes,
          \* DatadogMetrics
          flushMaxPerBody, ddInterMetrics, ddmetrics, checks, ddPc, i, chunkSize, workers, bodies,
          pending, ddFlushed,
          \* SignalFxSink
          sfxInterMetrics, coll, skipped, sfxPc, running, errorCh, failed, sfxResult,
          \* PrometheusPoller
          observed, promValue, poller, polls, snapshot, at, sent, namespace, decodeErrors, promFlushed,
          \* Forwarding
          packetChan, importChan, hand, chunk, wm, processed, imported, accepted, overwritten,
          fleetSamples, events, phase, todo, other, temp, final, forwards, posts, shutdown, reported,
          delivered, lost, importing

Unused == "unused"

-----------------------------------------------------------------------------
(* PacketParser. *)

\* Tags 5 and 6 are the two scope tags, veneurglobalonly and veneurlocalonly.
Section(k, v) == [kind |-> k, value |-> v]
Pair(k, v) == [key |-> k, value |-> v]

\* Up to three sections, of every kind; and, with one, every fault of what comes before them.
MetricSections ==
  {Section("@", 0), Section("@", 1), Section("@", 10), Section("@", 11), Section("empty", 0), Section("other", 0)}
  \cup {Section("#", tags) : tags \in {<<1>>, <<2, 1>>, <<6, 1>>, <<7, 6, 5>>, <<5, 6, 1>>, <<2, 5, 7>>, <<2, 6, 6>>}}
Metrics ==
  [colon : {TRUE}, name : {"n"}, value : {"number"}, type : {"c"}, sections : BoundedSeq(MetricSections, 3)]
  \cup [colon : BOOLEAN, name : {"", "n"}, value : {"number", "nan"},
        type : {"none", "", "c", "g", "h", "m", "s", "x"}, sections : {<<Section("#", <<2, 1>>)>>}]

EventSections ==
  {Section("d", 5), Section("h", "h1"), Section("k", "key"), Section("p", "low"), Section("p", "high"),
   Section("s", "src"), Section("t", "info"), Section("t", "odd"),
   Section("#", <<Pair("a", "1"), Pair("a", "2"), Pair("b", "")>>), Section("#", <<Pair("vdogstatsd_hostname", "h2")>>),
   Section("empty", 0), Section("other", 0)}
EventPackets ==
  [titleLength : {1}, textLength : {3}, title : {<<"x">>}, text : {<<"x", "esc">>},
   sections : BoundedSeq(EventSections, 3)]
  \cup [titleLength : -1 .. 2, textLength : -1 .. 3, title : {<<"x">>}, text : BoundedSeq({"x", "esc"}, 2),
        sections : {<<>>}]

CheckSections ==
  {Section("d", 5), Section("h", "h1"), Section("m", <<"x", "esc">>), Section("#", <<2, 1>>), Section("#", <<6, 1>>),
   Section("empty", 0), Section("other", 0)}
Checks ==
  [name : {"n"}, status : {"1"}, sections : BoundedSeq(CheckSections, 4)]
  \cup [name : {"", "n"}, status : {"0", "3", "4", "OK", ""}, sections : {<<>>}]

Packets == INSTANCE PacketParser WITH
  MetricPackets <- Metrics, CheckPackets <- Checks, result <- packetResult

packetVars == <<packet, handled, packetResult>>
PacketIdle ==
  packet = Unused /\ handled = Unused /\ packetResult = Unused

-----------------------------------------------------------------------------
(* MergingDigest. *)

Td == INSTANCE MergingDigest WITH
  Values <- {1, 2, 4}, Weights <- {1, 2}, Compression <- 3, TempCap <- 2, MaxSamples <- 4
Merge == INSTANCE MergingDigest WITH
  Values <- {1, 2, 4}, Weights <- {1}, Compression <- 4, TempCap <- 3, MaxSamples <- 6

digestVars == <<dig, wire, sampled, truth>>
DigestIdle ==
  dig = Unused /\ wire = Unused /\ sampled = Unused /\ truth = Unused

-----------------------------------------------------------------------------
(* Plugins. *)

Plugin == INSTANCE Plugins WITH
  Flushes <- {1, 2},
  Metrics <- [f \in {1, 2} |-> <<[name |-> "c", type |-> "counter", value |-> 100], [name |-> "s", type |-> "status", value |-> 1]>>],
  Interval <- 10, AwsS3Bucket <- "metrics", MaxTime <- 2, Writes <- 2, pc <- pluginPc

pluginVars == <<now, pluginPc, key, posted, objects, file, written, errors, faults, reports>>
PluginIdle ==
  now = Unused /\ pluginPc = Unused /\ key = Unused /\ posted = Unused /\ objects = Unused /\
  file = Unused /\ written = Unused /\ errors = Unused /\ faults = Unused /\ reports = Unused

-----------------------------------------------------------------------------
(* SplitBytes. *)

Split == INSTANCE SplitBytes WITH
  MaxLen <- 7

splitVars == <<input, buf, currentChunk, lastChunk, chunks, ended>>
SplitIdle ==
  input = Unused /\ buf = Unused /\ currentChunk = Unused /\ lastChunk = Unused /\ chunks = Unused /\
  ended = Unused

-----------------------------------------------------------------------------
(* Events. *)

\* Events with all flags, with few and with too few; checks with a status and with a word for one.
EventFlags ==
  ("full" :> [mode |-> "event", e_title |-> <<"x", "x">>, e_text |-> <<"x", "esc", "x">>, e_time |-> 5,
              e_hostname |-> "h1", e_aggr_key |-> "key", e_priority |-> "low", e_source_type |-> "src",
              e_alert_type |-> "error", e_event_tags |-> <<Pair("a", "1"), Pair("env", "qa"), Pair("a", "2")>>])
  @@ ("bare" :> [mode |-> "event", e_title |-> <<"x">>, e_text |-> <<"x">>])
  @@ ("notext" :> [mode |-> "event", e_title |-> <<"x">>])
  @@ ("check" :> [mode |-> "sc", sc_name |-> "n", sc_status |-> "1", sc_time |-> 5, sc_hostname |-> "h1",
                  sc_tags |-> <<2, 1>>, sc_msg |-> <<"x", "esc">>])
  @@ ("again" :> [mode |-> "sc", sc_name |-> "n", sc_status |-> "0", sc_tags |-> <<1, 2>>])
  @@ ("word" :> [mode |-> "sc", sc_name |-> "n", sc_status |-> "OK"])

Event == INSTANCE Events WITH
  Senders <- DOMAIN EventFlags, FlagsOf <- EventFlags, Common <- "env" :> "prod", Excluded <- {"a"},
  NameMax <- 1, MaxFlushes <- 2, pc <- eventPc, samples <- eventSamples

eventVars == <<eventPc, packets, eventSamples, statusChecks, ddEvents, sfxEvents, ddChecks, flushes>>
EventIdle ==
  eventPc = Unused /\ packets = Unused /\ eventSamples = Unused /\ statusChecks = Unused /\
  ddEvents = Unused /\ sfxEvents = Unused /\ ddChecks = Unused /\ flushes = Unused

-----------------------------------------------------------------------------
(* DatadogMetrics. *)

Shape(t, v, routed, tags) == [type |-> t, value |-> v, routed |-> routed, tags |-> tags]
MagicShapes ==
  {Shape("counter", 7, FALSE, <<Pair("host", "h1"), Pair("a", "1"), Pair("host", "h2")>>),
   Shape("gauge", 3, FALSE, <<Pair("host", "h1"), Pair("host", ""), Pair("device", "d")>>),
   Shape("status", 1, FALSE, <<Pair("device", "d"), Pair("a", "1")>>), Shape("gauge", 4, TRUE, <<>>)}

\* All alike, so that many fit.
PlainShapes == {Shape("gauge", 3, FALSE, <<Pair("a", "1")>>)}

Datadog == INSTANCE DatadogMetrics WITH
  Shapes <- MagicShapes, MaxMetrics <- 4, Limits <- {2, 3}, Interval <- 10,
  SinkTags <- <<Pair("env", "prod")>>, interMetrics <- ddInterMetrics, pc <- ddPc, flushed <- ddFlushed
Chunks == INSTANCE DatadogMetrics WITH
  Shapes <- PlainShapes, MaxMetrics <- 40, Limits <- {5, 6, 7, 9, 13, 19, 20, 21, 39, 40},
  Interval <- 10, SinkTags <- <<Pair("env", "prod")>>, interMetrics <- ddInterMetrics, pc <- ddPc,
  flushed <- ddFlushed

ddVars == <<flushMaxPerBody, ddInterMetrics, ddmetrics, checks, ddPc, i, chunkSize, workers, bodies,
  pending, ddFlushed>>
DdIdle ==
  flushMaxPerBody = Unused /\ ddInterMetrics = Unused /\ ddmetrics = Unused /\ checks = Unused /\
  ddPc = Unused /\ i = Unused /\ chunkSize = Unused /\ workers = Unused /\ bodies = Unused /\ pending = Unused /\
  ddFlushed = Unused

-----------------------------------------------------------------------------
(* SignalFxSink. *)

SfxMetrics ==
  [routed : {FALSE}, tags : {"op" :> "cory", "op" :> "asf", "op" :> "x", "host" :> "h"}]
  \cup [routed : {TRUE}, tags : {"op" :> "cory"}]

SignalFx == INSTANCE SignalFxSink WITH
  Keys <- {"op", "host", "env"}, Vals <- {"cory", "asf", "x"}, HostnameTag <- "host", VaryBy <- "op",
  Common <- "env" :> "prod", Excluded <- {"op"}, Clients <- {"cory", "asf"}, Metrics <- SfxMetrics,
  MaxMetrics <- 4, nil <- "nil", interMetrics <- sfxInterMetrics, pc <- sfxPc, result <- sfxResult

sfxVars == <<sfxInterMetrics, coll, skipped, sfxPc, running, errorCh, failed, sfxResult>>
SfxIdle ==
  sfxInterMetrics = Unused /\ coll = Unused /\ skipped = Unused /\ sfxPc = Unused /\
  running = Unused /\ errorCh = Unused /\ failed = Unused /\ sfxResult = Unused

-----------------------------------------------------------------------------
(* PrometheusPoller. *)

PromFamilies ==
  <<[name |-> "a", type |-> "counter"], [name |-> "b", type |-> "gauge"], [name |-> "c", type |-> "summary"],
    [name |-> "d", type |-> "histogram"], [name |-> "e", type |-> "untyped"]>>

Prom == INSTANCE PrometheusPoller WITH
  Families <- PromFamilies, Ignored <- {"b"}, prefix <- "", Reachable <- TRUE, MaxPolls <- 2,
  MaxValue <- 1, value <- promValue, flushed <- promFlushed

promVars == <<observed, promValue, poller, polls, snapshot, at, sent, namespace, decodeErrors,
  promFlushed>>
PromIdle ==
  observed = Unused /\ promValue = Unused /\ poller = Unused /\ polls = Unused /\ snapshot = Unused /\
  at = Unused /\ sent = Unused /\ namespace = Unused /\ decodeErrors = Unused /\ promFlushed = Unused

-----------------------------------------------------------------------------
(* Forwarding. *)

\* Gauges are forwarded whole, and the later one overwrites the earlier.
Gauge(n) == [key |-> [name |-> "x", type |-> "gauge"], scope |-> "global", n |-> n]
MixedSet == [key |-> [name |-> "x", type |-> "set"], scope |-> "mixed", n |-> 1]
FleetDigest == [k \in {Gauge(1).key, MixedSet.key} |-> 2]

Fleet == INSTANCE Forwarding WITH
  Servers <- {"leaf", "root"}, NumWorkers <- 1, Names <- {"x"},
  Metrics <- {Gauge(1), Gauge(2), MixedSet}, Digest <- FleetDigest, PacketChanCap <- 1,
  ImportChanCap <- 1, Upstream <- ("leaf" :> "root") @@ ("root" :> "none"), NoServer <- "none",
  Events <- {}, NumSinks <- 1, NumPlugins <- 0, NumAggregates <- 3, NumPercentiles <- 3,
  MayShutdown <- {}, samples <- fleetSamples

fleetVars == <<packetChan, importChan, hand, chunk, wm, processed, imported, accepted, overwritten,
  fleetSamples, events, phase, todo, other, temp, final, forwards, posts, shutdown, reported, delivered,
  lost, importing>>
FleetIdle ==
  packetChan = Unused /\ importChan = Unused /\ hand = Unused /\ chunk = Unused /\ wm = Unused /\
  processed = Unused /\ imported = Unused /\ accepted = Unused /\ overwritten = Unused /\ fleetSamples = Unused /\
  events = Unused /\ phase = Unused /\ todo = Unused /\ other = Unused /\ temp = Unused /\ final = Unused /\
  forwards = Unused /\ posts = Unused /\ shutdown = Unused /\ reported = Unused /\ delivered = Unused /\
  lost = Unused /\ importing = Unused

-----------------------------------------------------------------------------
(* One part runs, and the variables of the others are left alone. *)

PartInit ==
  /\ part \in Parts
  /\ IF part = "packets" THEN Packets!Init ELSE PacketIdle
  /\ IF part = "digest" THEN Td!Init ELSE IF part = "merge" THEN Merge!Init ELSE DigestIdle
  /\ IF part = "plugins" THEN Plugin!Init ELSE PluginIdle
  /\ IF part = "split" THEN Split!Init ELSE SplitIdle
  /\ IF part = "events" THEN Event!Init ELSE EventIdle
  /\ IF part = "datadog" THEN Datadog!Init ELSE IF part = "chunks" THEN Chunks!Init ELSE DdIdle
  /\ IF part = "signalfx" THEN SignalFx!Init ELSE SfxIdle
  /\ IF part = "prometheus" THEN Prom!Init ELSE PromIdle
  /\ IF part = "gauges" THEN Fleet!Init ELSE FleetIdle

PartNext ==
  /\ UNCHANGED part
  /\ \/ part = "packets" /\ Packets!Next /\ UNCHANGED <<digestVars, pluginVars, splitVars, eventVars, ddVars, sfxVars, promVars, fleetVars>>
     \/ part = "digest" /\ Td!Next /\ UNCHANGED <<packetVars, pluginVars, splitVars, eventVars, ddVars, sfxVars, promVars, fleetVars>>
     \/ part = "merge" /\ Merge!Next /\ UNCHANGED <<packetVars, pluginVars, splitVars, eventVars, ddVars, sfxVars, promVars, fleetVars>>
     \/ part = "plugins" /\ Plugin!Next /\ UNCHANGED <<packetVars, digestVars, splitVars, eventVars, ddVars, sfxVars, promVars, fleetVars>>
     \/ part = "split" /\ Split!Next /\ UNCHANGED <<packetVars, digestVars, pluginVars, eventVars, ddVars, sfxVars, promVars, fleetVars>>
     \/ part = "events" /\ Event!Next /\ UNCHANGED <<packetVars, digestVars, pluginVars, splitVars, ddVars, sfxVars, promVars, fleetVars>>
     \/ part = "datadog" /\ Datadog!Next /\ UNCHANGED <<packetVars, digestVars, pluginVars, splitVars, eventVars, sfxVars, promVars, fleetVars>>
     \/ part = "chunks" /\ Chunks!Next /\ UNCHANGED <<packetVars, digestVars, pluginVars, splitVars, eventVars, sfxVars, promVars, fleetVars>>
     \/ part = "signalfx" /\ SignalFx!Next /\ UNCHANGED <<packetVars, digestVars, pluginVars, splitVars, eventVars, ddVars, promVars, fleetVars>>
     \/ part = "prometheus" /\ Prom!Next /\ UNCHANGED <<packetVars, digestVars, pluginVars, splitVars, eventVars, ddVars, sfxVars, fleetVars>>
     \/ part = "gauges" /\ Fleet!Next /\ UNCHANGED <<packetVars, digestVars, pluginVars, splitVars, eventVars, ddVars, sfxVars, promVars>>

allVars == <<part, packetVars, digestVars, pluginVars, splitVars, eventVars, ddVars, sfxVars, promVars,
  fleetVars>>

PartSpec == PartInit /\ [][PartNext]_allVars

-----------------------------------------------------------------------------
(* Properties. *)

\* "do its weights add up?" (validateMergingDigest): buffering, merging, encoding and merging into
\* another digest lose no weight and count none twice, and the two running totals agree with
\* the lists.
WeightsAddUp == part = "digest" => Td!WeightsAddUp

\* CDF and Quantile walk the list from the least to the greatest mean: it is in that order, and
\* lies between the extremes, after any number of merges.
ListSorted == part = "digest" => Td!ListSorted

\* Min and Max are those of the samples, and once digests were merged, which passes on means
\* only, never outside them.
ExtremesHold == part = "digest" => Td!ExtremesHold

\* "Returns a value such that the fraction of values in td below that value is approximately equal
\* to quantile": to the digest's own CDF the value is the one where the fraction passes the
\* quantile.  Neither loop runs off the list ("should never be reached").
QuantileInvertsCDF == part = "digest" => Td!QuantileInvertsCDF

\* "since we will be merging in-place into td.mainCentroids": no centroid is overwritten before it
\* was read, so that the result is the one of a merge into a separate buffer.
MergesAsBuffered == part = "merge" => Merge!MergesAsBuffered

\* S3Path: a flush that S3 took is never replaced by one of another second, however the posts of
\* several flushes overlap and in whatever order they end.
Archived == part = "plugins" => Plugin!Archived

\* localfile: the writes of goroutines that overlap overwrite nothing; the file has each write of
\* each flush once and in order.
FileKeepsAll == part = "plugins" => Plugin!FileKeepsAll

\* The order of a packet's sections does not matter: not at all for a metric, as long as no tag
\* uses one of the special keys for an event, and as long as the message stays last for a
\* service check.
SectionOrderIrrelevant == part = "packets" => Packets!SectionOrderIrrelevant

\* A metric or check written with its tags in another order has the same key and the same
\* digest, so it is the same metric and goes to the same worker; the scope tag is no part of
\* either unless there is more than one.
TagOrderIrrelevant == part = "packets" => Packets!TagOrderIrrelevant

\* A packet is accepted exactly if what comes before its sections is in order, every section is
\* known and has an acceptable value, none comes twice, and a check's message comes last.
AcceptedIffWellFormed == part = "packets" => Packets!AcceptedIffWellFormed

\* A metric sent as an SSF sample, with the same name, type and tags, has the same key, digest
\* and scope as the same metric in a DogStatsD packet, if it has at most one scope tag.
ParsersAgree == part = "packets" => Packets!ParsersAgree

\* "equivalent to calling bytes.Split": when the iterator ends, no chunk holds a delimiter and
\* joined by delimiters the chunks are the input, which determines them, also when the input is
\* empty or begins or ends with delimiters.
EquivalentToSplit == part = "split" => Split!EquivalentToSplit

\* What Datadog gets for an event says what the flags of veneur-emit said, with the defaults
\* where they said nothing, after two conversions through special tags and back.
EventFaithful == part = "events" => Event!EventFaithful

\* Every event that was accepted is in the worker or has been sent, exactly once, and to both
\* sinks in the same order.
EventOnce == part = "events" => Event!EventOnce

\* What veneur-emit sends as a service check with one of the four statuses is accepted.
ChecksAccepted == part = "events" => Event!ChecksAccepted

\* The host of what is sent is the value of the metric's last host tag, or the sink's own when
\* that is empty or there is none, and what is sent has every tag that is not magic, in order.
HostFromLastTag == part = "datadog" => Datadog!HostFromLastTag

\* The bodies, in order, are the series cut without loss, repetition or overlap: none is empty
\* unless there are no series at all, and none is larger than flushMaxPerBody.
ChunksFit == (part = "datadog" => Datadog!ChunksFit) /\ (part = "chunks" => Chunks!ChunksFit)

\* "approximately equal size": no body but the last is smaller than another, and there are no
\* more bodies than the limit forces.
FewEqualBodies == part = "chunks" => Chunks!FewEqualBodies

\* Every metric this sink may take is one point of exactly one client: the one of its value of
\* the vary-by dimension, also when that dimension is excluded from what is sent; no point
\* carries an excluded dimension.
RoutedByValue == part = "signalfx" => SignalFx!RoutedByValue

\* Flush reports an error exactly when some client could not take its points.
ErrorIffFailed == part = "signalfx" => SignalFx!ErrorIffFailed

\* A flush ends even if every client fails: the channel has room for all their errors.  A
\* goroutine that fails and finds no room would never be done.
RoomForErrors == part = "signalfx" => SignalFx!RoomForErrors

\* A poll is all or nothing: a finished one has sent something for every family that is neither
\* ignored nor of an unknown type and for no other, or, with a decode error, nothing at all.
PollComplete == part = "prometheus" => Prom!PollComplete

\* All that one poll sends is of the one answer it got, however long the sending takes and
\* whatever the application does meanwhile.
OneSnapshot == part = "prometheus" => Prom!OneSnapshot

\* MetricScope is honoured across Upsert, generateInterMetrics and flushForward: a
\* local-only sample never travels to another server, and a server that forwards
\* publishes neither percentiles nor set sizes of mixed samples nor global counters
\* and gauges, which are "the global veneur's job".
ScopeHonoured == part = "gauges" => Fleet!ScopeHonoured

\* The path from HandleMetricPacket to the sinks of both servers implements Accounting also for
\* gauges, of which a later one overwrites an earlier one at every stage, and for sets.
GaugesAccounted ==
  (part = "gauges" => Fleet!AccountingInit) /\ [][part = "gauges" => Fleet!AccountingStep]_allVars

-----------------------------------------------------------------------------
(* What the run states: the promises above, by component. *)

\* A t-digest keeps its weights, its order and its extremes through merges in place and over the
\* wire, and its two queries agree.
DigestSound == WeightsAddUp /\ ListSorted /\ ExtremesHold /\ QuantileInvertsCDF /\ MergesAsBuffered





\* The SignalFx sink gives each point to its client, and errors neither block it nor get lost.
SignalFxRouted == RoutedByValue /\ ErrorIffFailed /\ RoomForErrors


\* Gauges and sets in a fleet: each is accounted for once, and where its scope says.
GaugesOnce == []ScopeHonoured /\ GaugesAccounted
=============================================================================
