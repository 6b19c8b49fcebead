------------------------------- MODULE Startup -------------------------------
(***************************************************************************)
(* How a veneur comes up: main reads the file and the environment, fills in *)
(* replaced keys and defaults, builds the server with the sinks that are    *)
(* configured, starts its span workers, the sinks one by one, then the      *)
(* listeners. Packets that cannot be parsed leave samples of the server's   *)
(* own in the span channel, which only span workers empty.                  *)
(* A setting is a natural number, 0 the zero value of its Go type.          *)
(***************************************************************************)
EXTENDS Integers, Sequences

CONSTANTS Files,      \* [keys, unknown, broken]: what the file may hold; keys is a partial function to Nat
          Envs,       \* [keys, bad]: what the environment may set; bad: a value does not parse
          OsHostname, \* what os.Hostname returns
          ChanCap,    \* capacity of SpanChan
          MaxSamples  \* bound on the samples of the server's own

\* The keys that replace another.
Old == [datadog_span_buffer_size   |-> "ssf_buffer_size",
        datadog_flush_max_per_body |-> "flush_max_per_body",
        lightstep_num_clients      |-> "trace_lightstep_num_clients",
        lightstep_collector_host   |-> "trace_lightstep_collector_host",
        lightstep_access_token     |-> "trace_lightstep_access_token",
        lightstep_maximum_spans    |-> "trace_lightstep_maximum_spans",
        lightstep_reconnect_period |-> "trace_lightstep_reconnect_period"]

\* The defaults; the lists and durations among them are only told apart from zero.
defaultConfig == [aggregates |-> 3, interval |-> 10, metric_max_length |-> 4096, read_buffer_size_bytes |-> 2097152,
                  datadog_flush_max_per_body |-> 25000, span_channel_capacity |-> 100]

Keys == DOMAIN Old \cup {Old[k] : k \in DOMAIN Old} \cup DOMAIN defaultConfig
          \cup {"hostname", "omit_empty_hostname", "ssf_listen_addresses", "num_span_workers", "tls_key", "tls_certificate",
                "signalfx_api_key", "datadog_api_key", "datadog_api_hostname", "datadog_trace_api_address", "falconer_address",
                "kafka_broker", "kafka_metric_topic", "kafka_check_topic", "kafka_event_topic", "kafka_span_topic",
                "aws_access_key_id", "aws_secret_access_key", "flush_file"}

VARIABLES file, env,
          pc,        \* "read", "new", "start", "running", "fatal"
          conf,      \* Config
          server,    \* [metricSinks, spanSinks, plugins, SpanWorkerGoroutines]
          started,   \* the sinks that have been started, in order
          listening, \* the protocols that are listened for
          spanChan,  \* number of samples in SpanChan
          reported   \* [made, lost, done]: samples of the server's own

vars == <<file, env, pc, conf, server, started, listening, spanChan, reported>>
traffic == <<spanChan, reported>>

Init ==
  /\ file \in Files /\ env \in Envs /\ pc = "read" /\ conf = [k \in Keys |-> 0] /\ started = <<>>
  /\ server = [metricSinks |-> <<>>, spanSinks |-> <<>>, plugins |-> <<>>, SpanWorkerGoroutines |-> 0]
  /\ listening = {} /\ spanChan = 0 /\ reported = [made |-> 0, lost |-> 0, done |-> 0]

-----------------------------------------------------------------------------
(* ReadConfig *)

Get(f, k) == IF k \in DOMAIN f THEN f[k] ELSE 0

\* readConfig: the test for unknown keys looks at the error of reading the file, which is nil
\* here, so a file with unknown keys is returned before the environment is looked at.
readConfig(f, e) ==
  [k \in Keys |-> IF ~f.unknown /\ k \in DOMAIN e.keys THEN e.keys[k] ELSE Get(f.keys, k)]

\* Mutant of applyDefaults: the defaults come before the replaced keys.
applyDefaultsFirst(c) ==
  LET given == [k \in Keys |-> IF c[k] = 0 THEN Get(defaultConfig, k) ELSE c[k]]
      moved == [k \in Keys |-> IF k \in DOMAIN Old /\ given[k] = 0 THEN c[Old[k]] ELSE given[k]]
  IN  IF moved["hostname"] = 0 /\ moved["omit_empty_hostname"] = 0 THEN [moved EXCEPT !["hostname"] = OsHostname] ELSE moved

\* Replaced keys first, then the defaults of what is still zero.
applyDefaults(c) ==
  LET moved == [k \in Keys |-> IF k \in DOMAIN Old /\ c[k] = 0 THEN c[Old[k]] ELSE c[k]]
      given == [k \in Keys |-> IF moved[k] = 0 THEN Get(defaultConfig, k) ELSE moved[k]]
  IN  IF given["hostname"] = 0 /\ given["omit_empty_hostname"] = 0 THEN [given EXCEPT !["hostname"] = OsHostname] ELSE given

\* A file or an environment that does not parse ends the program, unknown keys are a warning.
ReadConfig ==
  /\ pc = "read"
  /\ conf' = applyDefaults(readConfig(file, env))
  /\ pc' = IF file.broken \/ (~file.unknown /\ env.bad) THEN "fatal" ELSE "new"
  /\ UNCHANGED <<file, env, server, started, listening, traffic>>

-----------------------------------------------------------------------------
(* NewFromConfig *)

Has(k) == conf[k] # 0
When(p, s) == IF p THEN <<s>> ELSE <<>>

NewKafkaMetricSink ==
  When(Has("kafka_broker") /\ (Has("kafka_metric_topic") \/ Has("kafka_check_topic") \/ Has("kafka_event_topic")), "kafka")

NewKafkaSpanSink == When(Has("kafka_broker") /\ Has("kafka_span_topic"), "kafka")

metricSinks ==
  When(Has("signalfx_api_key"), "signalfx") \o When(Has("datadog_api_key") /\ Has("datadog_api_hostname"), "datadog")
    \o NewKafkaMetricSink

\* Metric extraction is always there, Kafka also without an SSF address.
spanSinks ==
  <<"metric_extraction">>
    \o (IF ~Has("ssf_listen_addresses") THEN <<>>
        ELSE When(Has("datadog_api_key") /\ Has("datadog_trace_api_address"), "datadog")
               \o When(Has("lightstep_access_token"), "lightstep") \o When(Has("falconer_address"), "falconer"))
    \o NewKafkaSpanSink

\* session: whether an AWS session could be made; without one S3 is left out.
registerPlugins(session) ==
  When(Has("aws_access_key_id") /\ Has("aws_secret_access_key") /\ session, "s3") \o When(Has("flush_file"), "localfile")

\* Only an SSF address brings span workers, at least one.
SpanWorkerGoroutines ==
  IF ~Has("ssf_listen_addresses") THEN 0 ELSE IF Has("num_span_workers") THEN conf["num_span_workers"] ELSE 1

\* A TLS key without certificate, or a constructor's error, ends the program.
NewFromConfig ==
  /\ pc = "new"
  /\ \/ pc' = "fatal" /\ UNCHANGED server
     \/ /\ Has("tls_key") => Has("tls_certificate")
        /\ pc' = "start"
        /\ \E session \in BOOLEAN :
             server' = [metricSinks |-> metricSinks, spanSinks |-> spanSinks, plugins |-> registerPlugins(session),
                        SpanWorkerGoroutines |-> SpanWorkerGoroutines]
  /\ UNCHANGED <<file, env, conf, started, listening, traffic>>

-----------------------------------------------------------------------------
(* Server.Start *)

\* The span sinks, then the metric sinks.
AllSinks == [i \in DOMAIN server.spanSinks |-> <<"span", server.spanSinks[i]>>]
              \o [i \in DOMAIN server.metricSinks |-> <<"metric", server.metricSinks[i]>>]

\* A sink that does not start ends the program.
StartSink ==
  /\ pc = "start" /\ Len(started) < Len(AllSinks)
  /\ \/ started' = Append(started, AllSinks[Len(started) + 1]) /\ UNCHANGED pc
     \/ pc' = "fatal" /\ UNCHANGED started
  /\ UNCHANGED <<file, env, conf, server, listening, traffic>>

\* The listeners of a protocol, after every sink; one that cannot be opened is a panic.
Listen(protocol) ==
  /\ pc = "start" /\ started = AllSinks /\ protocol \notin listening
  /\ \/ listening' = listening \cup {protocol} /\ UNCHANGED pc
     \/ pc' = "fatal" /\ UNCHANGED listening
  /\ UNCHANGED <<file, env, conf, server, started, traffic>>

StartStatsd == Listen("statsd")
StartSSF == "statsd" \in listening /\ Has("ssf_listen_addresses") /\ Listen("ssf")

\* Start returns with the flush loop running.
Started ==
  /\ pc = "start" /\ "statsd" \in listening /\ (Has("ssf_listen_addresses") => "ssf" \in listening)
  /\ pc' = "running" /\ UNCHANGED <<file, env, conf, server, started, listening, traffic>>

-----------------------------------------------------------------------------
(* Samples of the server's own *)

\* HandleMetricPacket on a packet that does not parse: the sample is dropped when SpanChan is full.
BadPacket ==
  /\ pc \in {"start", "running"} /\ "statsd" \in listening /\ reported.made < MaxSamples
  /\ IF spanChan < ChanCap
     THEN spanChan' = spanChan + 1 /\ reported' = [reported EXCEPT !.made = @ + 1]
     ELSE UNCHANGED spanChan /\ reported' = [reported EXCEPT !.made = @ + 1, !.lost = @ + 1]
  /\ UNCHANGED <<file, env, pc, conf, server, started, listening>>

\* A span worker, running since before the sinks were started, takes a sample to them.
SpanWork ==
  /\ pc \in {"start", "running"} /\ server.SpanWorkerGoroutines > 0 /\ spanChan > 0
  /\ spanChan' = spanChan - 1 /\ reported' = [reported EXCEPT !.done = @ + 1]
  /\ UNCHANGED <<file, env, pc, conf, server, started, listening>>

Next == ReadConfig \/ NewFromConfig \/ StartSink \/ StartStatsd \/ StartSSF \/ Started \/ BadPacket \/ SpanWork

Spec == Init /\ [][Next]_vars /\ WF_vars(SpanWork)

-----------------------------------------------------------------------------
(* Properties *)

\* What the documentation makes of a key: the environment before the file, the key before the
\* one it replaces, that before the default.
Effective(k) ==
  LET of(key) == IF key \in DOMAIN env.keys THEN env.keys[key] ELSE Get(file.keys, key)
      given == SelectSeq(<<of(k), IF k \in DOMAIN Old THEN of(Old[k]) ELSE 0, Get(defaultConfig, k)>>, LAMBDA v : v # 0)
  IN  IF given = <<>> THEN 0 ELSE Head(given)

Configured == pc \notin {"read", "fatal"}

\* With no unknown key in the file, ReadConfig gives every replacing or defaulted key the value
\* of the first that is set: itself, the key it replaces (each in the environment, then in the
\* file), the default.
SettingsResolved ==
  Configured /\ ~file.unknown => \A k \in DOMAIN Old \cup DOMAIN defaultConfig : conf[k] = Effective(k)

\* Start opens no listener before every sink has been started, in the order of the lists.
SinksBeforeTraffic == listening # {} => started = AllSinks

\* Holds again and again: a server with an SSF address takes all samples of its own out of
\* SpanChan, whatever num_span_workers is set to.
OwnSamplesOut == conf["ssf_listen_addresses"] = 0 \/ spanChan = 0 \/ pc = "fatal"
=============================================================================
