-------------------------- MODULE PrometheusPoller --------------------------
(***************************************************************************)
(* veneur-prometheus: at every tick it fetches the metric families of a     *)
(* Prometheus endpoint and sends them to a veneur as statsd metrics, family *)
(* by family, while the application behind the endpoint goes on counting    *)
(* and may restart.                                                         *)
(***************************************************************************)
EXTENDS Integers, Sequences, FiniteSets, SequencesExt

CONSTANTS Families, \* sequence of [name, type] in the order they are exposed
          Ignored,  \* names that match -ignored-metrics
          prefix,   \* -p
          Reachable, \* whether the endpoint always answers
          MaxPolls, MaxValue \* bounds

VARIABLES observed,  \* how often each family was observed, over all restarts (history)
          value,     \* of each family: its value, or for two of them the number of observations
          poller,    \* "waiting", "polling", "crashed"
          polls,
          snapshot,  \* what the endpoint answered to the current poll
          at,        \* the family being decoded
          sent,      \* every metric sent: [namespace, from, part, type, value, poll]
          namespace, \* the statsd client's
          decodeErrors, \* the polls that ended with one
          flushed    \* sum of veneur.prometheus.metrics_flushed_total

vars == <<observed, value, poller, polls, snapshot, at, sent, namespace, decodeErrors, flushed>>
collecting == <<polls, snapshot, at, sent, namespace, decodeErrors, flushed>>

Init ==
  /\ value = [i \in DOMAIN Families |-> 0] /\ observed = value /\ poller = "waiting" /\ polls = 0
  /\ snapshot = value /\ at = 1 /\ sent = <<>> /\ namespace = "" /\ decodeErrors = {} /\ flushed = 0

-----------------------------------------------------------------------------
(* The application, external *)

Observe(i) ==
  /\ observed[i] < MaxValue /\ observed' = [observed EXCEPT ![i] = @ + 1] /\ value' = [value EXCEPT ![i] = @ + 1]
  /\ UNCHANGED <<poller, collecting>>

Restart ==
  /\ \E i \in DOMAIN Families : value[i] # 0
  /\ value' = [i \in DOMAIN Families |-> 0] /\ UNCHANGED <<observed, poller, collecting>>

-----------------------------------------------------------------------------
(* The poller *)

\* A tick of main's loop: the error of http.Get is dropped, and a nil response is dereferenced.
\* The loop has no end, so that the assignment of the prefix behind it is never reached.
Tick ==
  /\ poller = "waiting" /\ polls < MaxPolls
  /\ polls' = polls + 1 /\ snapshot' = value /\ at' = 1
  /\ poller' \in (IF Reachable THEN {"polling"} ELSE {"polling", "crashed"})
  /\ UNCHANGED <<observed, value, sent, namespace, decodeErrors, flushed>>

shouldExportMetric(i) == Families[i].name \notin Ignored

Metric(i, part, type, v) == [namespace |-> namespace, from |-> i, part |-> part, type |-> type, value |-> v, poll |-> polls]


\* The metrics of a family. A histogram is read as a summary, which it does not have; the
\* quantile of a summary is no number as long as nothing was observed.
Export(i) ==
  LET v == snapshot[i] t == Families[i].type
      summary == IF t = "summary" THEN v ELSE 0
  IN  CASE t = "counter" -> <<Metric(i, "value", "count", v)>>
        [] t = "gauge" -> <<Metric(i, "value", "gauge", v)>>
        [] t \in {"summary", "histogram"} ->
             <<Metric(i, "sum", "gauge", summary), Metric(i, "count", "gauge", summary)>>
               \o (IF summary > 0 THEN <<Metric(i, "percentile", "gauge", summary)>> ELSE <<>>)
        [] OTHER -> <<>>

\* What counts as flushed: counters, gauges and quantiles.
Counted(ms) == Len(SelectSeq(ms, LAMBDA m : m.part \notin {"sum", "count"}))

\* The next family of the answer.
Decode ==
  /\ poller = "polling" /\ at <= Len(Families)
  /\ IF shouldExportMetric(at)
     THEN sent' = sent \o Export(at) /\ flushed' = flushed + Counted(Export(at))
     ELSE UNCHANGED <<sent, flushed>>
  /\ at' = at + 1
  /\ UNCHANGED <<observed, value, poller, polls, snapshot, namespace, decodeErrors>>

\* The decoder parses the whole answer for its first family: one that it cannot parse ends the
\* poll before anything was sent, and is counted.
DecodeError ==
  /\ poller = "polling" /\ at = 1
  /\ decodeErrors' = decodeErrors \cup {polls} /\ poller' = "waiting"
  /\ UNCHANGED <<observed, value, polls, snapshot, at, sent, namespace, flushed>>

EndOfBody ==
  /\ poller = "polling" /\ at > Len(Families) /\ poller' = "waiting"
  /\ UNCHANGED <<observed, value, polls, snapshot, at, sent, namespace, decodeErrors, flushed>>

Next == Restart \/ (\E i \in DOMAIN Families : Observe(i)) \/ Tick \/ Decode \/ DecodeError \/ EndOfBody

Spec == Init /\ [][Next]_vars

-----------------------------------------------------------------------------
(* Properties *)

SentFor(p, i) == SelectSeq(sent, LAMBDA m : m.poll = p /\ m.from = i)
Known(i) == Families[i].name \notin Ignored /\ Families[i].type # "untyped"

\* A poll is all or nothing: a finished one has sent something for every family that is neither
\* ignored nor of an unknown type and for no other, or, with a decode error, nothing at all.
PollComplete ==
  \A p \in 1..polls : (p = polls /\ poller # "waiting") \/
    \A i \in DOMAIN Families : (Known(i) /\ p \notin decodeErrors) <=> SentFor(p, i) # <<>>

\* All that one poll sends is of the one answer it got, however long the sending takes and
\* whatever the application does meanwhile.
OneSnapshot ==
  \A k \in DOMAIN sent : sent[k].poll = polls /\ Families[sent[k].from].type # "histogram" => sent[k].value = snapshot[sent[k].from]
=============================================================================
