--------------------------- MODULE DatadogMetrics ---------------------------
(***************************************************************************)
(* DatadogMetricSink: a flush turns the metrics it is given into Datadog    *)
(* series and service checks, posts the checks, cuts the series into bodies *)
(* of at most flushMaxPerBody and posts the bodies concurrently.            *)
(***************************************************************************)
EXTENDS Integers, Sequences, FiniteSets, SequencesExt

CONSTANTS Shapes,    \* the metrics a flush may be given
          MaxMetrics,\* bound on how many it is given
          Limits,    \* values of datadog_flush_max_per_body
          Interval,  \* in seconds
          SinkTags   \* the sink's own tags

\* A metric has a type, a value, whether this sink may take it, and a sequence of tags,
\* each a record of a key and a value.

VARIABLES flushMaxPerBody,
          interMetrics,  \* what the flush is given; shared with the other sinks
          ddmetrics, checks,
          pc,            \* of Flush: "start", "checks", "chunks", "wait", "done" or "panic"
          i, chunkSize, workers,
          bodies,        \* the chunks handed to flushPart, in order
          pending,       \* wg: the chunks whose flushPart has not returned
          flushed        \* the total reported, or -1

vars == <<flushMaxPerBody, interMetrics, ddmetrics, checks, pc, i, chunkSize, workers, bodies, pending, flushed>>
config == <<flushMaxPerBody, interMetrics>>

Init ==
  /\ flushMaxPerBody \in Limits
  /\ interMetrics \in UNION {[1..n -> Shapes] : n \in 0..MaxMetrics}
  /\ ddmetrics = <<>> /\ checks = <<>> /\ pc = "start"
  /\ i = 0 /\ chunkSize = 0 /\ workers = 0
  /\ bodies = <<>> /\ pending = {} /\ flushed = -1

-----------------------------------------------------------------------------
(* finalizeMetrics *)

\* The loop over a metric's tags: host: and device: are magic and are taken out.
Magic(tags) ==
  FoldLeft(LAMBDA acc, tag :
             CASE tag.key = "host" -> [acc EXCEPT !.host = tag.value]
               [] tag.key = "device" -> [acc EXCEPT !.device = tag.value]
               [] OTHER -> [acc EXCEPT !.tags = Append(@, tag)],
           [host |-> "", device |-> "", tags |-> SinkTags], tags)

hostname(tags) == IF Magic(tags).host = "" THEN "default" ELSE Magic(tags).host

\* A service check has no device: a device tag is dropped.
DDServiceCheck(m) == [status |-> m.value, tags |-> Magic(m.tags).tags, hostname |-> hostname(m.tags)]

\* Counters become rates: the value is a fraction of the interval.
DDMetric(m) ==
  [type |-> IF m.type = "counter" THEN "rate" ELSE "gauge",
   num |-> m.value, den |-> IF m.type = "counter" THEN Interval ELSE 1,
   tags |-> Magic(m.tags).tags, hostname |-> hostname(m.tags), device |-> Magic(m.tags).device]

Image(Op(_), s) == [k \in DOMAIN s |-> Op(s[k])]

Series(ms) == Image(DDMetric, SelectSeq(ms, LAMBDA m : ~m.routed /\ m.type \in {"counter", "gauge"}))
Checks(ms) == Image(DDServiceCheck, SelectSeq(ms, LAMBDA m : ~m.routed /\ m.type = "status"))

finalizeMetrics ==
  /\ pc = "start" /\ pc' = "checks"
  /\ ddmetrics' = Series(interMetrics) /\ checks' = Checks(interMetrics)
  /\ UNCHANGED <<config, i, chunkSize, workers, bodies, pending, flushed>>

-----------------------------------------------------------------------------
(* Flush *)

\* Go's integer division truncates towards zero.
Quo(a, b) == IF a >= 0 THEN a \div b ELSE -((-a) \div b)

\* "rounding-up integer division"
RoundUp(n, d) == Quo(n - 1, d) + 1

\* The checks are posted if there are any, and whatever comes of it the number and the size
\* of the chunks are computed: a division by zero workers panics.
FlushChecks ==
  /\ pc = "checks"
  /\ workers' = RoundUp(Len(ddmetrics), flushMaxPerBody)
  /\ IF workers' = 0 THEN pc' = "panic" /\ UNCHANGED chunkSize
     ELSE pc' = "chunks" /\ chunkSize' = RoundUp(Len(ddmetrics), workers')
  /\ UNCHANGED <<config, ddmetrics, checks, i, bodies, pending, flushed>>


\* ddmetrics[k*chunkSize:], trimmed to the chunk size unless it is the last one.
Chunk(k) ==
  SubSeq(ddmetrics, k * chunkSize + 1,
         IF k < workers - 1 THEN k * chunkSize + chunkSize ELSE Len(ddmetrics))

\* A slice past the end panics.
SliceInRange(k) ==
  /\ k * chunkSize <= Len(ddmetrics)
  /\ k < workers - 1 => k * chunkSize + chunkSize <= Len(ddmetrics)

\* One round of the loop: wg.Add and the goroutine.
Launch ==
  /\ pc = "chunks"
  /\ IF i = workers THEN pc' = "wait" /\ UNCHANGED <<i, bodies, pending>>
     ELSE IF ~SliceInRange(i) THEN pc' = "panic" /\ UNCHANGED <<i, bodies, pending>>
     ELSE /\ bodies' = Append(bodies, Chunk(i))
          /\ i' = i + 1 /\ pending' = pending \cup {i + 1} /\ UNCHANGED pc
  /\ UNCHANGED <<config, ddmetrics, checks, chunkSize, workers, flushed>>

\* PostHelper returns, with or without an error, which is ignored.
flushPart(k) ==
  /\ k \in pending /\ pending' = pending \ {k}
  /\ UNCHANGED <<config, ddmetrics, checks, pc, i, chunkSize, workers, bodies, flushed>>

\* wg.Wait and the report of the total.
Finish ==
  /\ pc = "wait" /\ pending = {}
  /\ pc' = "done" /\ flushed' = Len(ddmetrics)
  /\ UNCHANGED <<config, ddmetrics, checks, i, chunkSize, workers, bodies, pending>>

Flush == finalizeMetrics \/ FlushChecks \/ Launch \/ Finish

Next == Flush \/ \E k \in pending : flushPart(k)

\* Flush runs, and a post ends: the HTTP client has a timeout.
Spec == Init /\ [][Next]_vars /\ WF_vars(Flush) /\ WF_vars(\E k \in pending : flushPart(k))

-----------------------------------------------------------------------------
(* Properties *)

\* The bodies, in order, are the series cut without loss, repetition or overlap: none is empty
\* unless there are no series at all, and none is larger than flushMaxPerBody.
ChunksFit ==
  pc \in {"wait", "done"} =>
    /\ FlattenSeq(bodies) = ddmetrics
    /\ \A k \in DOMAIN bodies : Len(bodies[k]) <= flushMaxPerBody /\ (bodies[k] # <<>> \/ ddmetrics = <<>>)

\* "approximately equal size": no body but the last is smaller than another, and there are no
\* more bodies than the limit forces.
FewEqualBodies ==
  pc = "done" /\ ddmetrics # <<>> =>
    /\ \A k \in DOMAIN bodies : k < Len(bodies) => Len(bodies[k]) = Len(bodies[1])
    /\ (Len(bodies) - 1) * flushMaxPerBody < Len(ddmetrics)

\* The host of what is sent is the value of the metric's last host tag, or the sink's own when
\* that is empty or there is none, and what is sent has every tag that is not magic, in order.
HostFromLastTag ==
  pc # "start" =>
    LET kept == SelectSeq(interMetrics, LAMBDA m : ~m.routed /\ m.type \in {"counter", "gauge"})
    IN  /\ Len(ddmetrics) = Len(kept)
        /\ \A k \in DOMAIN kept :
             LET hosts == {t \in DOMAIN kept[k].tags : kept[k].tags[t].key = "host"}
                 last == CHOOSE t \in hosts : \A u \in hosts : u <= t
             IN  /\ ddmetrics[k].hostname = IF hosts = {} \/ kept[k].tags[last].value = "" THEN "default"
                                            ELSE kept[k].tags[last].value
                 /\ ddmetrics[k].tags = SinkTags \o SelectSeq(kept[k].tags, LAMBDA t : t.key \notin {"host", "device"})
=============================================================================
