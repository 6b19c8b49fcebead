---------------------------- MODULE DatadogSpans ----------------------------
(***************************************************************************)
(* DatadogSpanSink: span workers ingest spans into a ring under a mutex,    *)
(* and a flush takes what the ring holds, replaces the ring, and posts the  *)
(* spans grouped by trace, while more spans come in.                        *)
(***************************************************************************)
EXTENDS Integers, Sequences, FiniteSets, SequencesExt

CONSTANTS Spans,      \* the spans that come in, each once
          SpanOf,     \* their fields
          BufferSize, \* bufferSize, after the default
          MaxFlushes, \* bound on the flushes
          nil

Slots == 0..(BufferSize - 1)

VARIABLES buffer,    \* the ring's values
          head,      \* the slot dd.buffer points to
          waiting,   \* spans not ingested yet
          pc,        \* of Flush: "idle", "post", "report"
          ssfSpans,  \* what the flush in progress, or the last one, took
          posted,    \* sequence of the bodies put, each a set of traces
          counts,    \* reported spans by service, over all flushes
          flushes

vars == <<buffer, head, waiting, pc, ssfSpans, posted, counts, flushes>>

Services == {SpanOf[s].service : s \in Spans}

\* NewDatadogSpanSink
Init ==
  /\ buffer = [k \in Slots |-> nil] /\ head = 0
  /\ waiting = Spans /\ pc = "idle" /\ ssfSpans = <<>>
  /\ posted = <<>> /\ counts = [v \in Services |-> 0] /\ flushes = 0

\* Mutant of Ingest: the pointer moves first.
IngestNextFirst(s) ==
  /\ s \in waiting /\ waiting' = waiting \ {s}
  /\ IF SpanOf[s].valid
     THEN head' = (head + 1) % BufferSize /\ buffer' = [buffer EXCEPT ![head'] = s]
     ELSE UNCHANGED <<buffer, head>>
  /\ UNCHANGED <<pc, ssfSpans, posted, counts, flushes>>

\* An invalid span is refused; another takes the slot the pointer is at, under the mutex.
Ingest(s) ==
  /\ s \in waiting /\ waiting' = waiting \ {s}
  /\ IF SpanOf[s].valid
     THEN buffer' = [buffer EXCEPT ![head] = s] /\ head' = (head + 1) % BufferSize
     ELSE UNCHANGED <<buffer, head>>
  /\ UNCHANGED <<pc, ssfSpans, posted, counts, flushes>>

\* buffer.Do: from the pointer once around, without the empty slots.
Do == SelectSeq([k \in 1..BufferSize |-> buffer[(head + k - 1) % BufferSize]], LAMBDA s : s # nil)

\* Flush, under the mutex: take the spans and reset the ring.  Without spans there are no
\* traces and nothing more is done.
FlushTake ==
  /\ pc = "idle" /\ flushes < MaxFlushes /\ flushes' = flushes + 1
  /\ ssfSpans' = Do
  /\ buffer' = [k \in Slots |-> nil] /\ head' = 0
  /\ pc' = IF ssfSpans' = <<>> THEN "idle" ELSE "post"
  /\ UNCHANGED <<waiting, posted, counts>>

\* The conversion of a span.
DatadogTraceSpan(s) ==
  [span |-> s, parentId |-> IF SpanOf[s].parentId <= 0 THEN 0 ELSE SpanOf[s].parentId,
   name |-> IF SpanOf[s].name = "" THEN "unknown" ELSE SpanOf[s].name,
   resource |-> IF SpanOf[s].resource = "" THEN "unknown" ELSE SpanOf[s].resource,
   error |-> IF SpanOf[s].error THEN 2 ELSE 0]

\* The spans by trace id; the order of the traces is that of a Go map.
traceMap(spans) ==
  {LET mine == SelectSeq(spans, LAMBDA s : SpanOf[s].traceId = t)
   IN  [k \in DOMAIN mine |-> DatadogTraceSpan(mine[k])] : t \in {SpanOf[spans[k]].traceId : k \in DOMAIN spans}}

\* PostHelper, which may fail.
FlushPost ==
  /\ pc = "post" /\ pc' = "report"
  /\ \/ posted' = Append(posted, traceMap(ssfSpans))
     \/ UNCHANGED posted
  /\ UNCHANGED <<buffer, head, waiting, ssfSpans, counts, flushes>>

\* The counts by service are reported whatever came of the post.
FlushReport ==
  /\ pc = "report" /\ pc' = "idle"
  /\ counts' = [v \in Services |-> counts[v] + Len(SelectSeq(ssfSpans, LAMBDA s : SpanOf[s].service = v))]
  /\ UNCHANGED <<buffer, head, waiting, ssfSpans, posted, flushes>>

Next == FlushTake \/ FlushPost \/ FlushReport \/ \E s \in Spans : Ingest(s)

Spec == Init /\ [][Next]_vars

-----------------------------------------------------------------------------
(* Properties *)

\* The ring under the mutex implements a buffer of the newest BufferSize valid spans that a
\* flush takes whole and oldest first, whatever comes in while an earlier flush is posting.
Recent == INSTANCE RecentBuffer WITH Items <- {s \in Spans : SpanOf[s].valid}, Size <- BufferSize,
                                     kept <- Do, taken <- ssfSpans
KeepsNewest == Recent!Spec

SpansOf(body) == UNION {{t[k].span : k \in DOMAIN t} : t \in body}

\* A span is sent at most once over all flushes; the spans of one trace
\* that a flush took are sent in one array.
TracesWhole ==
  /\ \A j, k \in DOMAIN posted : j # k => SpansOf(posted[j]) \cap SpansOf(posted[k]) = {}
  /\ \A k \in DOMAIN posted : \A t, u \in posted[k] : \A a \in DOMAIN t, b \in DOMAIN u :
       SpanOf[t[a].span].traceId = SpanOf[u[b].span].traceId => t = u
=============================================================================
