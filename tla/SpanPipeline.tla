---------------------------- MODULE SpanPipeline ----------------------------
(***************************************************************************)
(* The path of SSF spans through a server: readers parse packets and frames *)
(* and block on the bounded SpanChan, span workers take spans off it and    *)
(* give each to every sink, waiting for an answer or a timeout, and the     *)
(* flush reads and resets the statistics.                                   *)
(*                                                                         *)
(* A span is a model value.  Of its tags, the model keeps one key that the  *)
(* configuration's common tags also have.                                   *)
(***************************************************************************)
EXTENDS Integers, Sequences, FiniteSets

CONSTANTS Spans,       \* each arrives at most once
          Bad,         \* packets that do not parse, or are empty
          Internal,    \* spans the server's own trace client records
          Tagged,      \* spans that have the common tag's key already
          Invalid,     \* spans that are no valid trace, which sinks refuse with InvalidTrace
          Service,     \* the service of a span
          Readers,     \* goroutines of ReadSSFPacketSocket and ReadSSFStreamSocket
          Format,      \* "packet" or "framed", for each reader
          Workers,     \* goroutines of SpanWorker.Work
          Sinks,
          Hanging,     \* sinks whose Ingest may never return
          ChanCap,     \* capacity of SpanChan
          MaxFlushes   \* bound on the flushes

VARIABLES arrived,   \* spans read from a socket or recorded
          reader,    \* the span each reader is putting on SpanChan, or None
          stopped,   \* the server was shut down
          spanChan,
          dropped,   \* internal spans the trace client refused
          tag,       \* the common key's value in each span
          work,      \* the span each worker is handing out, or None
          outer,     \* the goroutine waiting for a sink: "none", "waiting", "answered", "gaveup"
          inner,     \* the goroutine calling Ingest: "none", "running", "answering", "ended"
          finished,  \* history: spans whose wg.Wait has returned
          received,  \* ssfInternalMetrics
          timeouts, errors,        \* per sink: the counts sent to statsd
          times,     \* cumulativeTimes, as the number of ingestions timed
          capCount,
          hits,      \* history: how often a worker found SpanChan full
          repReceived, repWorker,  \* history: sums of what flushes have sent
          flushes

inVars == <<arrived, reader, stopped, dropped>>
workVars == <<tag, work, outer, inner, finished, timeouts, errors>>
statVars == <<received, times, capCount, hits, repReceived, repWorker, flushes>>
vars == <<inVars, spanChan, workVars, statVars>>

None == "none"
Keys == {<<Service[s], f>> : s \in Spans, f \in {"packet", "framed"}}

Init ==
  /\ arrived = {} /\ reader = [r \in Readers |-> None] /\ stopped = FALSE
  /\ spanChan = <<>> /\ dropped = {}
  /\ tag = [s \in Spans |-> IF s \in Tagged THEN "own" ELSE "absent"]
  /\ work = [w \in Workers |-> None]
  /\ outer = [s \in Spans |-> [k \in Sinks |-> "none"]]
  /\ inner = [s \in Spans |-> [k \in Sinks |-> "none"]]
  /\ finished = {}
  /\ received = [key \in Keys |-> 0]
  /\ timeouts = [k \in Sinks |-> 0] /\ errors = [k \in Sinks |-> 0]
  /\ times = [k \in Sinks |-> 0]
  /\ capCount = 0 /\ hits = 0 /\ flushes = 0
  /\ repReceived = 0 /\ repWorker = [times |-> [k \in Sinks |-> 0], cap |-> 0]

-----------------------------------------------------------------------------
(* Readers. *)

\* handleSSF counts the span; the send on SpanChan is PutSpan.
handleSSF(r, s) ==
  /\ received' = [received EXCEPT ![<<Service[s], Format[r]>>] = @ + 1]
  /\ reader' = [reader EXCEPT ![r] = s]

\* A packet or frame comes in: one that is empty or does not parse is reported and dropped.
HandleTracePacket(r, s) ==
  /\ reader[r] = None /\ s \notin arrived /\ s \notin Internal /\ ~stopped
  /\ arrived' = arrived \cup {s}
  /\ IF s \in Bad THEN UNCHANGED <<reader, received>> ELSE handleSSF(r, s)
  /\ UNCHANGED <<stopped, dropped, spanChan, workVars, times, capCount, hits, repReceived, repWorker, flushes>>

\* s.SpanChan <- span
PutSpan(r) ==
  /\ reader[r] # None /\ Len(spanChan) < ChanCap
  /\ spanChan' = Append(spanChan, reader[r])
  /\ reader' = [reader EXCEPT ![r] = None]
  /\ UNCHANGED <<arrived, stopped, dropped, workVars, statVars>>

\* The server's trace client writes to the same channel, and never waits.
RecordInternal(s) ==
  /\ s \in Internal \ arrived
  /\ arrived' = arrived \cup {s}
  /\ IF Len(spanChan) < ChanCap THEN spanChan' = Append(spanChan, s) /\ UNCHANGED dropped
                                ELSE dropped' = dropped \cup {s} /\ UNCHANGED spanChan
  /\ UNCHANGED <<reader, stopped, workVars, statVars>>

\* Closing the sockets ends the readers once they see the shutdown; the workers go on.
Shutdown ==
  /\ ~stopped /\ stopped' = TRUE
  /\ UNCHANGED <<arrived, reader, dropped, spanChan, workVars, statVars>>

-----------------------------------------------------------------------------
(* SpanWorker.Work. *)

\* m := <-SpanChan: note a full channel, add the common tags the span lacks, start a pair of
\* goroutines for every sink.
Take(w) ==
  /\ work[w] = None /\ spanChan # <<>>
  /\ LET s == Head(spanChan)  full == Len(spanChan) - 1 >= ChanCap - 1 IN
       /\ work' = [work EXCEPT ![w] = s]
       /\ capCount' = IF full THEN capCount + 1 ELSE capCount
       /\ hits' = IF full THEN hits + 1 ELSE hits
       /\ tag' = [tag EXCEPT ![s] = IF @ = "absent" THEN "common" ELSE @]
       /\ outer' = [outer EXCEPT ![s] = [k \in Sinks |-> "waiting"]]
       /\ inner' = [inner EXCEPT ![s] = [k \in Sinks |-> "running"]]
  /\ spanChan' = Tail(spanChan)
  /\ UNCHANGED <<inVars, finished, timeouts, errors, received, times, repReceived, repWorker, flushes>>

\* sink.Ingest returns; only errors other than InvalidTrace are counted.
IngestReturns(s, k) ==
  /\ inner[s][k] = "running"
  /\ inner' = [inner EXCEPT ![s][k] = "answering"]
  /\ \/ errors' = errors
     \/ s \notin Invalid /\ errors' = [errors EXCEPT ![k] = @ + 1]
  /\ UNCHANGED <<inVars, spanChan, tag, work, outer, finished, timeouts, statVars>>

Timed(k) == times' = [times EXCEPT ![k] = @ + 1]

\* done <- struct{}{} meets <-done.
Answer(s, k) ==
  /\ inner[s][k] = "answering" /\ outer[s][k] = "waiting"
  /\ inner' = [inner EXCEPT ![s][k] = "ended"]
  /\ outer' = [outer EXCEPT ![s][k] = "answered"]
  /\ Timed(k)
  /\ UNCHANGED <<inVars, spanChan, tag, work, finished, timeouts, errors, received, capCount, hits, repReceived, repWorker, flushes>>

\* Mutant of Timeout: there is no timeout.
TimeoutNever(s, k) == FALSE /\ UNCHANGED vars

\* Mutant of Timeout: giving up on a sink is not counted.
TimeoutQuiet(s, k) ==
  /\ outer[s][k] = "waiting"
  /\ outer' = [outer EXCEPT ![s][k] = "gaveup"]
  /\ Timed(k)
  /\ UNCHANGED <<inVars, spanChan, tag, work, inner, finished, timeouts, errors, received, capCount, hits, repReceived, repWorker, flushes>>

\* Nine seconds are over.  A late answer finds nobody receiving from done, and its goroutine
\* stays blocked.
Timeout(s, k) ==
  /\ outer[s][k] = "waiting"
  /\ outer' = [outer EXCEPT ![s][k] = "gaveup"]
  /\ timeouts' = [timeouts EXCEPT ![k] = @ + 1]
  /\ Timed(k)
  /\ UNCHANGED <<inVars, spanChan, tag, work, inner, finished, errors, received, capCount, hits, repReceived, repWorker, flushes>>

\* wg.Wait() returns.
Finish(w) ==
  /\ work[w] # None
  /\ \A k \in Sinks : outer[work[w]][k] \in {"answered", "gaveup"}
  /\ finished' = finished \cup {work[w]}
  /\ work' = [work EXCEPT ![w] = None]
  /\ UNCHANGED <<inVars, spanChan, tag, outer, inner, timeouts, errors, statVars>>

-----------------------------------------------------------------------------
(* flushTraces and SpanWorker.Flush. *)

SumOver(f) == LET sum[K \in SUBSET DOMAIN f] ==
                    IF K = {} THEN 0 ELSE LET k == CHOOSE k \in K : TRUE IN f[k] + sum[K \ {k}]
              IN sum[DOMAIN f]

\* SpanWorker.Flush: each counter is swapped with 0 on its own; no step reads two of them.
SpanWorkerFlush ==
  /\ repWorker' = [times |-> [k \in Sinks |-> repWorker.times[k] + times[k]],
                   cap |-> repWorker.cap + capCount]
  /\ times' = [k \in Sinks |-> 0] /\ capCount' = 0

flushTraces ==
  /\ flushes < MaxFlushes /\ flushes' = flushes + 1
  /\ repReceived' = repReceived + SumOver(received)
  /\ received' = [key \in Keys |-> 0]
  /\ SpanWorkerFlush
  /\ UNCHANGED <<inVars, spanChan, workVars, hits>>

Work(w) == Take(w) \/ Finish(w)

Next ==
  \/ \E r \in Readers : PutSpan(r) \/ \E s \in Spans : HandleTracePacket(r, s)
  \/ \E s \in Spans : RecordInternal(s)
  \/ \E w \in Workers : Work(w)
  \/ \E s \in Spans, k \in Sinks : IngestReturns(s, k) \/ Answer(s, k) \/ Timeout(s, k)
  \/ flushTraces \/ Shutdown

Fairness ==
  /\ \A r \in Readers : SF_vars(PutSpan(r))
  /\ \A w \in Workers : WF_vars(Work(w))
  /\ \A s \in Spans, k \in Sinks : WF_vars(Answer(s, k)) /\ WF_vars(Timeout(s, k))
  /\ \A s \in Spans, k \in Sinks \ Hanging : WF_vars(IngestReturns(s, k))

Spec == Init /\ [][Next]_vars /\ Fairness

-----------------------------------------------------------------------------
(* Properties. *)

\* Type invariant: SpanChan holds at most its capacity, and the two goroutines of a sink are
\* in states that fit together.
TypeOK ==
  /\ spanChan \in Seq(Spans) /\ Len(spanChan) <= ChanCap
  /\ reader \in [Readers -> Spans \cup {None}] /\ work \in [Workers -> Spans \cup {None}]
  /\ \A s \in Spans, k \in Sinks :
       /\ outer[s][k] = "none" <=> inner[s][k] = "none"
       /\ outer[s][k] = "answered" <=> inner[s][k] = "ended"
  /\ received \in [Keys -> Nat] /\ times \in [Sinks -> Nat]

\* A worker leaves a span only when every sink has been given it and has answered or been
\* given up on, and every sink got it with the common tag filled in but never overwritten.
EverySinkServed ==
  /\ \A s \in finished, k \in Sinks : outer[s][k] \in {"answered", "gaveup"}
  /\ \A s \in Spans, k \in Sinks :
       inner[s][k] # "none" => tag[s] = (IF s \in Tagged THEN "own" ELSE "common")

\* A span that was read is in exactly one place: with its reader, in SpanChan, with a worker,
\* or finished; nothing is lost when the channel is full, except internal spans.
OnePlace ==
  \A s \in Spans :
    Cardinality({r \in Readers : reader[r] = s}) + Len(SelectSeq(spanChan, LAMBDA x : x = s))
      + Cardinality({w \in Workers : work[w] = s}) + (IF s \in finished THEN 1 ELSE 0)
    = IF s \in arrived \ (Bad \cup dropped) THEN 1 ELSE 0

\* The goroutines that a late or missing answer leaves behind are as many as the timeouts
\* reported for the sink.
LeaksCounted ==
  \A k \in Sinks :
    timeouts[k] = Cardinality({s \in Spans : outer[s][k] = "gaveup" /\ inner[s][k] # "ended"})

\* Received spans, timed ingestions and full-channel hits are reported exactly once, however
\* flushes interleave with readers and sinks.
Conserved ==
  /\ repReceived + SumOver(received) = Cardinality(arrived \ (Bad \cup Internal))
  /\ \A k \in Sinks : repWorker.times[k] + times[k]
                        = Cardinality({s \in Spans : outer[s][k] \in {"answered", "gaveup"}})
  /\ repWorker.cap + capCount = hits

\* Holds again and again: every span that was read is handed to all sinks and finished, although
\* a sink may hang for ever, as the timeout keeps the workers going.
Drained == \A s \in arrived \ (Bad \cup Internal) : s \in finished
=============================================================================
