----------------------------- MODULE Forwarding -----------------------------
(***************************************************************************)
(* The whole metric path of a tree of veneurs: clients send samples to any  *)
(* of them, workers aggregate, flushers publish and forward over HTTP, and  *)
(* the upstream veneur's /import handler spreads the JSONMetrics over its   *)
(* own workers (handlers_global.go, http.go).  The root is the server with  *)
(* no upstream.                                                             *)
(*                                                                         *)
(* A POST may fail, and what it carried is then lost (flushForward does not *)
(* retry).  It may also reach the other side although the sender sees an    *)
(* error; since the sender ignores the result that is the same as success.  *)
(***************************************************************************)
EXTENDS Flusher

VARIABLE importing  \* ImportMetrics goroutines: at which server, and what is left

vars == <<workerVars, flusherVars, importing>>

Init == WorkerInit /\ FlusherInit /\ importing = {}

\* The POST of a flushForward goroutine reaches /import, which starts ImportMetrics.
PostForward(g) ==
  /\ forwards' = forwards \ {g}
  /\ importing' = importing \cup {[at |-> Upstream[g.from], rest |-> g.body]}
  /\ UNCHANGED workerVars
  /\ UNCHANGED <<samples, events, phase, todo, other, temp, final, posts, shutdown, reported,
                 delivered, lost>>

\* The value of a forwarded sample is its percentile facet if it has one.
ValueToken(m) == <<IF "value" \in Facets(m.key.type) THEN "value" ELSE "percentile", m>>
ValueTokens(ms) == {ValueToken(m) : m \in ms}

PostFails(g) ==
  /\ forwards' = forwards \ {g}
  /\ lost' = [k \in Receivers |-> lost[k] \cup ValueTokens(AllOf(g.body))]
  /\ UNCHANGED workerVars
  /\ UNCHANGED <<samples, events, phase, todo, other, temp, final, posts, shutdown, reported,
                 delivered, importing>>

\* Mutant of ImportWorker: the hash is not the one the parser computes.
ImportWorkerOther(s, j) == <<s, (Digest[j.key] + 1) % NumWorkers>>

\* newSortableJSONMetrics: the worker a JSONMetric is for.
ImportWorker(s, j) == WorkerOf(s, j.key)

\* ImportMetrics sends the next chunk, all the metrics of the lowest worker left.
ImportMetrics(g) ==
  \E i \in 0 .. NumWorkers - 1 :
    LET js == {j \in g.rest : ImportWorker(g.at, j) = <<g.at, i>>}
    IN  /\ js # {}
        /\ \A j \in g.rest : i <= ImportWorker(g.at, j)[2]
        /\ SendImport(<<g.at, i>>, js)
        /\ importing' = (importing \ {g}) \cup
                          (IF js = g.rest THEN {} ELSE {[at |-> g.at, rest |-> g.rest \ js]})
        /\ UNCHANGED flusherVars

-----------------------------------------------------------------------------
Ingest == \E s \in Servers :
            \/ \E m \in Metrics : HandleMetricPacket(s, m) /\ UNCHANGED <<flusherVars, importing>>
            \/ \E e \in Events : HandleEventPacket(s, e) /\ UNCHANGED importing
Work(w)   == WorkStep(w) /\ UNCHANGED <<flusherVars, importing>>
FlushLoop(s) == FlushStep(s) /\ UNCHANGED importing
Sink(s, k)   == SinkFlush(s, k) /\ UNCHANGED importing
Plugin    == \E g \in posts : PluginFlush(g) /\ UNCHANGED importing
Stop      == \E s \in Servers : Shutdown(s) /\ UNCHANGED importing
Post      == \E g \in forwards : PostForward(g) \/ PostFails(g)
Import(g) == ImportMetrics(g)

Next ==
  \/ Ingest
  \/ \E w \in Workers : Work(w)
  \/ \E s \in Servers : FlushLoop(s) \/ \E k \in Sinks : Sink(s, k)
  \/ Plugin
  \/ Stop
  \/ Post
  \/ \E g \in importing : Import(g)

Spec == Init /\ [][Next]_vars

\* Every goroutine that can run does: Go schedules them preemptively, the ticker
\* fires every interval, and sinks, plugins and POSTs are bounded by HTTP timeouts.
\* The select of the ticker loop picks among ready cases at random, so it does not
\* pass over a closed shutdown channel for ever.  Clients need not send, and nobody
\* need shut a server down.
Fairness ==
  /\ \A w \in Workers : WF_vars(Work(w))
  /\ \A s \in Servers : WF_vars(FlushLoop(s)) /\ \A k \in Sinks : WF_vars(Sink(s, k))
  /\ \A s \in Servers : SF_vars(FlusherExit(s) /\ UNCHANGED importing)
  /\ WF_vars(Plugin)
  /\ WF_vars(Post)
  /\ WF_vars(\E g \in importing : Import(g))

FairSpec == Spec /\ Fairness

-----------------------------------------------------------------------------
\* Every variable of the fleet has its type.
TypeOK ==
  /\ WorkerTypeOK
  /\ FlusherTypeOK
  /\ importing \in SUBSET [at : Servers, rest : SUBSET JSONMetric]

-----------------------------------------------------------------------------
(* Where the samples are. *)

Elements(seq) == {seq[i] : i \in DOMAIN seq}

\* Received from a client and not yet in a sampler.
Queued == UNION {Elements(packetChan[w]) \cup hand[w] : w \in Workers}

\* Samplers in a worker, or taken from one by a flush that is gathering.
Entries == (UNION {wm[w] : w \in Workers}) \cup (UNION {TempEntries(s) : s \in Servers})

\* JSONMetrics on their way from one server's flush to another server's samplers.
Moving == (UNION {g.body : g \in forwards}) \cup (UNION {g.rest : g \in importing})
            \cup (UNION {(UNION Elements(importChan[w])) \cup chunk[w] : w \in Workers})

\* Points some sink or plugin k is still to be given.
PointsFor(k) ==
  (UNION {final[s] : s \in {x \in Servers : phase[x] = "sinks" /\ k \in todo[x] \cup Plugins}})
    \cup (UNION {g.points : g \in {x \in posts : k \in x.left}})

EventsFor(k) ==
  IF k \in Plugins THEN {}
  ELSE (UNION {samples[s] : s \in Servers})
         \cup (UNION {other[s] : s \in {x \in Servers : phase[x] = "other" /\ k \in todo[x]}})

\* The tokens that have been accepted and are still to reach receiver k.
EnRoute(k) ==
  (UNION {TokensOf(m) : m \in Queued})
    \cup ValueTokens(AllOf(Entries) \cup AllOf(Moving))
    \cup {<<"aggregate", m>> : m \in OwnOf(Entries)}
    \cup PointTokens(PointsFor(k))
    \cup EventTokens(EventsFor(k))

-----------------------------------------------------------------------------
(* Properties. *)

A(k) == INSTANCE Accounting WITH open <- EnRoute(k), published <- delivered[k],
                                 dropped <- lost[k] \cup ValueTokens(overwritten)

AccountingInit == \A k \in Receivers : A(k)!Init
AccountingStep == \A k \in Receivers : UNCHANGED A(k)!vars \/ A(k)!Next

\* The path from HandleMetricPacket through the workers, Flush, flushForward and
\* ImportMetrics implements Accounting towards every sink and plugin: whatever the
\* order of worker steps, flushes, POSTs and imports, no facet of a sample is
\* published twice, and none disappears except where a sink, a plugin or a POST
\* fails or a gauge is overwritten.
ImplementsAccounting == AccountingInit /\ [][AccountingStep]_vars

\* README: metrics "are consistently routed to the same worker ... to be added to
\* the same histogram".  One flush therefore yields each series once: no two points
\* of the same map, key and facet in finalMetrics, no two JSONMetrics of the same
\* key in one forwarded body, although workers fill and flush independently and a
\* series arrives both from clients and from /import.
SeriesOncePerFlush ==
  /\ \A s \in Servers : \A p, q \in final[s] :
       <<p.map, p.key, p.facet>> = <<q.map, q.key, q.facet>> => p = q
  /\ \A g \in forwards : \A i, j \in g.body : i.key = j.key => i = j

\* README: a veneur publishes "a count, min and max for the samples that were sent
\* directly to it, but not counting any samples from other Veneur instances".
\* Histo.Combine must keep imported samples out of the fields Histo.Flush reads.
AggregatesAreLocal ==
  \A s \in Servers : \A p \in final[s] : p.facet = "aggregate" => p.ms \subseteq accepted[s]

\* MetricScope is honoured across Upsert, generateInterMetrics and flushForward: a
\* local-only sample never travels to another server, and a server that forwards
\* publishes neither percentiles nor set sizes of mixed samples nor global counters
\* and gauges, which are "the global veneur's job".
ScopeHonoured ==
  /\ \A m \in AllOf(Moving) : m.scope # "local"
  /\ \A s \in Servers : IsLocal(s) =>
       \A p \in final[s] : \A m \in p.ms :
         /\ p.facet = "percentile" \/ m.key.type = "set" => m.scope = "local"
         /\ m.key.type \in {"counter", "gauge"} => m.scope # "global"

\* ImportMetric: an imported metric "was already counted by the original veneur that
\* sent this to us".  Over the fleet worker.metrics_processed_total plus the counts
\* not yet flushed is the number of samples that left the channels, each once.
CountedOnce ==
  reported + MapThenSumSet(LAMBDA w : processed[w], Workers)
    = Cardinality(AllAccepted) - Cardinality(Queued)

\* Holds again and again, if every goroutine runs: whatever a client got into a channel
\* has left the fleet, delivered, lost or overwritten.
Settled == \A k \in Sinks : EnRoute(k) = {}

\* Holds again and again: closing the shutdown channel stops the ticker loop and never a
\* flush under way.  Each flush runs to its end, back to the ticker or, once the server
\* has been told to shut down, out of the loop.
FlushOver(s) == phase[s] = IF s \in shutdown THEN "exited" ELSE "idle"

\* flusher.go: tallyMetrics "gives a slight overestimate of the number of metrics
\* we'll be reporting, so that we can pre-allocate".
TallyOverestimates ==
  \A s \in Servers :
    phase[s] = "tally" /\ Len(temp[s]) = NumWorkers =>
      NumPoints(generateInterMetrics(TempEntries(s), IsLocal(s)))
        <= tallyMetrics(TempEntries(s), IsLocal(s))
=============================================================================
