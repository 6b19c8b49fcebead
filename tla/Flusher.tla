------------------------------- MODULE Flusher -------------------------------
(***************************************************************************)
(* A server's flush (flusher.go) on top of its workers: every interval the  *)
(* flusher goroutine empties the EventWorker and hands its samples to each  *)
(* metric sink in turn, flushes the workers one by one (tallyMetrics),      *)
(* generates the points, starts the goroutine that forwards to the upstream *)
(* veneur, hands the points to all metric sinks in parallel and waits for   *)
(* them, and starts the goroutine that hands them to the plugins.           *)
(*                                                                         *)
(* A sink or plugin may fail, in whole or, as it posts its points in        *)
(* several requests, in part.  What it was given and did not take is lost   *)
(* to it: nothing is kept or retried.                                       *)
(***************************************************************************)
EXTENDS Worker, FiniteSetsExt

CONSTANTS Upstream,     \* the server ForwardAddr names, or NoServer when it is empty
          NoServer,
          Events,       \* the events clients may send, each at most once
          NumSinks,     \* len(Server.metricSinks)
          NumPlugins,   \* len(Server.plugins)
          NumAggregates, NumPercentiles,   \* points a Histo flushes
          MayShutdown   \* the servers that may be told to shut down

Sinks     == 1 .. NumSinks
Plugins   == NumSinks + 1 .. NumSinks + NumPlugins
Receivers == Sinks \cup Plugins

ASSUME FlusherAssumption ==
  /\ Upstream \in [Servers -> Servers \cup {NoServer}]
  /\ NoServer \notin Servers
  /\ NumSinks \in Nat /\ NumPlugins \in Nat
  /\ NumAggregates \in Nat \ {0} /\ NumPercentiles \in Nat \ {0}
  /\ MayShutdown \subseteq Servers

VARIABLES samples,      \* EventWorker.samples
          events,       \* events taken in so far
          phase,        \* where Server.Flush is; "idle" waiting for a tick
          todo,         \* the sinks this phase of the flush has yet to serve
          other,        \* the event samples of this flush
          temp,         \* tempMetrics: what the workers flushed so far returned
          final,        \* finalMetrics of this flush
          forwards,     \* flushForward goroutines: whose, and the JSONMetrics to post
          posts,        \* plugin goroutines: the points, and the plugins left
          shutdown,     \* servers whose shutdown channel is closed
          reported,     \* sum of worker.metrics_processed_total over all servers
          delivered,    \* how often each receiver was given each facet of a sample
          lost          \* what failed on its way to each receiver

flusherVars == <<samples, events, phase, todo, other, temp, final, forwards, posts,
                 shutdown, reported, delivered, lost>>

\* A token is one facet of one sample: what has to be published exactly once.
Token == ({"aggregate", "percentile", "value"} \X Metrics) \cup ({"event"} \X Events)
TokensOf(m) == {<<f, m>> : f \in Facets(m.key.type)}
EventTokens(es) == {"event"} \X es

PointTokens(ps) == UNION {{<<p.facet, m>> : m \in p.ms} : p \in ps}

IsLocal(s) == Upstream[s] # NoServer

FlusherInit ==
  /\ samples   = [s \in Servers |-> {}]
  /\ events    = {}
  /\ phase     = [s \in Servers |-> "idle"]
  /\ todo      = [s \in Servers |-> {}]
  /\ other     = [s \in Servers |-> {}]
  /\ temp      = [s \in Servers |-> <<>>]
  /\ final     = [s \in Servers |-> {}]
  /\ forwards  = {}
  /\ posts     = {}
  /\ shutdown  = {}
  /\ reported  = 0
  /\ delivered = [k \in Receivers |-> [t \in Token |-> 0]]
  /\ lost      = [k \in Receivers |-> {}]

\* The slices of sinks and plugins are served in order.
IsFirst(k, ks) == \A x \in ks : k <= x

\* Receiver k is given the tokens ts and takes those in got.
Give(k, ts, got) ==
  /\ delivered' = [delivered EXCEPT ![k] = [t \in Token |-> @[t] + (IF t \in got THEN 1 ELSE 0)]]
  /\ lost' = [lost EXCEPT ![k] = @ \cup (ts \ got)]

-----------------------------------------------------------------------------
\* An event packet: the reader hands the event to the EventWorker, which appends it.
HandleEventPacket(s, e) ==
  /\ e \in Events \ events
  /\ events' = events \cup {e}
  /\ samples' = [samples EXCEPT ![s] = @ \cup {e}]
  /\ UNCHANGED workerVars
  /\ UNCHANGED <<phase, todo, other, temp, final, forwards, posts, shutdown, reported,
                 delivered, lost>>

\* The ticker fires: Flush begins by emptying the EventWorker.
FlushStart(s) ==
  /\ phase[s] = "idle"
  /\ phase' = [phase EXCEPT ![s] = IF Sinks = {} THEN "tally" ELSE "other"]
  /\ todo' = [todo EXCEPT ![s] = Sinks]
  /\ other' = [other EXCEPT ![s] = samples[s]]
  /\ samples' = [samples EXCEPT ![s] = {}]
  /\ UNCHANGED workerVars
  /\ UNCHANGED <<events, temp, final, forwards, posts, shutdown, reported, delivered, lost>>

\* FlushOtherSamples on the next sink of the slice; after the last the workers follow.
FlushOtherSamples(s) ==
  LET ts == EventTokens(other[s])
  IN  /\ phase[s] = "other"
      /\ \E k \in todo[s] :
           /\ IsFirst(k, todo[s])
           /\ todo' = [todo EXCEPT ![s] = @ \ {k}]
           /\ phase' = [phase EXCEPT ![s] = IF todo[s] = {k} THEN "tally" ELSE "other"]
           /\ \E got \in {{}, ts} : Give(k, ts, got)
      /\ UNCHANGED workerVars
      /\ UNCHANGED <<samples, events, other, temp, final, forwards, posts, shutdown, reported>>

\* Mutant of TallyWorker: the loop stops one worker early.
TallyWorkerShort(s) ==
  LET w == <<s, Len(temp[s])>>
  IN  /\ phase[s] = "tally"
      /\ Len(temp[s]) < NumWorkers - 1
      /\ FlushWorker(w)
      /\ temp' = [temp EXCEPT ![s] = Append(@, wm[w])]
      /\ reported' = reported + processed[w]
      /\ UNCHANGED <<samples, events, phase, todo, other, final, forwards, posts, shutdown,
                     delivered, lost>>

\* tallyMetrics flushes the next worker and keeps what it returns.
TallyWorker(s) ==
  LET w == <<s, Len(temp[s])>>
  IN  /\ phase[s] = "tally"
      /\ Len(temp[s]) < NumWorkers
      /\ FlushWorker(w)
      /\ temp' = [temp EXCEPT ![s] = Append(@, wm[w])]
      /\ reported' = reported + processed[w]
      /\ UNCHANGED <<samples, events, phase, todo, other, final, forwards, posts, shutdown,
                     delivered, lost>>

TempEntries(s) == UNION {temp[s][i] : i \in DOMAIN temp[s]}

\* Mutant of Generate: the last worker may be left out.
GenerateEarly(s) ==
  LET ps == generateInterMetrics(TempEntries(s), IsLocal(s))
      js == Export(TempEntries(s))
  IN  /\ phase[s] = "tally"
      /\ Len(temp[s]) >= NumWorkers - 1
      /\ final' = [final EXCEPT ![s] = ps]
      /\ temp' = [temp EXCEPT ![s] = <<>>]
      /\ other' = [other EXCEPT ![s] = {}]
      /\ forwards' = IF IsLocal(s) /\ js # {} THEN forwards \cup {[from |-> s, body |-> js]}
                                             ELSE forwards
      /\ phase' = [phase EXCEPT ![s] = IF ps = {} THEN "idle" ELSE "sinks"]
      /\ todo' = [todo EXCEPT ![s] = IF ps = {} THEN {} ELSE Sinks]
      /\ UNCHANGED workerVars
      /\ UNCHANGED <<samples, events, posts, shutdown, reported, delivered, lost>>

\* All workers are flushed: generate the points, start forwarding, and return at
\* once when there is nothing for the sinks.
Generate(s) ==
  LET ps == generateInterMetrics(TempEntries(s), IsLocal(s))
      js == Export(TempEntries(s))
  IN  /\ phase[s] = "tally"
      /\ Len(temp[s]) = NumWorkers
      /\ final' = [final EXCEPT ![s] = ps]
      /\ temp' = [temp EXCEPT ![s] = <<>>]
      /\ other' = [other EXCEPT ![s] = {}]
      /\ forwards' = IF IsLocal(s) /\ js # {} THEN forwards \cup {[from |-> s, body |-> js]}
                                             ELSE forwards
      /\ phase' = [phase EXCEPT ![s] = IF ps = {} THEN "idle" ELSE "sinks"]
      /\ todo' = [todo EXCEPT ![s] = IF ps = {} THEN {} ELSE Sinks]
      /\ UNCHANGED workerVars
      /\ UNCHANGED <<samples, events, posts, shutdown, reported, delivered, lost>>

\* The goroutine of sink k returns, having taken some of the points.
SinkFlush(s, k) ==
  /\ phase[s] = "sinks"
  /\ k \in todo[s]
  /\ todo' = [todo EXCEPT ![s] = @ \ {k}]
  /\ \E ps \in SUBSET final[s] : Give(k, PointTokens(final[s]), PointTokens(ps))
  /\ UNCHANGED workerVars
  /\ UNCHANGED <<samples, events, phase, other, temp, final, forwards, posts, shutdown, reported>>

\* wg.Wait returns: start the plugin goroutine, and the flush is over.
FlushDone(s) ==
  /\ phase[s] = "sinks"
  /\ todo[s] = {}
  /\ phase' = [phase EXCEPT ![s] = "idle"]
  /\ final' = [final EXCEPT ![s] = {}]
  /\ posts' = IF Plugins = {} THEN posts ELSE posts \cup {[points |-> final[s], left |-> Plugins]}
  /\ UNCHANGED workerVars
  /\ UNCHANGED <<samples, events, todo, other, temp, forwards, shutdown, reported, delivered, lost>>

\* Mutant of PluginFlush: the goroutine returns on the first error.
PluginFlushReturns(g) ==
  /\ \E p \in g.left, ps \in {{}, g.points} :
       /\ IsFirst(p, g.left)
       /\ posts' = (posts \ {g}) \cup
                     (IF g.left = {p} \/ ps = {} THEN {}
                      ELSE {[points |-> g.points, left |-> g.left \ {p}]})
       /\ Give(p, PointTokens(g.points), PointTokens(ps))
  /\ UNCHANGED workerVars
  /\ UNCHANGED <<samples, events, phase, todo, other, temp, final, forwards, shutdown, reported>>

\* A plugin goroutine flushes its next plugin; an error does not stop it.
PluginFlush(g) ==
  /\ \E p \in g.left :
       /\ IsFirst(p, g.left)
       /\ posts' = (posts \ {g}) \cup
                     (IF g.left = {p} THEN {} ELSE {[points |-> g.points, left |-> g.left \ {p}]})
       /\ \E ps \in {{}, g.points} : Give(p, PointTokens(g.points), PointTokens(ps))
  /\ UNCHANGED workerVars
  /\ UNCHANGED <<samples, events, phase, todo, other, temp, final, forwards, shutdown, reported>>

\* Server.Shutdown closes the shutdown channel; the flusher goroutine returns when
\* its select takes that case, which it may do one tick late.
Shutdown(s) ==
  /\ s \in MayShutdown \ shutdown
  /\ shutdown' = shutdown \cup {s}
  /\ UNCHANGED workerVars
  /\ UNCHANGED <<samples, events, phase, todo, other, temp, final, forwards, posts, reported,
                 delivered, lost>>

FlusherExit(s) ==
  /\ s \in shutdown
  /\ phase[s] = "idle"
  /\ phase' = [phase EXCEPT ![s] = "exited"]
  /\ UNCHANGED workerVars
  /\ UNCHANGED <<samples, events, todo, other, temp, final, forwards, posts, shutdown, reported,
                 delivered, lost>>

FlushStep(s) == \/ FlushStart(s) \/ FlushOtherSamples(s) \/ TallyWorker(s)
                \/ Generate(s) \/ FlushDone(s) \/ FlusherExit(s)

-----------------------------------------------------------------------------
\* metricsSummary.totalLength: the capacity generateInterMetrics allocates.
Count(es, maps) == Cardinality({e \in es : e.map \in maps})

tallyMetrics(es, isLocal) ==
  Count(es, {"counters", "gauges", "localSets"})
    + Count(es, {"timers", "histograms"}) * (NumAggregates + IF isLocal THEN 0 ELSE NumPercentiles)
    + Count(es, {"localTimers", "localHistograms"}) * (NumAggregates + NumPercentiles)
    + IF isLocal THEN 0 ELSE Count(es, {"sets", "globalCounters", "globalGauges"})

\* How many InterMetrics the points stand for.
NumPoints(ps) ==
  MapThenSumSet(LAMBDA p : CASE p.facet = "aggregate"  -> NumAggregates
                             [] p.facet = "percentile" -> NumPercentiles
                             [] OTHER                  -> 1, ps)

-----------------------------------------------------------------------------
Points == [map : Maps, key : Key, facet : {"aggregate", "percentile", "value"},
           ms : SUBSET Metrics]

\* The type of what Server.Flush and the goroutines it starts hold.
FlusherTypeOK ==
  /\ samples \in [Servers -> SUBSET Events]
  /\ events \in SUBSET Events
  /\ phase \in [Servers -> {"idle", "other", "tally", "sinks", "exited"}]
  /\ todo \in [Servers -> SUBSET Sinks]
  /\ other \in [Servers -> SUBSET Events]
  /\ temp \in [Servers -> Seq(SUBSET Entry)]
  /\ final \in [Servers -> SUBSET Points]
  /\ forwards \in SUBSET [from : Servers, body : SUBSET JSONMetric]
  /\ posts \in SUBSET [points : SUBSET Points, left : SUBSET Plugins]
  /\ shutdown \in SUBSET Servers
  /\ reported \in Nat
  /\ delivered \in [Receivers -> [Token -> Nat]]
  /\ lost \in [Receivers -> SUBSET Token]
=============================================================================
