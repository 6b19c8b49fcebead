---------------------------- MODULE SignalFxSink ----------------------------
(***************************************************************************)
(* SignalFxSink: a flush gives every metric its dimensions, sorts the       *)
(* points by the client that has to send them, and submits them by one      *)
(* goroutine per client, whose errors come back over a channel.             *)
(***************************************************************************)
EXTENDS Integers, Sequences, FiniteSets, SequencesExt

CONSTANTS Keys, Vals,       \* names and values of dimensions
          HostnameTag, VaryBy,   \* members of Keys; VaryBy may also be nil
          Common,           \* commonDimensions, a partial function on Keys
          Excluded,         \* excludedTags
          Clients,          \* the values of VaryBy that have a client of their own
          Metrics,          \* the sets of metrics a flush may be given, [routed, tags] each
          MaxMetrics,       \* bound on how many it is given
          nil

default == "default"

VARIABLES interMetrics,
          coll,      \* points of the default client and by key, each point [metric, dims]
          skipped,   \* countSkipped
          pc,        \* of Flush: "start", "wait", "done"
          running,   \* wg: clients whose submitOne has not finished
          errorCh,   \* the clients whose error is in the channel
          failed,    \* the clients that could not take their points
          result     \* what Flush returned: "", "ok" or "error"

vars == <<interMetrics, coll, skipped, pc, running, errorCh, failed, result>>

Init ==
  /\ interMetrics \in UNION {[1..n -> Metrics] : n \in 0..MaxMetrics}
  /\ coll = [c \in {default} |-> <<>>] /\ skipped = 0 /\ pc = "start"
  /\ running = {} /\ errorCh = <<>> /\ failed = {} /\ result = ""

-----------------------------------------------------------------------------
(* Flush, before the submission *)

\* The entries of f, and of g where f has none.
Over(f, g) == [k \in DOMAIN f \cup DOMAIN g |-> IF k \in DOMAIN f THEN f[k] ELSE g[k]]

\* The host name, over it the metric's tags, over them the common dimensions.
dims(m) == Over(Common, Over(m.tags, [k \in {HostnameTag} |-> "thishost"]))

\* Mutant of metricKey: the excluded tags are taken out first.
metricKeyLate(m) == IF VaryBy \notin (DOMAIN dims(m)) \ Excluded THEN "" ELSE dims(m)[VaryBy]

metricKey(m) == IF VaryBy \in DOMAIN dims(m) THEN dims(m)[VaryBy] ELSE ""

SentDims(m) == [k \in (DOMAIN dims(m)) \ (Excluded \cup {"veneursinkonly"}) |-> dims(m)[k]]

\* A point goes to its key's client, if that key has one, else to the default client.
addPoint(c, key, point) ==
  LET to == IF key \in Clients THEN key ELSE default
  IN  Over([k \in {to} |-> Append(IF to \in DOMAIN c THEN c[to] ELSE <<>>, point)], c)

\* Flush up to the goroutines of submit; the default client gets one whether it has points or not.
Collect ==
  /\ pc = "start" /\ pc' = "wait"
  /\ coll' = FoldLeft(LAMBDA c, k : IF interMetrics[k].routed THEN c
                                    ELSE addPoint(c, metricKey(interMetrics[k]), [metric |-> k, dims |-> SentDims(interMetrics[k])]),
                      coll, [k \in DOMAIN interMetrics |-> k])
  /\ skipped' = Len(SelectSeq(interMetrics, LAMBDA m : m.routed))
  /\ running' = DOMAIN coll'
  /\ UNCHANGED <<interMetrics, errorCh, failed, result>>

-----------------------------------------------------------------------------
(* submit *)

\* len(c.pointsByKey)+1
errorCap == Cardinality((DOMAIN coll) \ {default}) + 1

\* client.AddDatapoints returns; an error goes into the channel before wg.Done.
submitOne(c) ==
  /\ c \in running
  /\ \/ UNCHANGED <<errorCh, failed>>
     \/ Len(errorCh) < errorCap /\ errorCh' = Append(errorCh, c) /\ failed' = failed \cup {c}
  /\ running' = running \ {c}
  /\ UNCHANGED <<interMetrics, coll, skipped, pc, result>>

\* wg.Wait, the errors are collected, and the counts reported.
Wait ==
  /\ pc = "wait" /\ running = {} /\ pc' = "done"
  /\ result' = IF errorCh = <<>> THEN "ok" ELSE "error"
  /\ UNCHANGED <<interMetrics, coll, skipped, running, errorCh, failed>>

Next == Collect \/ Wait \/ \E c \in running : submitOne(c)

\* Calls to SignalFx end, the HTTP client has a timeout.
Spec == Init /\ [][Next]_vars /\ WF_vars(Next)

-----------------------------------------------------------------------------
(* Properties *)

\* Every metric this sink may take is one point of exactly one client: the one of its value of
\* the vary-by dimension, also when that dimension is excluded from what is sent; no point
\* carries an excluded dimension.
RoutedByValue ==
  pc # "start" =>
    /\ \A k \in DOMAIN interMetrics :
         LET m == interMetrics[k]
             home == IF VaryBy \in DOMAIN dims(m) /\ dims(m)[VaryBy] \in Clients THEN dims(m)[VaryBy] ELSE default
             places == {<<c, j>> \in (DOMAIN coll) \X (1..Len(interMetrics)) :
                          j \in DOMAIN coll[c] /\ coll[c][j].metric = k}
         IN  IF m.routed THEN places = {} ELSE Cardinality(places) = 1 /\ \A p \in places : p[1] = home
    /\ \A c \in DOMAIN coll : \A j \in DOMAIN coll[c] : DOMAIN coll[c][j].dims \cap Excluded = {}

\* Flush reports an error exactly when some client could not take its points.
ErrorIffFailed == pc = "done" => running = {} /\ (result = "error" <=> failed # {})

\* A flush ends even if every client fails: the channel has room for all their errors.  A
\* goroutine that fails and finds no room would never be done.
RoomForErrors == \A c \in running : Len(errorCh) < errorCap
=============================================================================
