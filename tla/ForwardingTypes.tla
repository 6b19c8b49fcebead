-------------------------- MODULE ForwardingTypes ---------------------------
(***************************************************************************)
(* Facts that all proofs about the metric path share.  Every step keeps the *)
(* variables typed; a server's aggregates count the samples it received     *)
(* itself; and the tables of Worker.Upsert, Worker.Flush and                *)
(* generateInterMetrics, as far as a sample's map and scope go.             *)
(***************************************************************************)
EXTENDS Forwarding, TLAPS

LEMMA AppendType ==
  ASSUME NEW S, NEW q \in Seq(S), NEW x \in S
  PROVE  Append(q, x) \in Seq(S)
OBVIOUS

LEMMA AppendElements ==
  ASSUME NEW S, NEW q \in Seq(S), NEW x \in S, NEW n \in DOMAIN Append(q, x)
  PROVE  (n \in DOMAIN q /\ Append(q, x)[n] = q[n]) \/ (n = Len(q) + 1 /\ Append(q, x)[n] = x)
OBVIOUS

LEMMA HeadTail ==
  ASSUME NEW S, NEW q \in Seq(S), q # <<>>
  PROVE  /\ 1 \in DOMAIN q /\ Head(q) = q[1]
         /\ \A n \in DOMAIN Tail(q) : n + 1 \in DOMAIN q /\ Tail(q)[n] = q[n + 1]
OBVIOUS

LEMMA EmptyType == \A S : <<>> \in Seq(S)
OBVIOUS

LEMMA WorkerOfType == \A s \in Servers, k \in Key : WorkerOf(s, k) \in Workers
BY WorkerAssumption DEF WorkerOf, Workers

LEMMA UpsertMapType ==
  \A type \in Types, scope \in Scopes : UpsertMap(type, scope) \in Maps
BY DEF Types, Scopes, Maps, UpsertMap, MixedMap, GlobalMap, LocalMap

LEMMA ImportScopeType == \A type \in Types : ImportScope(type) \in Scopes
BY DEF Types, Scopes, ImportScope

LEMMA TempEntriesType ==
  ASSUME FlusherTypeOK, NEW s \in Servers
  PROVE  TempEntries(s) \in SUBSET Entry
<1>1. temp[s] \in Seq(SUBSET Entry)
  BY DEF FlusherTypeOK
<1>2. \A n \in DOMAIN temp[s] : temp[s][n] \in SUBSET Entry
  BY <1>1
<1> QED
  BY <1>2 DEF TempEntries

-----------------------------------------------------------------------------
(* Steps that neither touch the workers nor gather nor publish. *)

Quiet ==
  /\ UNCHANGED workerVars
  /\ UNCHANGED <<temp, final>>
  /\ forwards' \subseteq forwards

LEMMA QuietEvent == \A s \in Servers, e \in Events : HandleEventPacket(s, e) => Quiet
BY DEF HandleEventPacket, Quiet

LEMMA QuietFlush ==
  \A s \in Servers : FlushStart(s) \/ FlushOtherSamples(s) \/ FlusherExit(s) => Quiet
<1>1. \A s \in Servers : FlushStart(s) => Quiet
  BY DEF FlushStart, Quiet
<1>2. \A s \in Servers : FlushOtherSamples(s) => Quiet
  BY DEF FlushOtherSamples, Quiet
<1>3. \A s \in Servers : FlusherExit(s) => Quiet
  BY DEF FlusherExit, Quiet
<1> QED
  BY <1>1, <1>2, <1>3

\* Sinks, plugins, Shutdown, POSTs and stuttering.
LEMMA QuietRest ==
  ASSUME \/ \E s \in Servers, k \in Sinks : Sink(s, k)
         \/ Plugin \/ Stop \/ Post
         \/ UNCHANGED vars
  PROVE  Quiet
<1>1. ASSUME NEW s \in Servers, NEW k \in Sinks, Sink(s, k)
      PROVE  Quiet
  BY <1>1 DEF Sink, SinkFlush, Quiet
<1>2. ASSUME NEW g \in posts, PluginFlush(g)
      PROVE  Quiet
  BY <1>2 DEF PluginFlush, Quiet
<1>3. ASSUME NEW s \in Servers, Shutdown(s)
      PROVE  Quiet
  BY <1>3 DEF Shutdown, Quiet
<1>4. ASSUME NEW g \in forwards, PostForward(g)
      PROVE  Quiet
  BY <1>4 DEF PostForward, Quiet
<1>5. ASSUME NEW g \in forwards, PostFails(g)
      PROVE  Quiet
  BY <1>5 DEF PostFails, Quiet
<1>6. CASE UNCHANGED vars
  BY <1>6 DEF vars, flusherVars, Quiet
<1> QED
  BY <1>1, <1>2, <1>3, <1>4, <1>5, <1>6 DEF Plugin, Stop, Post

-----------------------------------------------------------------------------
(* What the sampler operators preserve. *)

LEMMA SampleType ==
  ASSUME NEW es \in SUBSET Entry, NEW map \in Maps, NEW m \in Metrics
  PROVE  Sample(es, map, m) \in SUBSET Entry
BY WorkerAssumption DEF Sample, Entry, Present, Keep, AllOf, OwnOf

LEMMA CombineType ==
  ASSUME NEW es \in SUBSET Entry, NEW map \in Maps, NEW j \in JSONMetric
  PROVE  Combine(es, map, j) \in SUBSET Entry
BY DEF Combine, Entry, Present, Keep, AllOf, OwnOf, JSONMetric

LEMMA OverwrittenType ==
  ASSUME NEW es \in SUBSET Entry, NEW map, NEW key
  PROVE  Overwritten(es, map, key) \in SUBSET Metrics
BY DEF Overwritten, Entry, Present, AllOf

LEMMA ExportTypeLemma ==
  ASSUME NEW es \in SUBSET Entry
  PROVE  Export(es) \in SUBSET JSONMetric
BY DEF Export, ExportType, Entry, JSONMetric, Key, Types

LEMMA FlushType ==
  ASSUME NEW e \in Entry, NEW b \in BOOLEAN
  PROVE  Flush(e, b) \in SUBSET Points
BY DEF Flush, HistoFlush, Point, Entry, Points

LEMMA GenerateType ==
  ASSUME NEW es \in SUBSET Entry, NEW b \in BOOLEAN
  PROVE  generateInterMetrics(es, b) \in SUBSET Points
BY FlushType DEF generateInterMetrics

-----------------------------------------------------------------------------
(* Type correctness. *)

\* The fleet starts typed.
LEMMA InitType == Init => TypeOK
BY DEF Init, WorkerInit, FlusherInit, NewWorkerMetrics, TypeOK, WorkerTypeOK, FlusherTypeOK

\* The worker's own steps, and the senders on its channels.
LEMMA WorkerStepType ==
  ASSUME WorkerTypeOK,
         \/ \E s \in Servers, m \in Metrics : HandleMetricPacket(s, m)
         \/ \E w \in Workers : WorkStep(w) \/ FlushWorker(w)
         \/ \E w \in Workers, js \in SUBSET JSONMetric : SendImport(w, js)
  PROVE  WorkerTypeOK'
<1>1. ASSUME NEW s \in Servers, NEW m \in Metrics, HandleMetricPacket(s, m)
      PROVE  WorkerTypeOK'
  <2>1. WorkerOf(s, m.key) \in Workers
    BY WorkerOfType, WorkerAssumption
  <2> QED
    BY <1>1, <2>1 DEF HandleMetricPacket, WorkerTypeOK
<1>2. ASSUME NEW w \in Workers, WorkPacket(w)
      PROVE  WorkerTypeOK'
  BY <1>2 DEF WorkPacket, WorkerTypeOK
<1>3. ASSUME NEW w \in Workers, ProcessMetric(w)
      PROVE  WorkerTypeOK'
  <2>1. PICK m \in hand[w] :
          LET map == UpsertMap(m.key.type, m.scope)
          IN  /\ hand' = [hand EXCEPT ![w] = {}]
              /\ processed' = [processed EXCEPT ![w] = @ + 1]
              /\ wm' = [wm EXCEPT ![w] = Sample(@, map, m)]
              /\ overwritten' = overwritten \cup Overwritten(wm[w], map, m.key)
              /\ UNCHANGED <<packetChan, importChan, chunk, imported, accepted>>
    BY <1>3, Zenon DEF ProcessMetric
  <2> DEFINE map == UpsertMap(m.key.type, m.scope)
  <2>2. m \in Metrics /\ wm[w] \in SUBSET Entry
    BY DEF WorkerTypeOK
  <2>3. map \in Maps
    BY <2>2, UpsertMapType, WorkerAssumption DEF Key
  <2> HIDE DEF map
  <2> DEFINE es == Sample(wm[w], map, m)
             over == Overwritten(wm[w], map, m.key)
  <2>4. es \in SUBSET Entry /\ over \in SUBSET Metrics
    BY <2>2, <2>3, SampleType, OverwrittenType
  <2>5. wm' = [wm EXCEPT ![w] = es] /\ overwritten' = overwritten \cup over
    BY <2>1 DEF map
  <2>6. /\ hand' = [hand EXCEPT ![w] = {}] /\ processed' = [processed EXCEPT ![w] = @ + 1]
        /\ UNCHANGED <<packetChan, importChan, chunk, imported, accepted>>
    BY <2>1
  <2> HIDE DEF es, over
  <2>7. wm' \in [Workers -> SUBSET Entry] /\ overwritten' \in SUBSET Metrics
    BY <2>4, <2>5 DEF WorkerTypeOK
  <2>8. hand' \in [Workers -> SUBSET Metrics] /\ processed' \in [Workers -> Nat]
    BY <2>6 DEF WorkerTypeOK
  <2> QED
    BY Zenon, <2>6, <2>7, <2>8 DEF WorkerTypeOK
<1>4. ASSUME NEW w \in Workers, WorkImport(w)
      PROVE  WorkerTypeOK'
  BY <1>4 DEF WorkImport, WorkerTypeOK
<1>5. ASSUME NEW w \in Workers, ImportMetric(w)
      PROVE  WorkerTypeOK'
  <2>1. PICK j \in chunk[w] :
          LET map == UpsertMap(j.key.type, ImportScope(j.key.type))
          IN  /\ chunk' = [chunk EXCEPT ![w] = @ \ {j}]
              /\ imported' = [imported EXCEPT ![w] = @ + 1]
              /\ wm' = [wm EXCEPT ![w] = Combine(@, map, j)]
              /\ overwritten' = overwritten \cup Overwritten(wm[w], map, j.key)
              /\ UNCHANGED <<packetChan, importChan, hand, processed, accepted>>
    BY <1>5, Zenon DEF ImportMetric
  <2> DEFINE map == UpsertMap(j.key.type, ImportScope(j.key.type))
  <2>2. j \in JSONMetric /\ wm[w] \in SUBSET Entry
    BY DEF WorkerTypeOK
  <2>3. map \in Maps
    BY <2>2, UpsertMapType, ImportScopeType DEF JSONMetric, Key
  <2> HIDE DEF map
  <2> DEFINE es == Combine(wm[w], map, j)
             over == Overwritten(wm[w], map, j.key)
  <2>4. es \in SUBSET Entry /\ over \in SUBSET Metrics
    BY <2>2, <2>3, CombineType, OverwrittenType
  <2>5. wm' = [wm EXCEPT ![w] = es] /\ overwritten' = overwritten \cup over
    BY <2>1 DEF map
  <2> HIDE DEF es, over
  <2> QED
    BY <2>1, <2>4, <2>5 DEF WorkerTypeOK
<1>6. ASSUME NEW w \in Workers, FlushWorker(w)
      PROVE  WorkerTypeOK'
  BY Zenon, <1>6 DEF FlushWorker, WorkerTypeOK, NewWorkerMetrics
<1>7. ASSUME NEW w \in Workers, NEW js \in SUBSET JSONMetric, SendImport(w, js)
      PROVE  WorkerTypeOK'
  BY <1>7 DEF SendImport, WorkerTypeOK
<1> QED
  BY <1>1, <1>2, <1>3, <1>4, <1>5, <1>6, <1>7 DEF WorkStep

\* Handing tokens to a receiver keeps the books typed.
LEMMA GiveType ==
  ASSUME FlusherTypeOK, NEW k \in Receivers, NEW ts \in SUBSET Token, NEW got, Give(k, ts, got)
  PROVE  /\ delivered' \in [Receivers -> [Token -> Nat]]
         /\ lost' \in [Receivers -> SUBSET Token]
BY DEF Give, FlusherTypeOK

LEMMA PointTokensType ==
  ASSUME NEW ps \in SUBSET Points
  PROVE  PointTokens(ps) \in SUBSET Token
BY DEF PointTokens, Points, Token

LEMMA EventTokensType ==
  ASSUME NEW es \in SUBSET Events
  PROVE  EventTokens(es) \in SUBSET Token
BY DEF EventTokens, Token

\* Every step of a flush keeps the flusher typed.
LEMMA FlushStepType ==
  ASSUME WorkerTypeOK, FlusherTypeOK, NEW s \in Servers, FlushStep(s)
  PROVE  WorkerTypeOK' /\ FlusherTypeOK'
<1>1. CASE FlushStart(s)
  BY <1>1 DEF FlushStart, workerVars, WorkerTypeOK, FlusherTypeOK
<1>2. CASE FlushOtherSamples(s)
  <2>1. PICK k \in todo[s] :
          /\ todo' = [todo EXCEPT ![s] = @ \ {k}]
          /\ phase' = [phase EXCEPT ![s] = IF todo[s] = {k} THEN "tally" ELSE "other"]
          /\ \E got \in {{}, EventTokens(other[s])} : Give(k, EventTokens(other[s]), got)
    BY <1>2, Zenon DEF FlushOtherSamples
  <2>2. k \in Receivers /\ EventTokens(other[s]) \in SUBSET Token
    BY EventTokensType, Zenon DEF FlusherTypeOK, Receivers
  <2>3. delivered' \in [Receivers -> [Token -> Nat]] /\ lost' \in [Receivers -> SUBSET Token]
    BY <2>1, <2>2, GiveType, Zenon
  <2> QED
    BY <1>2, <2>1, <2>3 DEF FlushOtherSamples, workerVars, WorkerTypeOK, FlusherTypeOK
<1>3. CASE TallyWorker(s)
  <2> DEFINE w == <<s, Len(temp[s])>>
  <2>0. Len(temp[s]) \in 0 .. NumWorkers - 1
    <3>1. temp[s] \in Seq(SUBSET Entry) /\ Len(temp[s]) < NumWorkers
      BY Zenon, <1>3 DEF TallyWorker, FlusherTypeOK
    <3> QED
      BY <3>1, WorkerAssumption
  <2>1. w \in Workers
    BY <2>0 DEF Workers
  <2>2. WorkerTypeOK'
    BY Zenon, <1>3, <2>1, WorkerStepType DEF TallyWorker
  <2>3. wm[w] \in SUBSET Entry /\ processed[w] \in Nat
    BY <2>1 DEF WorkerTypeOK
  <2>4. Append(temp[s], wm[w]) \in Seq(SUBSET Entry)
    <3>1. temp[s] \in Seq(SUBSET Entry)
      BY DEF FlusherTypeOK
    <3> QED
      BY <2>3, <3>1, AppendType
  <2>5. temp' = [temp EXCEPT ![s] = Append(temp[s], wm[w])]
    BY Zenon, <1>3 DEF TallyWorker
  <2>6. temp' \in [Servers -> Seq(SUBSET Entry)]
    <3> DEFINE T == Seq(SUBSET Entry)
               q == Append(temp[s], wm[w])
    <3>1. temp \in [Servers -> T] /\ q \in T
      BY <2>4, Zenon DEF FlusherTypeOK
    <3> HIDE DEF T, q
    <3>2. [temp EXCEPT ![s] = q] \in [Servers -> T]
      BY <3>1
    <3> QED
      BY <2>5, <3>2, Zenon DEF T, q
  <2>7. reported' \in Nat
    <3>1. reported' = reported + processed[w]
      BY Zenon, <1>3 DEF TallyWorker
    <3>2. reported \in Nat /\ processed[w] \in Nat
      BY <2>3 DEF FlusherTypeOK, WorkerTypeOK
    <3> QED
      BY <3>1, <3>2
  <2> QED
    BY <1>3, <2>2, <2>6, <2>7, Zenon DEF TallyWorker, FlusherTypeOK
<1>4. CASE Generate(s)
  <2> DEFINE ps == generateInterMetrics(TempEntries(s), IsLocal(s))
             js == Export(TempEntries(s))
  <2>1. TempEntries(s) \in SUBSET Entry
    BY TempEntriesType
  <2>2. ps \in SUBSET Points /\ js \in SUBSET JSONMetric
    BY <2>1, GenerateType, ExportTypeLemma, Zenon DEF IsLocal
  <2>3. /\ final' = [final EXCEPT ![s] = ps]
        /\ temp' = [temp EXCEPT ![s] = <<>>]
        /\ other' = [other EXCEPT ![s] = {}]
        /\ forwards' \in {forwards, forwards \cup {[from |-> s, body |-> js]}}
        /\ phase' \in {[phase EXCEPT ![s] = "idle"], [phase EXCEPT ![s] = "sinks"]}
        /\ todo' \in {[todo EXCEPT ![s] = {}], [todo EXCEPT ![s] = Sinks]}
        /\ UNCHANGED workerVars
        /\ UNCHANGED <<samples, events, posts, shutdown, reported, delivered, lost>>
    BY <1>4, Zenon DEF Generate
  <2> HIDE DEF ps, js
  <2>4. /\ final' \in [Servers -> SUBSET Points]
        /\ forwards' \in SUBSET [from : Servers, body : SUBSET JSONMetric]
    BY <2>2, <2>3 DEF FlusherTypeOK
  <2>5. temp' \in [Servers -> Seq(SUBSET Entry)]
    <3> DEFINE T == Seq(SUBSET Entry)
    <3>1. temp \in [Servers -> T] /\ <<>> \in T
      BY EmptyType DEF FlusherTypeOK
    <3> HIDE DEF T
    <3>2. [temp EXCEPT ![s] = <<>>] \in [Servers -> T]
      BY <3>1
    <3> QED
      BY <2>3, <3>2 DEF T
  <2>6. /\ other' \in [Servers -> SUBSET Events]
        /\ phase' \in [Servers -> {"idle", "other", "tally", "sinks", "exited"}]
        /\ todo' \in [Servers -> SUBSET Sinks]
    BY <2>3, ZenonT(30) DEF FlusherTypeOK
  <2> QED
    BY ZenonT(30), <2>3, <2>4, <2>5, <2>6 DEF workerVars, WorkerTypeOK, FlusherTypeOK
<1>5. CASE FlushDone(s)
  BY <1>5 DEF FlushDone, workerVars, WorkerTypeOK, FlusherTypeOK
<1>6. CASE FlusherExit(s)
  BY <1>6 DEF FlusherExit, workerVars, WorkerTypeOK, FlusherTypeOK
<1> QED
  BY <1>1, <1>2, <1>3, <1>4, <1>5, <1>6 DEF FlushStep

LEMMA SinkType ==
  ASSUME WorkerTypeOK, FlusherTypeOK, NEW s \in Servers, NEW k \in Sinks, SinkFlush(s, k)
  PROVE  WorkerTypeOK' /\ FlusherTypeOK'
<1>1. k \in Receivers /\ PointTokens(final[s]) \in SUBSET Token
  BY PointTokensType DEF FlusherTypeOK, Receivers
<1>2. delivered' \in [Receivers -> [Token -> Nat]] /\ lost' \in [Receivers -> SUBSET Token]
  BY Zenon, <1>1, GiveType DEF SinkFlush
<1> QED
  BY <1>2 DEF SinkFlush, workerVars, WorkerTypeOK, FlusherTypeOK

LEMMA PluginType ==
  ASSUME WorkerTypeOK, FlusherTypeOK, NEW g \in posts, PluginFlush(g)
  PROVE  WorkerTypeOK' /\ FlusherTypeOK'
<1>1. PICK p \in g.left :
        /\ posts' = (posts \ {g}) \cup
                      (IF g.left = {p} THEN {} ELSE {[points |-> g.points, left |-> g.left \ {p}]})
        /\ \E ps \in {{}, g.points} : Give(p, PointTokens(g.points), PointTokens(ps))
  BY Zenon DEF PluginFlush
<1>2. g.points \in SUBSET Points /\ p \in Receivers
  BY DEF FlusherTypeOK, Receivers
<1>3. delivered' \in [Receivers -> [Token -> Nat]] /\ lost' \in [Receivers -> SUBSET Token]
  BY <1>1, <1>2, PointTokensType, GiveType, Zenon
<1>4. posts' \in SUBSET [points : SUBSET Points, left : SUBSET Plugins]
  BY <1>1 DEF FlusherTypeOK
<1> QED
  BY <1>3, <1>4 DEF PluginFlush, workerVars, WorkerTypeOK, FlusherTypeOK

LEMMA ValueTokensType ==
  ASSUME NEW ms \in SUBSET Metrics
  PROVE  ValueTokens(ms) \in SUBSET Token
BY DEF ValueTokens, ValueToken, Token

-----------------------------------------------------------------------------
(* Type correctness of the fleet. *)

\* Only a server that has an upstream forwards, so Upstream[g.from] is a server.
LocalForwards == \A g \in forwards : IsLocal(g.from)

\* Every step keeps the fleet typed.
LEMMA TypeStep ==
  ASSUME TypeOK, LocalForwards, [Next]_vars
  PROVE  TypeOK' /\ LocalForwards'
<1> USE DEF TypeOK
<1>1. CASE Ingest
  <2>1. ASSUME NEW s \in Servers, NEW m \in Metrics, HandleMetricPacket(s, m),
               UNCHANGED <<flusherVars, importing>>
        PROVE  TypeOK' /\ LocalForwards'
    <3>1. WorkerTypeOK'
      BY <2>1, WorkerStepType
    <3> QED
      BY <2>1, <3>1 DEF flusherVars, FlusherTypeOK, LocalForwards
  <2>2. ASSUME NEW s \in Servers, NEW e \in Events, HandleEventPacket(s, e), UNCHANGED importing
        PROVE  TypeOK' /\ LocalForwards'
    BY Zenon, <2>2 DEF HandleEventPacket, workerVars, WorkerTypeOK, FlusherTypeOK, LocalForwards
  <2> QED
    BY <1>1, <2>1, <2>2 DEF Ingest
<1>2. ASSUME NEW w \in Workers, Work(w)
      PROVE  TypeOK' /\ LocalForwards'
  <2>1. WorkerTypeOK'
    BY <1>2, WorkerStepType DEF Work
  <2> QED
    BY <1>2, <2>1 DEF Work, flusherVars, FlusherTypeOK, LocalForwards
<1>3. ASSUME NEW s \in Servers, FlushLoop(s)
      PROVE  TypeOK' /\ LocalForwards'
  <2>1. WorkerTypeOK' /\ FlusherTypeOK' /\ UNCHANGED importing
    BY <1>3, FlushStepType DEF FlushLoop
  <2>2. \A g \in forwards' : g \in forwards \/ (g.from = s /\ IsLocal(s))
    <3>1. CASE Generate(s)
      <4>1. \/ forwards' = forwards
            \/ IsLocal(s) /\ forwards' = forwards \cup
                                          {[from |-> s, body |-> Export(TempEntries(s))]}
        BY <3>1 DEF Generate
      <4> QED
        BY <4>1
    <3>2. CASE TallyWorker(s) \/ FlushDone(s)
      BY Zenon, <3>2 DEF TallyWorker, FlushDone
    <3>3. CASE FlushStart(s) \/ FlushOtherSamples(s) \/ FlusherExit(s)
      BY <3>3, QuietFlush DEF Quiet
    <3> QED
      BY <1>3, <3>1, <3>2, <3>3 DEF FlushLoop, FlushStep
  <2> QED
    BY <2>1, <2>2 DEF LocalForwards, IsLocal
<1>4. ASSUME NEW s \in Servers, NEW k \in Sinks, Sink(s, k)
      PROVE  TypeOK' /\ LocalForwards'
  BY <1>4, SinkType, Zenon DEF Sink, SinkFlush, LocalForwards, IsLocal
<1>5. CASE Plugin
  BY <1>5, PluginType, Zenon DEF Plugin, PluginFlush, LocalForwards, IsLocal
<1>6. CASE Stop
  BY Zenon, <1>6 DEF Stop, Shutdown, workerVars, WorkerTypeOK, FlusherTypeOK, LocalForwards, IsLocal
<1>7. ASSUME NEW g \in forwards, PostForward(g)
      PROVE  TypeOK' /\ LocalForwards'
  <2>1. g.from \in Servers /\ g.body \in SUBSET JSONMetric
    BY DEF FlusherTypeOK
  <2>2. Upstream[g.from] \in Servers
    BY <2>1, FlusherAssumption DEF LocalForwards, IsLocal
  <2>3. importing' \in SUBSET [at : Servers, rest : SUBSET JSONMetric]
    <3>1. importing' = importing \cup {[at |-> Upstream[g.from], rest |-> g.body]}
      BY Zenon, <1>7 DEF PostForward
    <3>2. [at |-> Upstream[g.from], rest |-> g.body] \in [at : Servers, rest : SUBSET JSONMetric]
      BY <2>1, <2>2
    <3> QED
      BY Zenon, <3>1, <3>2
  <2> QED
    BY <1>7, <2>3, Zenon DEF PostForward, workerVars, WorkerTypeOK, FlusherTypeOK, LocalForwards,
                             IsLocal
<1>8. ASSUME NEW g \in forwards, PostFails(g)
      PROVE  TypeOK' /\ LocalForwards'
  <2>1. AllOf(g.body) \in SUBSET Metrics
    BY DEF FlusherTypeOK, AllOf, JSONMetric
  <2>2. lost' \in [Receivers -> SUBSET Token]
    BY <1>8, <2>1, ValueTokensType, Zenon DEF PostFails, FlusherTypeOK
  <2> QED
    BY Zenon, <1>8, <2>2 DEF PostFails, workerVars, WorkerTypeOK, FlusherTypeOK, LocalForwards, IsLocal
<1>9. ASSUME NEW g \in importing, Import(g)
      PROVE  TypeOK' /\ LocalForwards'
  <2>1. PICK i \in 0 .. NumWorkers - 1 :
          LET js == {j \in g.rest : ImportWorker(g.at, j) = <<g.at, i>>}
          IN  /\ SendImport(<<g.at, i>>, js)
              /\ importing' = (importing \ {g}) \cup
                    (IF js = g.rest THEN {} ELSE {[at |-> g.at, rest |-> g.rest \ js]})
              /\ UNCHANGED flusherVars
    BY <1>9, Zenon DEF Import, ImportMetrics
  <2>2. g.at \in Servers /\ g.rest \in SUBSET JSONMetric
    OBVIOUS
  <2>3. <<g.at, i>> \in Workers
    BY <2>2 DEF Workers
  <2>4. WorkerTypeOK'
    BY <2>1, <2>2, <2>3, WorkerStepType
  <2>5. importing' \in SUBSET [at : Servers, rest : SUBSET JSONMetric]
    BY <2>1, <2>2
  <2> QED
    BY Zenon, <2>1, <2>4, <2>5 DEF flusherVars, FlusherTypeOK, LocalForwards, IsLocal
<1>10. CASE UNCHANGED vars
  BY Zenon, <1>10 DEF vars, workerVars, flusherVars, WorkerTypeOK, FlusherTypeOK, LocalForwards, IsLocal
<1> QED
  BY <1>1, <1>2, <1>3, <1>4, <1>5, <1>6, <1>7, <1>8, <1>9, <1>10 DEF Next, Post

\* Only servers with an upstream forward, and every variable keeps its type.
LEMMA LocalForwardsAlways == Spec => [](TypeOK /\ LocalForwards)
<1>1. Init => TypeOK /\ LocalForwards
  BY InitType DEF Init, FlusherInit, LocalForwards
<1>2. TypeOK /\ LocalForwards /\ [Next]_vars => (TypeOK /\ LocalForwards)'
  BY TypeStep
<1> QED
  BY <1>1, <1>2, PTL DEF Spec

\* Every variable keeps its type, for every fleet: in particular digests always select
\* an existing worker, forwarded bodies always name an existing upstream, and whatever
\* is flushed or exported is a point or a JSONMetric of a known map and type.
THEOREM TypeCorrect == Spec => []TypeOK
BY LocalForwardsAlways, PTL

-----------------------------------------------------------------------------
(* Aggregates count the samples a server received itself. *)

\* Sample adds the sample, and nothing else, to what a server counts as its own.
LEMMA SampleOwn ==
  ASSUME NEW es, NEW map, NEW m
  PROVE  OwnOf(Sample(es, map, m)) \subseteq OwnOf(es) \cup {m}
BY DEF Sample, Present, Keep, AllOf, OwnOf

\* What an entry counts as its own, its map does.
LEMMA OwnOfEntry ==
  ASSUME NEW es, NEW e \in es
  PROVE  e.own \subseteq OwnOf(es)
BY DEF OwnOf

\* Combine merges what was imported into no aggregate.
LEMMA CombineOwn ==
  ASSUME NEW es, NEW map, NEW j
  PROVE  OwnOf(Combine(es, map, j)) \subseteq OwnOf(es)
BY DEF Combine, Present, Keep, AllOf, OwnOf

\* generateInterMetrics makes aggregates of the samples of its own.
LEMMA GenerateOwn ==
  ASSUME NEW es \in SUBSET Entry, NEW b \in BOOLEAN, NEW p \in generateInterMetrics(es, b),
         p.facet = "aggregate"
  PROVE  p.ms \subseteq OwnOf(es)
<1>1. PICK e \in es : p \in Flush(e, b)
  BY DEF generateInterMetrics
<1>2. p.ms = e.own
  BY <1>1 DEF Flush, HistoFlush, Point
<1> QED
  BY <1>2 DEF OwnOf

\* What reaches a sampler through PacketChan was accepted by the server of that worker,
\* and only that goes into the own part of an entry.
OwnSamples ==
  /\ \A w \in Workers :
       /\ \A n \in DOMAIN packetChan[w] : packetChan[w][n] \in accepted[w[1]]
       /\ hand[w] \subseteq accepted[w[1]]
       /\ OwnOf(wm[w]) \subseteq accepted[w[1]]
  /\ \A s \in Servers : \A n \in DOMAIN temp[s] : OwnOf(temp[s][n]) \subseteq accepted[s]

\* No step brings a sample of another server into an aggregate.
LEMMA OwnStep ==
  ASSUME TypeOK, OwnSamples, AggregatesAreLocal, [Next]_vars
  PROVE  OwnSamples' /\ AggregatesAreLocal'
<1> USE DEF TypeOK
<1> DEFINE Goal == OwnSamples' /\ AggregatesAreLocal'
<1>0. \A w \in Workers : w[1] \in Servers
  BY DEF Workers
<1>1. ASSUME NEW s \in Servers, NEW m \in Metrics, HandleMetricPacket(s, m),
             UNCHANGED <<flusherVars, importing>>
      PROVE  Goal
  <2> DEFINE v == WorkerOf(s, m.key)
  <2>1. v \in Workers /\ v[1] = s
    BY WorkerOfType, WorkerAssumption DEF WorkerOf
  <2>2. /\ packetChan' = [packetChan EXCEPT ![v] = Append(packetChan[v], m)]
        /\ accepted' = [accepted EXCEPT ![s] = @ \cup {m}]
        /\ UNCHANGED <<hand, wm, temp, final>>
    BY <1>1 DEF HandleMetricPacket, flusherVars
  <2>3. \A x \in Servers : accepted[x] \subseteq accepted'[x]
    BY <2>2 DEF WorkerTypeOK
  <2>4. m \in accepted'[s]
    BY Zenon, <2>2 DEF WorkerTypeOK
  <2> HIDE DEF v
  <2>5. ASSUME NEW w \in Workers, NEW n \in DOMAIN packetChan'[w]
        PROVE  packetChan'[w][n] \in accepted'[w[1]]
    <3>1. packetChan[w] \in Seq(Metrics) /\ packetChan[v] \in Seq(Metrics)
      BY <2>1 DEF WorkerTypeOK
    <3>2. CASE w = v
      <4>1. packetChan'[w] = Append(packetChan[v], m)
        BY <2>1, <2>2, <3>2 DEF WorkerTypeOK
      <4>2. n \in DOMAIN packetChan[v] \/ packetChan'[w][n] = m
        BY <3>1, <4>1, <2>5, AppendElements
      <4>3. n \in DOMAIN packetChan[v] => packetChan'[w][n] = packetChan[v][n]
        BY <3>1, <4>1, SMTT(30)
      <4> QED
        BY Zenon, <4>2, <4>3, <3>2, <2>1, <2>3, <2>4 DEF OwnSamples
    <3>3. CASE w # v
      <4>1. packetChan'[w] = packetChan[w]
        BY <2>1, <2>2, <3>3 DEF WorkerTypeOK
      <4> QED
        BY Zenon, <4>1, <2>3, <2>5, <1>0 DEF OwnSamples
    <3> QED
      BY <3>2, <3>3
  <2> QED
    BY Zenon, <1>0, <2>2, <2>3, <2>5 DEF OwnSamples, AggregatesAreLocal
<1>2. ASSUME NEW v \in Workers, WorkPacket(v), UNCHANGED <<flusherVars, importing>>
      PROVE  Goal
  <2>1. /\ packetChan[v] \in Seq(Metrics) /\ packetChan[v] # <<>>
        /\ hand' = [hand EXCEPT ![v] = {Head(packetChan[v])}]
        /\ packetChan' = [packetChan EXCEPT ![v] = Tail(packetChan[v])]
        /\ UNCHANGED <<wm, accepted, temp, final>>
    BY <1>2 DEF WorkPacket, flusherVars, WorkerTypeOK
  <2> DEFINE q == packetChan[v]
             t == Tail(q)
             h == Head(q)
  <2>a. /\ 1 \in DOMAIN q /\ h = q[1]
        /\ \A n \in DOMAIN t : n + 1 \in DOMAIN q /\ t[n] = q[n + 1]
    BY <2>1, HeadTail
  <2>b. \A n \in DOMAIN q : q[n] \in accepted[v[1]]
    BY DEF OwnSamples
  <2> HIDE DEF q, t, h
  <2>2. h \in accepted[v[1]]
    BY <2>a, <2>b
  <2>3. \A n \in DOMAIN t : t[n] \in accepted[v[1]]
    BY <2>a, <2>b
  <2> USE DEF q, t, h
  <2> QED
    BY Zenon, <2>1, <2>2, <2>3 DEF OwnSamples, AggregatesAreLocal, WorkerTypeOK
<1>3. ASSUME NEW v \in Workers, ProcessMetric(v), UNCHANGED <<flusherVars, importing>>
      PROVE  Goal
  <2>1. PICK m \in hand[v] :
          /\ hand' = [hand EXCEPT ![v] = {}]
          /\ wm' = [wm EXCEPT ![v] = Sample(wm[v], UpsertMap(m.key.type, m.scope), m)]
          /\ UNCHANGED <<packetChan, accepted, temp, final>>
    BY <1>3, Zenon DEF ProcessMetric, flusherVars
  <2>2. OwnOf(Sample(wm[v], UpsertMap(m.key.type, m.scope), m)) \subseteq accepted[v[1]]
    <3>1. OwnOf(wm[v]) \subseteq accepted[v[1]] /\ m \in accepted[v[1]]
      BY Zenon DEF OwnSamples
    <3> QED
      BY <3>1, SampleOwn
  <2> QED
    BY Zenon, <2>1, <2>2 DEF OwnSamples, AggregatesAreLocal, WorkerTypeOK
<1>4. ASSUME NEW v \in Workers, WorkImport(v), UNCHANGED <<flusherVars, importing>>
      PROVE  Goal
  BY Zenon, <1>4 DEF WorkImport, flusherVars, OwnSamples, AggregatesAreLocal
<1>5. ASSUME NEW v \in Workers, ImportMetric(v), UNCHANGED <<flusherVars, importing>>
      PROVE  Goal
  <2> DEFINE map(j) == UpsertMap(j.key.type, ImportScope(j.key.type))
  <2>1. PICK j \in chunk[v] :
          /\ wm' = [wm EXCEPT ![v] = Combine(wm[v], map(j), j)]
          /\ UNCHANGED <<packetChan, hand, accepted, temp, final>>
    BY <1>5, Zenon DEF ImportMetric, flusherVars
  <2> HIDE DEF map
  <2>2. OwnOf(Combine(wm[v], map(j), j)) \subseteq accepted[v[1]]
    BY Zenon, CombineOwn DEF OwnSamples
  <2> QED
    BY Zenon, <2>1, <2>2 DEF OwnSamples, AggregatesAreLocal, WorkerTypeOK
<1>6. ASSUME NEW s \in Servers, TallyWorker(s)
      PROVE  Goal
  <2> DEFINE v == <<s, Len(temp[s])>>
  <2>1. temp[s] \in Seq(SUBSET Entry) /\ Len(temp[s]) < NumWorkers
    BY Zenon, <1>6 DEF TallyWorker, FlusherTypeOK
  <2>2. v \in Workers /\ v[1] = s
    BY <2>1, WorkerAssumption DEF Workers
  <2>3. /\ wm' = [wm EXCEPT ![v] = {}]
        /\ temp' = [temp EXCEPT ![s] = Append(temp[s], wm[v])]
        /\ UNCHANGED <<packetChan, hand, accepted, final>>
    BY <1>6 DEF TallyWorker, FlushWorker, NewWorkerMetrics
  <2> HIDE DEF v
  <2>4. \A n \in DOMAIN Append(temp[s], wm[v]) :
          OwnOf(Append(temp[s], wm[v])[n]) \subseteq accepted[s]
    <3>1. wm[v] \in SUBSET Entry
      BY <2>2 DEF WorkerTypeOK
    <3>2. \A n \in DOMAIN Append(temp[s], wm[v]) :
            \/ n \in DOMAIN temp[s] /\ Append(temp[s], wm[v])[n] = temp[s][n]
            \/ Append(temp[s], wm[v])[n] = wm[v]
      BY <2>1, <3>1, AppendElements
    <3> QED
      BY Zenon, <2>2, <3>2 DEF OwnSamples
  <2>5. \A x \in Servers : \A n \in DOMAIN temp'[x] : OwnOf(temp'[x][n]) \subseteq accepted[x]
    BY Zenon, <2>3, <2>4 DEF OwnSamples, FlusherTypeOK
  <2>6. OwnOf({}) = {}
    BY DEF OwnOf
  <2>7. \A w \in Workers : OwnOf(wm'[w]) \subseteq accepted[w[1]]
    BY Zenon, <2>2, <2>3, <2>6 DEF OwnSamples, WorkerTypeOK
  <2> QED
    BY Zenon, <2>3, <2>5, <2>7 DEF OwnSamples, AggregatesAreLocal
<1>7. ASSUME NEW s \in Servers, Generate(s)
      PROVE  Goal
  <2> DEFINE ps == generateInterMetrics(TempEntries(s), IsLocal(s))
  <2>1. /\ final' = [final EXCEPT ![s] = ps]
        /\ temp' = [temp EXCEPT ![s] = <<>>]
        /\ UNCHANGED <<packetChan, hand, wm, accepted>>
    BY Zenon, <1>7 DEF Generate, workerVars
  <2>2. OwnOf(TempEntries(s)) \subseteq accepted[s]
    <3>0. \A n \in DOMAIN temp[s] : OwnOf(temp[s][n]) \subseteq accepted[s]
      BY Zenon DEF OwnSamples
    <3>1. \A n \in DOMAIN temp[s] : \A e \in temp[s][n] : e.own \subseteq accepted[s]
      BY <3>0, OwnOfEntry
    <3> QED
      BY <3>1 DEF TempEntries, OwnOf
  <2>3. TempEntries(s) \in SUBSET Entry
    BY TempEntriesType
  <2>4. \A p \in ps : p.facet = "aggregate" => p.ms \subseteq accepted[s]
    BY <2>2, <2>3, GenerateOwn, Zenon DEF IsLocal
  <2> HIDE DEF ps
  <2>5. AggregatesAreLocal'
    BY Zenon, <2>1, <2>4 DEF AggregatesAreLocal, FlusherTypeOK
  <2>6. \A x \in Servers : \A n \in DOMAIN temp'[x] : OwnOf(temp'[x][n]) \subseteq accepted[x]
    <3>1. \A x \in Servers : temp'[x] = IF x = s THEN <<>> ELSE temp[x]
      BY <2>1 DEF FlusherTypeOK
    <3>2. DOMAIN <<>> = {}
      OBVIOUS
    <3> QED
      BY Zenon, <3>1, <3>2 DEF OwnSamples
  <2> QED
    BY Zenon, <2>1, <2>5, <2>6 DEF OwnSamples
<1>8. ASSUME NEW s \in Servers, FlushDone(s)
      PROVE  Goal
  BY Zenon, <1>8 DEF FlushDone, workerVars, OwnSamples, AggregatesAreLocal, FlusherTypeOK
<1>9. ASSUME UNCHANGED <<packetChan, hand, wm, accepted, temp, final>>
      PROVE  Goal
  BY Zenon, <1>9 DEF OwnSamples, AggregatesAreLocal
<1>q. Quiet => Goal
  <2>1. Quiet => UNCHANGED <<packetChan, hand, wm, accepted, temp, final>>
    BY DEF Quiet, workerVars
  <2> QED
    BY <1>9, <2>1
<1> HIDE DEF Goal
<1>10. ASSUME Ingest
       PROVE  Goal
  <2>1. CASE \E s \in Servers, m \in Metrics :
               HandleMetricPacket(s, m) /\ UNCHANGED <<flusherVars, importing>>
    BY <1>1, <2>1
  <2>2. CASE \E s \in Servers, e \in Events : HandleEventPacket(s, e)
    BY <1>q, <2>2, QuietEvent
  <2> QED
    BY <1>10, <2>1, <2>2 DEF Ingest
<1>11. ASSUME NEW w \in Workers, Work(w)
       PROVE  Goal
  BY <1>2, <1>3, <1>4, <1>5, <1>11 DEF Work, WorkStep
<1>12. ASSUME NEW s \in Servers, FlushLoop(s)
       PROVE  Goal
  BY <1>6, <1>7, <1>8, <1>q, <1>12, QuietFlush DEF FlushLoop, FlushStep
<1>13. ASSUME NEW g \in importing, Import(g)
       PROVE  Goal
  <2>1. UNCHANGED <<packetChan, hand, wm, accepted, temp, final>>
    BY Zenon, <1>13 DEF Import, ImportMetrics, SendImport, flusherVars
  <2> QED
    BY <1>9, <2>1
<1> QED
  BY <1>10, <1>11, <1>12, <1>13, <1>q, QuietRest DEF Next, Goal

\* A server publishes count, min and max only of samples sent directly to it, however
\* many servers forward to it and however flushes interleave with imports.
THEOREM AggregatesLocal == Spec => []AggregatesAreLocal
<1>1. Init => OwnSamples /\ AggregatesAreLocal
  <2> SUFFICES ASSUME Init
               PROVE  OwnSamples /\ AggregatesAreLocal
    OBVIOUS
  <2>1. OwnOf({}) = {} /\ DOMAIN <<>> = {}
    <3>1. OwnOf({}) = {}
      BY DEF OwnOf
    <3> QED
      BY <3>1
  <2>2. /\ \A w \in Workers : packetChan[w] = <<>> /\ hand[w] = {} /\ wm[w] = {}
        /\ \A s \in Servers : temp[s] = <<>> /\ final[s] = {}
    BY DEF Init, WorkerInit, FlusherInit, NewWorkerMetrics
  <2> QED
    BY Zenon, <2>1, <2>2 DEF OwnSamples, AggregatesAreLocal
<1>2. TypeOK /\ OwnSamples /\ AggregatesAreLocal /\ [Next]_vars
        => OwnSamples' /\ AggregatesAreLocal'
  BY OwnStep
<1> QED
  BY <1>1, <1>2, TypeCorrect, PTL DEF Spec

-----------------------------------------------------------------------------
(* The map of a sample, and what the entries of a map hold. *)

MapOf(m) == UpsertMap(m.key.type, m.scope)

\* The samples of an entry are where ProcessMetric would put them, and the Local* fields
\* of a Histo hold some of them.
Fits(e) ==
  /\ \A m \in e.all : m.key = e.key /\ MapOf(m) = e.map
  /\ e.own \subseteq e.all
  /\ e.map \notin HistoMaps => e.own = {}

\* The samples of a JSONMetric are of its key and come from a map that is exported.
Travels(j) == \A m \in j.all : m.key = j.key /\ MapOf(m) \in DOMAIN ExportType

Mapped ==
  /\ \A w \in Workers :
       /\ \A e \in wm[w] : Fits(e)
       /\ \A n \in DOMAIN importChan[w] : \A j \in importChan[w][n] : Travels(j)
       /\ \A j \in chunk[w] : Travels(j)
  /\ \A s \in Servers : \A n \in DOMAIN temp[s] : \A e \in temp[s][n] : Fits(e)
  /\ \A g \in forwards : \A j \in g.body : Travels(j)
  /\ \A g \in importing : \A j \in g.rest : Travels(j)

-----------------------------------------------------------------------------
(* Which maps are exported, and which scopes they hold. *)

\* The key, the type and the scope of a sample.
LEMMA MetricFields == \A m \in Metrics : m.key \in Key /\ m.key.type \in Types /\ m.scope \in Scopes
BY WorkerAssumption DEF Key

\* Upsert, by type and scope: only mixed and global maps are exported, ImportMetric puts a
\* sample back in the map it came from, and the local maps hold local samples.
LEMMA ScopeOfMap ==
  ASSUME NEW m \in Metrics
  PROVE  /\ MapOf(m) \in DOMAIN ExportType =>
              /\ m.scope # "local"
              /\ ExportType[MapOf(m)] = m.key.type
              /\ MapOf(m) = UpsertMap(m.key.type, ImportScope(m.key.type))
         /\ MapOf(m) \in {"localHistograms", "localTimers"} => m.scope = "local"
         /\ m.key.type = "set" /\ MapOf(m) # "sets" => m.scope = "local"
         /\ m.key.type = "counter" /\ MapOf(m) # "globalCounters" => m.scope # "global"
         /\ m.key.type = "gauge" /\ MapOf(m) # "globalGauges" => m.scope # "global"
         /\ MapOf(m) \in HistoMaps <=> m.key.type \in {"histogram", "timer"}
<1> DEFINE type == m.key.type
           scope == m.scope
<1>0. type \in Types /\ scope \in Scopes /\ MapOf(m) = UpsertMap(type, scope)
  BY MetricFields DEF MapOf
<1> HIDE DEF type, scope
<1>1. ImportScope(type) \in Scopes /\ (ImportScope(type) = "global" <=> type \in {"counter", "gauge"})
        /\ ImportScope(type) # "local"
  BY <1>0 DEF ImportScope, Scopes
<1>2. ASSUME NEW sc \in Scopes
      PROVE  \/ type = "counter" /\ sc = "global" /\ UpsertMap(type, sc) = "globalCounters"
             \/ type = "counter" /\ sc # "global" /\ UpsertMap(type, sc) = "counters"
             \/ type = "gauge" /\ sc = "global" /\ UpsertMap(type, sc) = "globalGauges"
             \/ type = "gauge" /\ sc # "global" /\ UpsertMap(type, sc) = "gauges"
             \/ type = "histogram" /\ sc = "local" /\ UpsertMap(type, sc) = "localHistograms"
             \/ type = "histogram" /\ sc # "local" /\ UpsertMap(type, sc) = "histograms"
             \/ type = "set" /\ sc = "local" /\ UpsertMap(type, sc) = "localSets"
             \/ type = "set" /\ sc # "local" /\ UpsertMap(type, sc) = "sets"
             \/ type = "timer" /\ sc = "local" /\ UpsertMap(type, sc) = "localTimers"
             \/ type = "timer" /\ sc # "local" /\ UpsertMap(type, sc) = "timers"
             \/ type = "status" /\ UpsertMap(type, sc) = "localStatusChecks"
  BY <1>0 DEF Types, Scopes, UpsertMap, MixedMap, GlobalMap, LocalMap
<1>3. /\ UpsertMap(type, scope) \in DOMAIN ExportType =>
           /\ scope # "local"
           /\ ExportType[UpsertMap(type, scope)] = type
           /\ UpsertMap(type, scope) = UpsertMap(type, ImportScope(type))
      /\ UpsertMap(type, scope) \in {"localHistograms", "localTimers"} => scope = "local"
      /\ type = "set" /\ UpsertMap(type, scope) # "sets" => scope = "local"
      /\ type = "counter" /\ UpsertMap(type, scope) # "globalCounters" => scope # "global"
      /\ type = "gauge" /\ UpsertMap(type, scope) # "globalGauges" => scope # "global"
      /\ UpsertMap(type, scope) \in HistoMaps <=> type \in {"histogram", "timer"}
  <2>1. UpsertMap(type, scope) \in HistoMaps <=> type \in {"histogram", "timer"}
    BY Zenon, <1>0, <1>2 DEF HistoMaps
  <2>2. UpsertMap(type, scope) \in DOMAIN ExportType =>
           /\ scope # "local"
           /\ ExportType[UpsertMap(type, scope)] = type
           /\ UpsertMap(type, scope) = UpsertMap(type, ImportScope(type))
    <3>1. UpsertMap(type, scope) \in DOMAIN ExportType =>
            /\ scope # "local"
            /\ ExportType[UpsertMap(type, scope)] = type
      BY <1>0, <1>2 DEF ExportType
    <3>2. DOMAIN ExportType = {"globalCounters", "globalGauges", "histograms", "sets", "timers"}
      BY Zenon DEF ExportType
    <3>3. UpsertMap(type, scope) \in DOMAIN ExportType => UpsertMap(type, scope) = UpsertMap(type, ImportScope(type))
      BY Zenon, <1>0, <1>1, <1>2, <3>2
    <3> QED
      BY Zenon, <3>1, <3>3
  <2>3. /\ UpsertMap(type, scope) \in {"localHistograms", "localTimers"} => scope = "local"
        /\ type = "set" /\ UpsertMap(type, scope) # "sets" => scope = "local"
        /\ type = "counter" /\ UpsertMap(type, scope) # "globalCounters" => scope # "global"
        /\ type = "gauge" /\ UpsertMap(type, scope) # "globalGauges" => scope # "global"
    BY Zenon, <1>0, <1>2
  <2> QED
    BY Zenon, <2>1, <2>2, <2>3
<1> QED
  BY Zenon, <1>0, <1>3 DEF type, scope

\* Histo.Flush and generateInterMetrics, as a table.
LEMMA FlushTable ==
  ASSUME NEW e \in Entry, NEW b \in BOOLEAN, NEW p
  PROVE  p \in Flush(e, b) <=>
           \/ /\ e.map \in {"counters", "gauges", "localSets", "localStatusChecks"}
              /\ p = Point(e, "value", e.all)
           \/ /\ e.map \in {"sets", "globalCounters", "globalGauges"} /\ ~b
              /\ p = Point(e, "value", e.all)
           \/ /\ e.map \in HistoMaps /\ e.own # {}
              /\ p = Point(e, "aggregate", e.own)
           \/ /\ e.map \in {"localHistograms", "localTimers"} \/ (e.map \in HistoMaps /\ ~b)
              /\ p = Point(e, "percentile", e.all)
<1>1. e.map \in Maps
  BY DEF Entry
<1> QED
  BY <1>1 DEF Flush, HistoFlush, Point, HistoMaps, Maps
=============================================================================
