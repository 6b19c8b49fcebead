-------------------------- MODULE ForwardingScope ---------------------------
(***************************************************************************)
(* A series lives in one worker, in one entry of each map; and a sample's   *)
(* scope decides where it is published.  The inductive invariants Routed    *)
(* and Mapped, and the theorems that follow from them.                      *)
(***************************************************************************)
EXTENDS ForwardingTypes

\* The type of the keys of a map.
KeyType == [counters |-> "counter", gauges |-> "gauge", histograms |-> "histogram",
            sets |-> "set", timers |-> "timer", localStatusChecks |-> "status",
            globalCounters |-> "counter", globalGauges |-> "gauge",
            localHistograms |-> "histogram", localSets |-> "set", localTimers |-> "timer"]

\* Key k belongs to worker w.
At(w, k) == WorkerOf(w[1], k) = w

\* The entries es could be the WorkerMetrics of worker w.
Home(w, es) ==
  /\ \A e \in es : At(w, e.key) /\ e.key.type = KeyType[e.map]
  /\ \A e, f \in es : e.map = f.map /\ e.key = f.key => e = f

\* Whatever waits for a worker, is in it or was flushed from it belongs to it.
Routed ==
  /\ \A w \in Workers :
       /\ \A n \in DOMAIN packetChan[w] : At(w, packetChan[w][n].key)
       /\ \A m \in hand[w] : At(w, m.key)
       /\ \A n \in DOMAIN importChan[w] : \A j \in importChan[w][n] : At(w, j.key)
       /\ \A j \in chunk[w] : At(w, j.key)
       /\ Home(w, wm[w])
  /\ \A s \in Servers : \A n \in DOMAIN temp[s] : Home(<<s, n - 1>>, temp[s][n])

\* Upsert puts a key in a map of its type.
LEMMA UpsertKeyType ==
  \A type \in Types, scope \in Scopes : KeyType[UpsertMap(type, scope)] = type
BY DEF Types, Scopes, UpsertMap, MixedMap, GlobalMap, LocalMap, KeyType

\* Replacing the entry of a map and key, or adding it.
LEMMA ReplaceHome ==
  ASSUME NEW w, NEW es, NEW x, Home(w, es), At(w, x.key), x.key.type = KeyType[x.map]
  PROVE  Home(w, (es \ Present(es, x.map, x.key)) \cup {x})
BY DEF Present, Home

\* Sample keeps every series in its worker.
LEMMA SampleHome ==
  ASSUME NEW w, NEW es, NEW map, NEW m, Home(w, es), At(w, m.key), m.key.type = KeyType[map]
  PROVE  Home(w, Sample(es, map, m))
<1> DEFINE x == [map |-> map, key |-> m.key,
                 all |-> Keep(es, map, m.key) \cup {m},
                 own |-> IF map \in HistoMaps THEN OwnOf(Present(es, map, m.key)) \cup {m} ELSE {}]
<1>1. x.map = map /\ x.key = m.key /\ Sample(es, map, m) = (es \ Present(es, map, m.key)) \cup {x}
  BY DEF Sample
<1> HIDE DEF x
<1>2. Home(w, (es \ Present(es, x.map, x.key)) \cup {x})
  BY <1>1, ReplaceHome
<1> QED
  BY <1>1, <1>2

\* Combine keeps every series in its worker.
LEMMA CombineHome ==
  ASSUME NEW w, NEW es, NEW map, NEW j, Home(w, es), At(w, j.key), j.key.type = KeyType[map]
  PROVE  Home(w, Combine(es, map, j))
<1> DEFINE x == [map |-> map, key |-> j.key,
                 all |-> Keep(es, map, j.key) \cup j.all,
                 own |-> OwnOf(Present(es, map, j.key))]
<1>1. x.map = map /\ x.key = j.key /\ Combine(es, map, j) = (es \ Present(es, map, j.key)) \cup {x}
  BY DEF Combine
<1> HIDE DEF x
<1>2. Home(w, (es \ Present(es, x.map, x.key)) \cup {x})
  BY <1>1, ReplaceHome
<1> QED
  BY <1>1, <1>2

\* A sampler flushes one point for each facet, under its own map and key.
LEMMA FlushOnce ==
  ASSUME NEW e \in Entry, NEW b \in BOOLEAN
  PROVE  /\ \A p \in Flush(e, b) : p.map = e.map /\ p.key = e.key
         /\ \A p, q \in Flush(e, b) : p.facet = q.facet => p = q
BY DEF Flush, HistoFlush, Point

\* Export keeps the key and the type.
LEMMA ExportKey ==
  ASSUME NEW e \in Entry, e.map \in DOMAIN ExportType, e.key.type = KeyType[e.map]
  PROVE  /\ [name |-> e.key.name, type |-> ExportType[e.map]] = e.key
         /\ \A f \in Entry : f.map \in DOMAIN ExportType /\ f.key.type = KeyType[f.map] /\ f.key = e.key
                              => f.map = e.map
<1>1. \A f \in Entry : f.map \in DOMAIN ExportType => KeyType[f.map] = ExportType[f.map]
  BY SMTT(30) DEF ExportType, KeyType
<1>2. \A a, b \in DOMAIN ExportType : KeyType[a] = KeyType[b] => a = b
  BY SMTT(30) DEF ExportType, KeyType
<1>3. e.key \in [name : Names, type : Types]
  BY DEF Entry, Key
<1> QED
  BY <1>1, <1>2, <1>3

\* What a flush makes of well-routed entries has each series once.
LEMMA GenerateOnce ==
  ASSUME TypeOK, Routed, NEW s \in Servers, NEW b \in BOOLEAN
  PROVE  /\ \A p, q \in generateInterMetrics(TempEntries(s), b) :
              <<p.map, p.key, p.facet>> = <<q.map, q.key, q.facet>> => p = q
         /\ \A i, j \in Export(TempEntries(s)) : i.key = j.key => i = j
<1>0. temp[s] \in Seq(SUBSET Entry)
  BY DEF TypeOK, FlusherTypeOK
<1>1. ASSUME NEW e \in TempEntries(s)
      PROVE  e \in Entry /\ e.key.type = KeyType[e.map]
  <2>1. PICK n \in DOMAIN temp[s] : e \in temp[s][n]
    BY DEF TempEntries
  <2>2. Home(<<s, n - 1>>, temp[s][n])
    BY DEF Routed
  <2>3. e \in Entry
    BY <1>1, TempEntriesType DEF TypeOK
  <2> QED
    BY <2>1, <2>2, <2>3 DEF Home
<1>2. \A e, f \in TempEntries(s) : e.map = f.map /\ e.key = f.key => e = f
  <2> SUFFICES ASSUME NEW e \in TempEntries(s), NEW f \in TempEntries(s),
                      e.map = f.map, e.key = f.key
               PROVE  e = f
    OBVIOUS
  <2>1. PICK n \in DOMAIN temp[s] : e \in temp[s][n]
    BY DEF TempEntries
  <2>2. PICK k \in DOMAIN temp[s] : f \in temp[s][k]
    BY DEF TempEntries
  <2>3. Home(<<s, n - 1>>, temp[s][n]) /\ Home(<<s, k - 1>>, temp[s][k])
    BY DEF Routed
  <2>4. WorkerOf(s, e.key) = <<s, n - 1>> /\ WorkerOf(s, f.key) = <<s, k - 1>>
    BY <2>1, <2>2, <2>3 DEF Home, At
  <2>5. n \in Nat /\ k \in Nat
    BY <1>0
  <2>6. n = k
    BY <2>4, <2>5
  <2> QED
    BY <2>1, <2>2, <2>3, <2>6 DEF Home
<1>3. ASSUME NEW p \in generateInterMetrics(TempEntries(s), b),
             NEW q \in generateInterMetrics(TempEntries(s), b),
             <<p.map, p.key, p.facet>> = <<q.map, q.key, q.facet>>
      PROVE  p = q
  <2>1. PICK e \in TempEntries(s) : p \in Flush(e, b)
    BY DEF generateInterMetrics
  <2>2. PICK f \in TempEntries(s) : q \in Flush(f, b)
    BY DEF generateInterMetrics
  <2>3. e = f
    BY <1>1, <1>2, <1>3, <2>1, <2>2, FlushOnce
  <2> QED
    BY <1>1, <1>3, <2>1, <2>2, <2>3, FlushOnce
<1>4. ASSUME NEW i \in Export(TempEntries(s)), NEW j \in Export(TempEntries(s)), i.key = j.key
      PROVE  i = j
  <2>1. PICK e \in TempEntries(s) :
          /\ e.map \in DOMAIN ExportType
          /\ i = [key |-> [name |-> e.key.name, type |-> ExportType[e.map]], all |-> e.all]
    BY DEF Export
  <2>2. PICK f \in TempEntries(s) :
          /\ f.map \in DOMAIN ExportType
          /\ j = [key |-> [name |-> f.key.name, type |-> ExportType[f.map]], all |-> f.all]
    BY DEF Export
  <2>3. i.key = e.key /\ j.key = f.key
    BY <1>1, <2>1, <2>2, ExportKey
  <2>4. e = f
    BY <1>1, <1>2, <1>4, <2>1, <2>2, <2>3, ExportKey
  <2> QED
    BY <2>1, <2>2, <2>4
<1> QED
  BY <1>3, <1>4

\* Every step keeps every series in its worker.
LEMMA RoutedStep ==
  ASSUME TypeOK, Routed, [Next]_vars
  PROVE  Routed'
<1> USE DEF TypeOK
<1>1. ASSUME NEW s \in Servers, NEW m \in Metrics, HandleMetricPacket(s, m), UNCHANGED flusherVars
      PROVE  Routed'
  <2> DEFINE v == WorkerOf(s, m.key)
  <2>1. v \in Workers /\ At(v, m.key)
    BY WorkerOfType, WorkerAssumption DEF WorkerOf, At
  <2>2. /\ packetChan' = [packetChan EXCEPT ![v] = Append(packetChan[v], m)]
        /\ UNCHANGED <<hand, importChan, chunk, wm, temp>>
    BY <1>1 DEF HandleMetricPacket, flusherVars
  <2> HIDE DEF v
  <2>3. \A n \in DOMAIN Append(packetChan[v], m) : At(v, Append(packetChan[v], m)[n].key)
    <3>1. packetChan[v] \in Seq(Metrics)
      BY <2>1 DEF WorkerTypeOK
    <3>2. \A n \in DOMAIN Append(packetChan[v], m) :
            \/ n \in DOMAIN packetChan[v] /\ Append(packetChan[v], m)[n] = packetChan[v][n]
            \/ Append(packetChan[v], m)[n] = m
      BY <3>1, AppendElements
    <3> QED
      BY <2>1, <3>2 DEF Routed
  <2>4. \A w \in Workers : \A n \in DOMAIN packetChan'[w] : At(w, packetChan'[w][n].key)
    BY <2>1, <2>2, <2>3 DEF Routed, WorkerTypeOK
  <2> QED
    BY <2>2, <2>4 DEF Routed
<1>2. ASSUME NEW v \in Workers, WorkPacket(v), UNCHANGED flusherVars
      PROVE  Routed'
  <2>1. /\ packetChan[v] \in Seq(Metrics) /\ packetChan[v] # <<>>
        /\ hand' = [hand EXCEPT ![v] = {Head(packetChan[v])}]
        /\ packetChan' = [packetChan EXCEPT ![v] = Tail(packetChan[v])]
        /\ UNCHANGED <<importChan, chunk, wm, temp>>
    BY <1>2 DEF WorkPacket, flusherVars, WorkerTypeOK
  <2> DEFINE q == packetChan[v]
             t == Tail(q)
             h == Head(q)
  <2>a. /\ 1 \in DOMAIN q /\ h = q[1]
        /\ \A n \in DOMAIN t : n + 1 \in DOMAIN q /\ t[n] = q[n + 1]
    BY <2>1, HeadTail
  <2>b. \A n \in DOMAIN q : At(v, q[n].key)
    BY DEF Routed
  <2> HIDE DEF q, t, h
  <2>2. At(v, h.key) /\ \A n \in DOMAIN t : At(v, t[n].key)
    BY <2>a, <2>b
  <2> USE DEF q, t, h
  <2>3. \A w \in Workers : /\ \A n \in DOMAIN packetChan'[w] : At(w, packetChan'[w][n].key)
                           /\ \A m \in hand'[w] : At(w, m.key)
    BY <2>1, <2>2 DEF Routed, WorkerTypeOK
  <2> QED
    BY <2>1, <2>3 DEF Routed
<1>3. ASSUME NEW v \in Workers, ProcessMetric(v), UNCHANGED flusherVars
      PROVE  Routed'
  <2>1. PICK m \in hand[v] :
          /\ hand' = [hand EXCEPT ![v] = {}]
          /\ wm' = [wm EXCEPT ![v] = Sample(wm[v], UpsertMap(m.key.type, m.scope), m)]
          /\ UNCHANGED <<packetChan, importChan, chunk, temp>>
    BY <1>3, Zenon DEF ProcessMetric, flusherVars
  <2>2. m.key.type \in Types /\ m.scope \in Scopes
    BY WorkerAssumption DEF WorkerTypeOK, Key
  <2>3. Home(v, wm[v]) /\ At(v, m.key)
    BY DEF Routed
  <2>4. Home(v, Sample(wm[v], UpsertMap(m.key.type, m.scope), m))
    BY <2>2, <2>3, UpsertKeyType, SampleHome
  <2> DEFINE x == Sample(wm[v], UpsertMap(m.key.type, m.scope), m)
  <2> HIDE DEF x
  <2>5. wm' = [wm EXCEPT ![v] = x] /\ Home(v, x)
    BY <2>1, <2>4 DEF x
  <2>6. \A w \in Workers : Home(w, wm'[w]) /\ \A k \in hand'[w] : At(w, k.key)
    BY <2>1, <2>5 DEF Routed, WorkerTypeOK
  <2> QED
    BY <2>1, <2>6 DEF Routed
<1>4. ASSUME NEW v \in Workers, WorkImport(v), UNCHANGED flusherVars
      PROVE  Routed'
  <2>1. /\ importChan[v] \in Seq(SUBSET JSONMetric) /\ importChan[v] # <<>>
        /\ chunk' = [chunk EXCEPT ![v] = Head(importChan[v])]
        /\ importChan' = [importChan EXCEPT ![v] = Tail(importChan[v])]
        /\ UNCHANGED <<packetChan, hand, wm, temp>>
    BY <1>4 DEF WorkImport, flusherVars, WorkerTypeOK
  <2> DEFINE q == importChan[v]
             t == Tail(q)
             h == Head(q)
  <2>a. /\ 1 \in DOMAIN q /\ h = q[1]
        /\ \A n \in DOMAIN t : n + 1 \in DOMAIN q /\ t[n] = q[n + 1]
    BY <2>1, HeadTail
  <2>b. \A n \in DOMAIN q : \A j \in q[n] : At(v, j.key)
    BY DEF Routed
  <2> HIDE DEF q, t, h
  <2>2. (\A j \in h : At(v, j.key)) /\ \A n \in DOMAIN t : \A j \in t[n] : At(v, j.key)
    BY <2>a, <2>b
  <2> USE DEF q, t, h
  <2>3. \A w \in Workers :
          /\ \A n \in DOMAIN importChan'[w] : \A j \in importChan'[w][n] : At(w, j.key)
          /\ \A j \in chunk'[w] : At(w, j.key)
    BY <2>1, <2>2 DEF Routed, WorkerTypeOK
  <2> QED
    BY Zenon, <2>1, <2>3 DEF Routed
<1>5. ASSUME NEW v \in Workers, ImportMetric(v), UNCHANGED flusherVars
      PROVE  Routed'
  <2>1. PICK j \in chunk[v] :
          /\ chunk' = [chunk EXCEPT ![v] = @ \ {j}]
          /\ wm' = [wm EXCEPT ![v] = Combine(wm[v], UpsertMap(j.key.type, ImportScope(j.key.type)), j)]
          /\ UNCHANGED <<packetChan, importChan, hand, temp>>
    BY <1>5, Zenon DEF ImportMetric, flusherVars
  <2>2. j.key.type \in Types /\ ImportScope(j.key.type) \in Scopes
    BY ImportScopeType DEF WorkerTypeOK, JSONMetric, Key
  <2>3. Home(v, wm[v]) /\ At(v, j.key)
    BY DEF Routed
  <2> DEFINE x == Combine(wm[v], UpsertMap(j.key.type, ImportScope(j.key.type)), j)
  <2>4. Home(v, x)
    BY <2>2, <2>3, UpsertKeyType, CombineHome
  <2> HIDE DEF x
  <2>5. wm' = [wm EXCEPT ![v] = x]
    BY <2>1 DEF x
  <2>6. \A w \in Workers : Home(w, wm'[w]) /\ \A k \in chunk'[w] : At(w, k.key)
    BY Zenon, <2>1, <2>4, <2>5 DEF Routed, WorkerTypeOK
  <2> QED
    BY Zenon, <2>1, <2>6 DEF Routed
<1>6. ASSUME NEW s \in Servers, TallyWorker(s)
      PROVE  Routed'
  <2> DEFINE v == <<s, Len(temp[s])>>
  <2>1. temp[s] \in Seq(SUBSET Entry) /\ Len(temp[s]) < NumWorkers
    BY Zenon, <1>6 DEF TallyWorker, FlusherTypeOK
  <2>2. v \in Workers /\ v = <<s, (Len(temp[s]) + 1) - 1>>
    BY <2>1, WorkerAssumption DEF Workers
  <2>3. /\ wm' = [wm EXCEPT ![v] = {}]
        /\ temp' = [temp EXCEPT ![s] = Append(temp[s], wm[v])]
        /\ UNCHANGED <<packetChan, importChan, hand, chunk>>
    BY <1>6 DEF TallyWorker, FlushWorker, NewWorkerMetrics
  <2> HIDE DEF v
  <2>4. \A n \in DOMAIN Append(temp[s], wm[v]) : Home(<<s, n - 1>>, Append(temp[s], wm[v])[n])
    <3>1. wm[v] \in SUBSET Entry
      BY <2>2 DEF WorkerTypeOK
    <3>2. \A n \in DOMAIN Append(temp[s], wm[v]) :
            \/ n \in DOMAIN temp[s] /\ Append(temp[s], wm[v])[n] = temp[s][n]
            \/ n = Len(temp[s]) + 1 /\ Append(temp[s], wm[v])[n] = wm[v]
      BY <2>1, <3>1, AppendElements
    <3>3. Home(v, wm[v]) /\ \A n \in DOMAIN temp[s] : Home(<<s, n - 1>>, temp[s][n])
      BY <2>2 DEF Routed
    <3> QED
      BY <2>2, <3>2, <3>3
  <2>5. \A x \in Servers : \A n \in DOMAIN temp'[x] : Home(<<x, n - 1>>, temp'[x][n])
    BY <2>3, <2>4, Zenon DEF Routed, FlusherTypeOK
  <2>6. \A w \in Workers : Home(w, wm'[w])
    <3>1. \A w \in Workers : Home(w, {})
      BY DEF Home
    <3> QED
      BY Zenon, <2>2, <2>3, <3>1 DEF Routed, WorkerTypeOK
  <2> QED
    BY Zenon, <2>3, <2>5, <2>6 DEF Routed
<1>7. ASSUME NEW s \in Servers, Generate(s)
      PROVE  Routed'
  <2>1. /\ temp' = [temp EXCEPT ![s] = <<>>]
        /\ UNCHANGED <<packetChan, importChan, hand, chunk, wm>>
    BY <1>7 DEF Generate, workerVars
  <2>2. ASSUME NEW x \in Servers, NEW n \in DOMAIN temp'[x]
        PROVE  Home(<<x, n - 1>>, temp'[x][n])
    <3>1. temp'[x] = IF x = s THEN <<>> ELSE temp[x]
      BY <2>1 DEF FlusherTypeOK
    <3>2. x # s
      BY <2>2, <3>1
    <3> QED
      BY <2>2, <3>1, <3>2 DEF Routed
  <2> QED
    BY Zenon, <2>1, <2>2 DEF Routed
<1>8. ASSUME NEW g \in importing, Import(g)
      PROVE  Routed'
  <2>1. PICK i \in 0 .. NumWorkers - 1 :
          /\ SendImport(<<g.at, i>>, {j \in g.rest : ImportWorker(g.at, j) = <<g.at, i>>})
          /\ UNCHANGED flusherVars
    BY <1>8, Zenon DEF Import, ImportMetrics
  <2> DEFINE v == <<g.at, i>>
             js == {j \in g.rest : ImportWorker(g.at, j) = v}
  <2>2. v \in Workers /\ js \in SUBSET JSONMetric
    BY DEF Workers
  <2>3. \A j \in js : At(v, j.key)
    BY DEF ImportWorker, At
  <2>4. /\ importChan' = [importChan EXCEPT ![v] = Append(importChan[v], js)]
        /\ UNCHANGED <<packetChan, hand, chunk, wm, temp>>
    BY <2>1 DEF SendImport, flusherVars
  <2> HIDE DEF v, js
  <2>5. \A n \in DOMAIN Append(importChan[v], js) : \A j \in Append(importChan[v], js)[n] : At(v, j.key)
    <3>1. importChan[v] \in Seq(SUBSET JSONMetric)
      BY <2>2 DEF WorkerTypeOK
    <3>2. \A n \in DOMAIN Append(importChan[v], js) :
            \/ n \in DOMAIN importChan[v] /\ Append(importChan[v], js)[n] = importChan[v][n]
            \/ Append(importChan[v], js)[n] = js
      BY <2>2, <3>1, AppendElements
    <3> QED
      BY <2>2, <2>3, <3>2 DEF Routed
  <2>6. \A w \in Workers : \A n \in DOMAIN importChan'[w] : \A j \in importChan'[w][n] : At(w, j.key)
    BY Zenon, <2>2, <2>4, <2>5 DEF Routed, WorkerTypeOK
  <2> QED
    BY Zenon, <2>4, <2>6 DEF Routed
<1>9. ASSUME UNCHANGED <<packetChan, importChan, hand, chunk, wm, temp>>
      PROVE  Routed'
  BY <1>9 DEF Routed
<1>q. Quiet => Routed'
  <2>1. Quiet => UNCHANGED <<packetChan, importChan, hand, chunk, wm, temp>>
    BY DEF Quiet, workerVars
  <2> QED
    BY <1>9, <2>1
<1>10. CASE Ingest
  BY <1>1, <1>q, <1>10, QuietEvent DEF Ingest
<1>11. ASSUME NEW w \in Workers, Work(w)
       PROVE  Routed'
  BY <1>2, <1>3, <1>4, <1>5, <1>11 DEF Work, WorkStep
<1>12. ASSUME NEW s \in Servers, FlushDone(s)
       PROVE  Routed'
  <2>1. UNCHANGED <<packetChan, importChan, hand, chunk, wm, temp>>
    BY <1>12 DEF FlushDone, workerVars
  <2> QED
    BY <1>9, <2>1
<1>13. ASSUME NEW s \in Servers, FlushLoop(s)
       PROVE  Routed'
  BY <1>6, <1>7, <1>12, <1>q, <1>13, QuietFlush DEF FlushLoop, FlushStep
<1> QED
  BY <1>8, <1>10, <1>11, <1>13, <1>q, QuietRest DEF Next

\* Every step keeps the points of a flush apart.
LEMMA SeriesStep ==
  ASSUME TypeOK, Routed, SeriesOncePerFlush, [Next]_vars
  PROVE  SeriesOncePerFlush'
<1>1. ASSUME NEW s \in Servers, Generate(s)
      PROVE  SeriesOncePerFlush'
  <2> DEFINE ps == generateInterMetrics(TempEntries(s), IsLocal(s))
             js == Export(TempEntries(s))
  <2>1. /\ final' = [final EXCEPT ![s] = ps]
        /\ forwards' \in {forwards, forwards \cup {[from |-> s, body |-> js]}}
    BY <1>1 DEF Generate
  <2>2. /\ \A p, q \in ps : <<p.map, p.key, p.facet>> = <<q.map, q.key, q.facet>> => p = q
        /\ \A i, j \in js : i.key = j.key => i = j
    BY GenerateOnce, Zenon DEF IsLocal
  <2> HIDE DEF ps, js
  <2>3. ASSUME NEW x \in Servers, NEW p \in final'[x], NEW q \in final'[x],
               <<p.map, p.key, p.facet>> = <<q.map, q.key, q.facet>>
        PROVE  p = q
    <3>1. final'[x] = IF x = s THEN ps ELSE final[x]
      BY Zenon, <2>1 DEF TypeOK, FlusherTypeOK
    <3> QED
      BY <2>2, <2>3, <3>1 DEF SeriesOncePerFlush
  <2>4. ASSUME NEW g \in forwards', NEW i \in g.body, NEW j \in g.body, i.key = j.key
        PROVE  i = j
    <3>1. g \in forwards \/ g.body = js
      <4>1. g \in forwards \/ g = [from |-> s, body |-> js]
        BY <2>1
      <4> QED
        BY <4>1
    <3> QED
      BY <2>2, <2>4, <3>1 DEF SeriesOncePerFlush
  <2> QED
    BY <2>3, <2>4 DEF SeriesOncePerFlush
<1>2. ASSUME NEW s \in Servers, FlushDone(s)
      PROVE  SeriesOncePerFlush'
  BY <1>2 DEF FlushDone, SeriesOncePerFlush, TypeOK, FlusherTypeOK
<1>3. ASSUME UNCHANGED final, forwards' \subseteq forwards
      PROVE  SeriesOncePerFlush'
  BY Zenon, <1>3 DEF SeriesOncePerFlush
<1>q. Quiet => SeriesOncePerFlush'
  BY <1>3 DEF Quiet
<1>4. CASE Ingest
  <2>1. ASSUME NEW s \in Servers, NEW m \in Metrics, HandleMetricPacket(s, m),
               UNCHANGED <<flusherVars, importing>>
        PROVE  SeriesOncePerFlush'
    BY <1>3, <2>1 DEF flusherVars
  <2> QED
    BY <1>4, <1>q, <2>1, QuietEvent DEF Ingest
<1>5. ASSUME NEW w \in Workers, Work(w)
      PROVE  SeriesOncePerFlush'
  BY <1>3, <1>5 DEF Work, flusherVars
<1>6. ASSUME NEW s \in Servers, TallyWorker(s)
      PROVE  SeriesOncePerFlush'
  BY <1>3, <1>6 DEF TallyWorker
<1>7. ASSUME NEW s \in Servers, FlushLoop(s)
      PROVE  SeriesOncePerFlush'
  BY <1>1, <1>2, <1>6, <1>7, <1>q, QuietFlush DEF FlushLoop, FlushStep
<1>8. ASSUME NEW g \in importing, Import(g)
      PROVE  SeriesOncePerFlush'
  BY <1>3, <1>8 DEF Import, ImportMetrics, flusherVars
<1> QED
  BY <1>4, <1>5, <1>7, <1>8, <1>q, QuietRest DEF Next

\* One flush yields each series once, and forwards each key once: whichever way a sample
\* came in, its digest led it to the one worker that holds its series.
THEOREM SeriesOnce == Spec => []SeriesOncePerFlush
<1>1. Init => Routed /\ SeriesOncePerFlush
  <2> SUFFICES ASSUME Init
               PROVE  Routed /\ SeriesOncePerFlush
    OBVIOUS
  <2>1. DOMAIN <<>> = {} /\ \A w \in Workers : Home(w, {})
    BY DEF Home
  <2>2. /\ \A w \in Workers : packetChan[w] = <<>> /\ importChan[w] = <<>>
        /\ \A w \in Workers : hand[w] = {} /\ chunk[w] = {} /\ wm[w] = {}
    BY DEF Init, WorkerInit, NewWorkerMetrics
  <2>3. forwards = {} /\ \A s \in Servers : temp[s] = <<>> /\ final[s] = {}
    BY DEF Init, FlusherInit
  <2> QED
    BY Zenon, <2>1, <2>2, <2>3 DEF Routed, SeriesOncePerFlush
<1>2. TypeOK /\ Routed /\ SeriesOncePerFlush /\ [Next]_vars => Routed' /\ SeriesOncePerFlush'
  BY RoutedStep, SeriesStep
<1> QED
  BY <1>1, <1>2, TypeCorrect, PTL DEF Spec

-----------------------------------------------------------------------------
(* What sampling, combining and exporting do to the maps. *)

\* When an entry fits.
LEMMA FitsIf ==
  ASSUME NEW map, NEW key, NEW all, NEW own, \A n \in all : n.key = key /\ MapOf(n) = map,
         own \subseteq all, map \notin HistoMaps => own = {}
  PROVE  Fits([map |-> map, key |-> key, all |-> all, own |-> own])
BY DEF Fits

\* Sample keeps every entry in its map.
LEMMA SampleFits ==
  ASSUME NEW es, NEW m \in Metrics, \A e \in es : Fits(e)
  PROVE  \A e \in Sample(es, MapOf(m), m) : Fits(e)
<1> DEFINE old == Present(es, MapOf(m), m.key)
           x == [map |-> MapOf(m), key |-> m.key,
                 all |-> Keep(es, MapOf(m), m.key) \cup {m},
                 own |-> IF MapOf(m) \in HistoMaps THEN OwnOf(old) \cup {m} ELSE {}]
<1>1. Sample(es, MapOf(m), m) = (es \ old) \cup {x}
  BY DEF Sample
<1>2. \A n \in AllOf(old) : n.key = m.key /\ MapOf(n) = MapOf(m)
  BY DEF Present, AllOf, Fits
<1>3. OwnOf(old) \subseteq AllOf(old)
  BY DEF Present, AllOf, OwnOf, Fits
<1>4. Keep(es, MapOf(m), m.key) \subseteq AllOf(old)
  BY DEF Keep
<1>5. MapOf(m) \in HistoMaps => Keep(es, MapOf(m), m.key) = AllOf(old)
  BY DEF Keep, HistoMaps, LastValue
<1> HIDE DEF old
<1>6. Fits(x)
  <2> DEFINE all == Keep(es, MapOf(m), m.key) \cup {m}
             own == IF MapOf(m) \in HistoMaps THEN OwnOf(old) \cup {m} ELSE {}
  <2>1. \A n \in all : n.key = m.key /\ MapOf(n) = MapOf(m)
    BY Zenon, <1>2, <1>4
  <2>2. own \subseteq all /\ (MapOf(m) \notin HistoMaps => own = {})
    BY Zenon, <1>3, <1>5
  <2> QED
    BY Zenon, <2>1, <2>2, FitsIf
<1> QED
  BY Zenon, <1>1, <1>6

\* Combine keeps every entry in its map.
LEMMA CombineFits ==
  ASSUME NEW es, NEW map, NEW j, \A e \in es : Fits(e),
         \A m \in j.all : m.key = j.key /\ MapOf(m) = map
  PROVE  \A e \in Combine(es, map, j) : Fits(e)
<1> DEFINE old == Present(es, map, j.key)
           x == [map |-> map, key |-> j.key, all |-> Keep(es, map, j.key) \cup j.all,
                 own |-> OwnOf(old)]
<1>1. Combine(es, map, j) = (es \ old) \cup {x}
  BY DEF Combine
<1>2. \A n \in AllOf(old) : n.key = j.key /\ MapOf(n) = map
  BY DEF Present, AllOf, Fits
<1>3. OwnOf(old) \subseteq AllOf(old) /\ (map \notin HistoMaps => OwnOf(old) = {})
  BY DEF Present, AllOf, OwnOf, Fits
<1>4. Keep(es, map, j.key) \subseteq AllOf(old)
  BY DEF Keep
<1>5. map \in HistoMaps => Keep(es, map, j.key) = AllOf(old)
  BY DEF Keep, HistoMaps, LastValue
<1> HIDE DEF old
<1>6. Fits(x)
  <2> DEFINE all == Keep(es, map, j.key) \cup j.all
  <2>1. \A n \in all : n.key = j.key /\ MapOf(n) = map
    BY Zenon, <1>2, <1>4
  <2>2. OwnOf(old) \subseteq all /\ (map \notin HistoMaps => OwnOf(old) = {})
    BY Zenon, <1>3, <1>5
  <2> QED
    BY Zenon, <2>1, <2>2, FitsIf
<1> QED
  BY Zenon, <1>1, <1>6

\* An entry that fits is exported under its own key, to the map it came from.
LEMMA ExportTravels ==
  ASSUME NEW es \in SUBSET Entry, \A e \in es : Fits(e), NEW j \in Export(es)
  PROVE  Travels(j)
<1>1. PICK e \in es : /\ e.map \in DOMAIN ExportType
                      /\ j = [key |-> [name |-> e.key.name, type |-> ExportType[e.map]],
                              all |-> e.all]
  BY DEF Export
<1>2. ASSUME NEW m \in e.all
      PROVE  m.key = j.key /\ MapOf(m) \in DOMAIN ExportType
  <2>1. m \in Metrics /\ m.key = e.key /\ MapOf(m) = e.map
    BY DEF Entry, Fits
  <2>2. ExportType[e.map] = e.key.type
    BY Zenon, <1>1, <2>1, ScopeOfMap
  <2>3. e.key = [name |-> e.key.name, type |-> e.key.type]
    BY DEF Entry, Key
  <2> QED
    BY <1>1, <2>1, <2>2, <2>3
<1> QED
  BY <1>1, <1>2 DEF Travels

\* ImportMetric puts a sample in the map of its type.
LEMMA ImportFits ==
  ASSUME NEW j \in JSONMetric, Travels(j), NEW m \in j.all
  PROVE  m.key = j.key /\ MapOf(m) = UpsertMap(j.key.type, ImportScope(j.key.type))
<1>1. m \in Metrics /\ m.key = j.key /\ MapOf(m) \in DOMAIN ExportType
  BY DEF JSONMetric, Travels
<1> QED
  BY Zenon, <1>1, ScopeOfMap

-----------------------------------------------------------------------------
(* Every step keeps every sample in the map of its type and scope. *)

\* Every step keeps every sample in the map of its type and scope.
LEMMA MappedStep ==
  ASSUME TypeOK, Mapped, [Next]_vars
  PROVE  Mapped'
<1> USE DEF TypeOK
<1>1. ASSUME UNCHANGED <<wm, importChan, chunk, temp, importing>>, forwards' \subseteq forwards
      PROVE  Mapped'
  BY <1>1 DEF Mapped
<1>2. ASSUME NEW v \in Workers, ProcessMetric(v), UNCHANGED <<flusherVars, importing>>
      PROVE  Mapped'
  <2>1. PICK m \in hand[v] :
          /\ wm' = [wm EXCEPT ![v] = Sample(wm[v], MapOf(m), m)]
          /\ UNCHANGED <<importChan, chunk, temp, forwards, importing>>
    BY <1>2, Zenon DEF ProcessMetric, flusherVars, MapOf
  <2>2. m \in Metrics /\ \A e \in wm[v] : Fits(e)
    BY Zenon DEF WorkerTypeOK, Mapped
  <2> DEFINE es == Sample(wm[v], MapOf(m), m)
  <2>3. \A e \in es : Fits(e)
    BY <2>2, SampleFits
  <2> HIDE DEF es
  <2>4. wm' = [wm EXCEPT ![v] = es]
    BY <2>1 DEF es
  <2>5. \A w \in Workers : \A e \in wm'[w] : Fits(e)
    BY Zenon, <2>3, <2>4 DEF WorkerTypeOK, Mapped
  <2> QED
    BY Zenon, <2>1, <2>5 DEF Mapped
<1>3. ASSUME NEW v \in Workers, WorkImport(v), UNCHANGED <<flusherVars, importing>>
      PROVE  Mapped'
  <2>1. /\ importChan[v] \in Seq(SUBSET JSONMetric) /\ importChan[v] # <<>>
        /\ chunk' = [chunk EXCEPT ![v] = Head(importChan[v])]
        /\ importChan' = [importChan EXCEPT ![v] = Tail(importChan[v])]
        /\ UNCHANGED <<wm, temp, forwards, importing>>
    BY <1>3 DEF WorkImport, flusherVars, WorkerTypeOK
  <2> DEFINE q == importChan[v]
             t == Tail(q)
             h == Head(q)
  <2>2. /\ 1 \in DOMAIN q /\ h = q[1]
        /\ \A n \in DOMAIN t : n + 1 \in DOMAIN q /\ t[n] = q[n + 1]
    BY <2>1, HeadTail
  <2>3. \A n \in DOMAIN q : \A j \in q[n] : Travels(j)
    BY Zenon DEF Mapped
  <2> HIDE DEF q, t, h
  <2>4. (\A j \in h : Travels(j)) /\ \A n \in DOMAIN t : \A j \in t[n] : Travels(j)
    BY Zenon, <2>2, <2>3
  <2> USE DEF q, t, h
  <2>5. \A w \in Workers :
          /\ \A n \in DOMAIN importChan'[w] : \A j \in importChan'[w][n] : Travels(j)
          /\ \A j \in chunk'[w] : Travels(j)
    BY Zenon, <2>1, <2>4 DEF Mapped, WorkerTypeOK
  <2> QED
    BY Zenon, <2>1, <2>5 DEF Mapped
<1>4. ASSUME NEW v \in Workers, ImportMetric(v), UNCHANGED <<flusherVars, importing>>
      PROVE  Mapped'
  <2> DEFINE map(j) == UpsertMap(j.key.type, ImportScope(j.key.type))
  <2>1. PICK j \in chunk[v] :
          /\ chunk' = [chunk EXCEPT ![v] = @ \ {j}]
          /\ wm' = [wm EXCEPT ![v] = Combine(wm[v], map(j), j)]
          /\ UNCHANGED <<importChan, temp, forwards, importing>>
    BY <1>4, Zenon DEF ImportMetric, flusherVars
  <2>2. j \in JSONMetric /\ Travels(j) /\ \A e \in wm[v] : Fits(e)
    BY Zenon DEF WorkerTypeOK, Mapped
  <2>3. \A m \in j.all : m.key = j.key /\ MapOf(m) = map(j)
    BY Zenon, <2>2, ImportFits
  <2> DEFINE es == Combine(wm[v], map(j), j)
  <2> HIDE DEF map
  <2>4. \A e \in es : Fits(e)
    BY Zenon, <2>2, <2>3, CombineFits
  <2> HIDE DEF es
  <2>5. wm' = [wm EXCEPT ![v] = es]
    BY <2>1 DEF es
  <2>6. \A w \in Workers : (\A e \in wm'[w] : Fits(e)) /\ chunk'[w] \subseteq chunk[w]
    BY Zenon, <2>1, <2>4, <2>5 DEF WorkerTypeOK, Mapped
  <2> QED
    BY Zenon, <2>1, <2>6 DEF Mapped
<1>5. ASSUME NEW s \in Servers, TallyWorker(s), UNCHANGED importing
      PROVE  Mapped'
  <2> DEFINE v == <<s, Len(temp[s])>>
  <2>1. temp[s] \in Seq(SUBSET Entry) /\ Len(temp[s]) < NumWorkers
    BY Zenon, <1>5 DEF TallyWorker, FlusherTypeOK
  <2>2. v \in Workers
    BY <2>1, WorkerAssumption DEF Workers
  <2>3. /\ wm' = [wm EXCEPT ![v] = {}]
        /\ temp' = [temp EXCEPT ![s] = Append(temp[s], wm[v])]
        /\ UNCHANGED <<importChan, chunk, forwards, importing>>
    BY <1>5 DEF TallyWorker, FlushWorker, NewWorkerMetrics
  <2> HIDE DEF v
  <2>4. \A n \in DOMAIN Append(temp[s], wm[v]) : \A e \in Append(temp[s], wm[v])[n] : Fits(e)
    <3>1. wm[v] \in SUBSET Entry
      BY <2>2 DEF WorkerTypeOK
    <3>2. \A n \in DOMAIN Append(temp[s], wm[v]) :
            \/ n \in DOMAIN temp[s] /\ Append(temp[s], wm[v])[n] = temp[s][n]
            \/ Append(temp[s], wm[v])[n] = wm[v]
      BY <2>1, <3>1, AppendElements
    <3> QED
      BY Zenon, <2>2, <3>2 DEF Mapped
  <2>5. \A x \in Servers : \A n \in DOMAIN temp'[x] : \A e \in temp'[x][n] : Fits(e)
    BY <2>3, <2>4, Zenon DEF Mapped, FlusherTypeOK
  <2>6. \A w \in Workers : wm'[w] \subseteq wm[w]
    BY <2>2, <2>3 DEF WorkerTypeOK
  <2> QED
    BY Zenon, <2>3, <2>5, <2>6 DEF Mapped
<1>6. ASSUME NEW s \in Servers, Generate(s), UNCHANGED importing
      PROVE  Mapped'
  <2> DEFINE js == Export(TempEntries(s))
  <2>1. /\ temp' = [temp EXCEPT ![s] = <<>>]
        /\ forwards' \in {forwards, forwards \cup {[from |-> s, body |-> js]}}
        /\ UNCHANGED <<wm, importChan, chunk, importing>>
    BY Zenon, <1>6 DEF Generate, workerVars
  <2>2. \A j \in js : Travels(j)
    <3>1. TempEntries(s) \in SUBSET Entry
      BY TempEntriesType
    <3>2. \A e \in TempEntries(s) : Fits(e)
      BY Zenon DEF TempEntries, Mapped
    <3> QED
      BY <3>1, <3>2, ExportTravels
  <2> HIDE DEF js
  <2>3. ASSUME NEW g \in forwards', NEW j \in g.body
        PROVE  Travels(j)
    <3>1. CASE g \in forwards
      BY Zenon, <2>3, <3>1 DEF Mapped
    <3>2. CASE g = [from |-> s, body |-> js]
      BY <2>2, <2>3, <3>2
    <3> QED
      BY Zenon, <2>1, <2>3, <3>1, <3>2
  <2>4. ASSUME NEW x \in Servers, NEW n \in DOMAIN temp'[x], NEW e \in temp'[x][n]
        PROVE  Fits(e)
    <3>1. temp'[x] = IF x = s THEN <<>> ELSE temp[x]
      BY Zenon, <2>1 DEF FlusherTypeOK
    <3>2. x # s
      BY <2>4, <3>1
    <3> QED
      BY Zenon, <2>4, <3>1, <3>2 DEF Mapped
  <2> QED
    BY Zenon, <2>1, <2>3, <2>4 DEF Mapped
<1>7. ASSUME NEW g \in forwards, PostForward(g)
      PROVE  Mapped'
  <2>1. /\ UNCHANGED <<wm, importChan, chunk, temp>>
        /\ forwards' \subseteq forwards
        /\ importing' = importing \cup {[at |-> Upstream[g.from], rest |-> g.body]}
    BY Zenon, <1>7 DEF PostForward, workerVars
  <2>2. ASSUME NEW h \in importing', NEW j \in h.rest
        PROVE  Travels(j)
    <3>1. CASE h \in importing
      BY Zenon, <2>2, <3>1 DEF Mapped
    <3>2. CASE h = [at |-> Upstream[g.from], rest |-> g.body]
      <4>1. j \in g.body
        BY <2>2, <3>2
      <4> QED
        BY Zenon, <4>1 DEF Mapped
    <3> QED
      BY Zenon, <2>1, <2>2, <3>1, <3>2
  <2> QED
    BY Zenon, <2>1, <2>2 DEF Mapped
<1>8. ASSUME NEW g \in importing, Import(g)
      PROVE  Mapped'
  <2>1. PICK i \in 0 .. NumWorkers - 1 :
          LET js == {j \in g.rest : ImportWorker(g.at, j) = <<g.at, i>>}
          IN  /\ SendImport(<<g.at, i>>, js)
              /\ importing' = (importing \ {g}) \cup
                    (IF js = g.rest THEN {} ELSE {[at |-> g.at, rest |-> g.rest \ js]})
              /\ UNCHANGED flusherVars
    BY <1>8, Zenon DEF Import, ImportMetrics
  <2> DEFINE v == <<g.at, i>>
             js == {j \in g.rest : ImportWorker(g.at, j) = v}
  <2>2. v \in Workers /\ js \in SUBSET JSONMetric /\ js \subseteq g.rest
    BY DEF Workers
  <2>3. /\ importChan' = [importChan EXCEPT ![v] = Append(importChan[v], js)]
        /\ importing' \subseteq importing \cup {[at |-> g.at, rest |-> g.rest \ js]}
        /\ UNCHANGED <<chunk, wm, temp, forwards>>
    BY Zenon, <2>1 DEF SendImport, flusherVars
  <2> HIDE DEF v, js
  <2>4. \A j \in g.rest : Travels(j)
    BY Zenon DEF Mapped
  <2>5. \A n \in DOMAIN Append(importChan[v], js) : \A j \in Append(importChan[v], js)[n] : Travels(j)
    <3>1. importChan[v] \in Seq(SUBSET JSONMetric)
      BY <2>2 DEF WorkerTypeOK
    <3>2. \A n \in DOMAIN Append(importChan[v], js) :
            \/ n \in DOMAIN importChan[v] /\ Append(importChan[v], js)[n] = importChan[v][n]
            \/ Append(importChan[v], js)[n] = js
      BY <2>2, <3>1, AppendElements
    <3> QED
      BY Zenon, <2>2, <2>4, <3>2 DEF Mapped
  <2>6. \A w \in Workers : \A n \in DOMAIN importChan'[w] : \A j \in importChan'[w][n] : Travels(j)
    <3>1. \A w \in Workers : \/ w = v /\ importChan'[w] = Append(importChan[v], js)
                             \/ importChan'[w] = importChan[w]
      BY <2>2, <2>3 DEF WorkerTypeOK
    <3> QED
      BY Zenon, <2>5, <3>1 DEF Mapped
  <2>7. ASSUME NEW h \in importing', NEW j \in h.rest
        PROVE  Travels(j)
    <3>1. CASE h \in importing
      BY Zenon, <2>7, <3>1 DEF Mapped
    <3>2. CASE h = [at |-> g.at, rest |-> g.rest \ js]
      BY <2>4, <2>7, <3>2
    <3> QED
      BY Zenon, <2>3, <2>7, <3>1, <3>2
  <2> QED
    BY Zenon, <2>3, <2>6, <2>7 DEF Mapped
<1>9. ASSUME Quiet, UNCHANGED importing
      PROVE  Mapped'
  BY <1>1, <1>9 DEF Quiet, workerVars
<1>10. CASE Ingest
  <2>1. ASSUME NEW s \in Servers, NEW m \in Metrics, HandleMetricPacket(s, m),
               UNCHANGED <<flusherVars, importing>>
        PROVE  Mapped'
    BY <1>1, <2>1 DEF HandleMetricPacket, flusherVars
  <2> QED
    BY <1>9, <1>10, <2>1, QuietEvent DEF Ingest
<1>11. ASSUME NEW w \in Workers, Work(w)
       PROVE  Mapped'
  <2>1. ASSUME WorkPacket(w), UNCHANGED <<flusherVars, importing>>
        PROVE  Mapped'
    BY <1>1, <2>1 DEF WorkPacket, flusherVars
  <2> QED
    BY <1>2, <1>3, <1>4, <1>11, <2>1 DEF Work, WorkStep
<1>12. ASSUME NEW s \in Servers, FlushLoop(s)
       PROVE  Mapped'
  <2>1. ASSUME FlushDone(s), UNCHANGED importing
        PROVE  Mapped'
    BY Zenon, <1>1, <2>1 DEF FlushDone, workerVars
  <2> QED
    BY <1>5, <1>6, <1>9, <1>12, <2>1, QuietFlush DEF FlushLoop, FlushStep
<1>13. CASE Post
  <2>1. ASSUME NEW g \in forwards, PostFails(g)
        PROVE  Mapped'
    BY Zenon, <1>1, <2>1 DEF PostFails, workerVars
  <2> QED
    BY <1>7, <1>13, <2>1 DEF Post
<1>14. CASE (\E s \in Servers, k \in Sinks : Sink(s, k)) \/ Plugin \/ Stop \/ UNCHANGED vars
  <2>1. UNCHANGED importing
    BY <1>14 DEF Sink, Plugin, Stop, vars
  <2> QED
    BY <1>9, <1>14, <2>1, QuietRest
<1> QED
  BY <1>8, <1>10, <1>11, <1>12, <1>13, <1>14 DEF Next

-----------------------------------------------------------------------------
(* MetricScope is honoured. *)

\* Nothing local is forwarded or imported.
LEMMA MovingScope ==
  ASSUME TypeOK, Mapped, NEW m \in AllOf(Moving)
  PROVE  m.scope # "local"
<1>1. PICK j \in Moving : m \in j.all
  BY DEF AllOf
<1>2. Travels(j)
  <2>1. \A w \in Workers : \A j1 \in UNION Elements(importChan[w]) : Travels(j1)
    BY Zenon DEF Mapped, Elements
  <2> QED
    BY <2>1 DEF Moving, Mapped
<1>3. j \in JSONMetric
  <2>1. \A w \in Workers : UNION Elements(importChan[w]) \subseteq JSONMetric
    <3> SUFFICES ASSUME NEW w \in Workers, NEW n \in DOMAIN importChan[w]
                 PROVE  importChan[w][n] \subseteq JSONMetric
      BY Zenon DEF Elements
    <3> DEFINE T == SUBSET JSONMetric
    <3>1. importChan[w] \in Seq(T)
      BY DEF TypeOK, WorkerTypeOK
    <3> HIDE DEF T
    <3>2. importChan[w][n] \in T
      BY <3>1
    <3> QED
      BY Zenon, <3>2 DEF T
  <2> QED
    BY <2>1 DEF Moving, TypeOK, WorkerTypeOK, FlusherTypeOK
<1>4. m \in Metrics /\ MapOf(m) \in DOMAIN ExportType
  BY <1>1, <1>2, <1>3 DEF Travels, JSONMetric
<1> QED
  BY Zenon, <1>4, ScopeOfMap

\* What a server that forwards makes of an entry.
LEMMA FlushScope ==
  ASSUME NEW e \in Entry, Fits(e), NEW p \in Flush(e, TRUE), NEW m \in p.ms
  PROVE  /\ p.facet = "percentile" \/ m.key.type = "set" => m.scope = "local"
         /\ m.key.type \in {"counter", "gauge"} => m.scope # "global"
<1>1. /\ p.ms \subseteq e.all
      /\ e.map \notin {"sets", "globalCounters", "globalGauges"}
      /\ p.facet = "percentile" => e.map \in {"localHistograms", "localTimers"}
  <2>1. p \in Flush(e, TRUE) /\ e.map \in Maps
    BY Zenon DEF Entry
  <2>2. \/ /\ e.map \in {"counters", "gauges", "localSets", "localStatusChecks"}
           /\ p = Point(e, "value", e.all)
        \/ e.map \in HistoMaps /\ p = Point(e, "aggregate", e.own)
        \/ /\ e.map \in {"localHistograms", "localTimers"}
           /\ p = Point(e, "percentile", e.all)
    BY Zenon, <2>1, FlushTable
  <2>3. e.own \subseteq e.all
    BY DEF Fits
  <2>4. \A facet, ms : Point(e, facet, ms).ms = ms /\ Point(e, facet, ms).facet = facet
    BY Zenon DEF Point
  <2>5. \/ /\ e.map \in {"counters", "gauges", "localSets", "localStatusChecks"}
           /\ p.facet = "value" /\ p.ms = e.all
        \/ e.map \in HistoMaps /\ p.facet = "aggregate" /\ p.ms = e.own
        \/ /\ e.map \in {"localHistograms", "localTimers"}
           /\ p.facet = "percentile" /\ p.ms = e.all
    BY <2>2, <2>4
  <2> QED
    BY Zenon, <2>3, <2>5 DEF HistoMaps
<1>2. m \in Metrics /\ MapOf(m) = e.map
  BY <1>1 DEF Fits, Entry
<1>3. /\ MapOf(m) \notin {"sets", "globalCounters", "globalGauges"}
      /\ p.facet = "percentile" => MapOf(m) \in {"localHistograms", "localTimers"}
  BY Zenon, <1>1, <1>2
<1> QED
  BY Zenon, <1>2, <1>3, ScopeOfMap

\* The part of ScopeHonoured that is about what a server publishes.
LocalFinal ==
  \A s \in Servers : IsLocal(s) =>
    \A p \in final[s] : \A m \in p.ms :
      /\ p.facet = "percentile" \/ m.key.type = "set" => m.scope = "local"
      /\ m.key.type \in {"counter", "gauge"} => m.scope # "global"

\* Every step of a server that forwards publishes what its scope allows.
LEMMA ScopeStep ==
  ASSUME TypeOK, Mapped, LocalFinal, [Next]_vars
  PROVE  LocalFinal'
<1> DEFINE Local(p) == \A m \in p.ms :
                         /\ p.facet = "percentile" \/ m.key.type = "set" => m.scope = "local"
                         /\ m.key.type \in {"counter", "gauge"} => m.scope # "global"
           Kept == \A s \in Servers : IsLocal(s) => \A p \in final'[s] : Local(p)
<1>1. Kept => LocalFinal'
  BY DEF LocalFinal, IsLocal
<1>2. \A s \in Servers : IsLocal(s) => \A p \in final[s] : Local(p)
  BY DEF LocalFinal
<1>3. ASSUME NEW s \in Servers, Generate(s)
      PROVE  Kept
  <2> DEFINE ps == generateInterMetrics(TempEntries(s), IsLocal(s))
  <2>1. final' = [final EXCEPT ![s] = ps]
    BY Zenon, <1>3 DEF Generate
  <2>2. ASSUME IsLocal(s), NEW p \in ps
        PROVE  Local(p)
    <3>1. PICK e \in TempEntries(s) : p \in Flush(e, TRUE)
      BY Zenon, <2>2 DEF generateInterMetrics
    <3>2. e \in Entry
      BY TempEntriesType DEF TypeOK
    <3>3. Fits(e)
      BY Zenon DEF TempEntries, Mapped
    <3> QED
      BY Zenon, <3>1, <3>2, <3>3, FlushScope
  <2> HIDE DEF ps, Local
  <2>3. \A x \in Servers : final'[x] = IF x = s THEN ps ELSE final[x]
    BY <2>1 DEF TypeOK, FlusherTypeOK
  <2> QED
    BY <1>2, <2>2, <2>3
<1> HIDE DEF Local
<1>4. ASSUME NEW s \in Servers, FlushDone(s)
      PROVE  Kept
  <2>1. \A x \in Servers : final'[x] \subseteq final[x]
    BY Zenon, <1>4 DEF FlushDone, TypeOK, FlusherTypeOK
  <2> QED
    BY <1>2, <2>1
<1>5. ASSUME UNCHANGED final
      PROVE  Kept
  BY <1>2, <1>5
<1>6. ASSUME Ingest
      PROVE  Kept
  <2>1. UNCHANGED final
    BY <1>6 DEF Ingest, HandleEventPacket, flusherVars
  <2> QED
    BY <1>5, <2>1
<1>7. ASSUME NEW w \in Workers, Work(w)
      PROVE  Kept
  BY Zenon, <1>5, <1>7 DEF Work, flusherVars
<1>8. ASSUME NEW s \in Servers, FlushLoop(s)
      PROVE  Kept
  <2>1. TallyWorker(s) => UNCHANGED final
    BY Zenon DEF TallyWorker
  <2>2. FlushStart(s) \/ FlushOtherSamples(s) \/ FlusherExit(s) => UNCHANGED final
    BY QuietFlush DEF Quiet
  <2> QED
    BY Zenon, <1>3, <1>4, <1>5, <1>8, <2>1, <2>2 DEF FlushLoop, FlushStep
<1>9. ASSUME NEW g \in importing, Import(g)
      PROVE  Kept
  BY Zenon, <1>5, <1>9 DEF Import, ImportMetrics, flusherVars
<1>10. Quiet => Kept
  BY <1>5 DEF Quiet
<1> HIDE DEF Kept
<1>11. Kept
  BY <1>6, <1>7, <1>8, <1>9, <1>10, QuietRest DEF Next
<1> QED
  BY <1>1, <1>11

\* Samplers, bodies and imports hold only samples their map and key are for.
LEMMA MappedAlways == Spec => []Mapped
<1>1. Init => Mapped
  <2> SUFFICES ASSUME Init PROVE Mapped
    OBVIOUS
  <2>1. DOMAIN <<>> = {}
    OBVIOUS
  <2>2. \A w \in Workers : importChan[w] = <<>> /\ chunk[w] = {} /\ wm[w] = {}
    BY DEF Init, WorkerInit, NewWorkerMetrics
  <2>3. forwards = {} /\ importing = {} /\ \A s \in Servers : temp[s] = <<>>
    BY DEF Init, FlusherInit
  <2> QED
    BY Zenon, <2>1, <2>2, <2>3 DEF Mapped
<1>2. TypeOK /\ Mapped /\ [Next]_vars => Mapped'
  BY MappedStep
<1> QED
  BY <1>1, <1>2, TypeCorrect, PTL DEF Spec

\* MetricScope is honoured by every fleet: whatever way samples, flushes and imports
\* interleave, what flushForward posts holds no local-only sample, and a server that
\* forwards leaves mixed percentiles and set sizes and global counters and gauges to
\* the server at the root.
THEOREM ScopeRespected == Spec => []ScopeHonoured
<1>1. Init => LocalFinal
  BY Zenon DEF Init, FlusherInit, LocalFinal
<1>2. TypeOK /\ Mapped /\ LocalFinal /\ [Next]_vars => LocalFinal'
  BY ScopeStep
<1>3. TypeOK /\ Mapped /\ LocalFinal => ScopeHonoured
  BY Zenon, MovingScope DEF LocalFinal, ScopeHonoured
<1> QED
  BY <1>1, <1>2, <1>3, TypeCorrect, MappedAlways, PTL DEF Spec
=============================================================================
