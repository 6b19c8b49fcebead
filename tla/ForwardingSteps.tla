-------------------------- MODULE ForwardingSteps ---------------------------
(***************************************************************************)
(* What every step of the fleet moves from where to where; that no step     *)
(* puts a facet in two places; and the books a receiver keeps.              *)
(***************************************************************************)
EXTENDS ForwardingPlaces

(* The kinds of steps, as changes of what the places hold. *)

Rest(X) == \A p \in Place : p \in X \/ Holding'[p] = Holding[p]

\* M leaves a for b, and b forgets D.
Moves(a, b, M, D) ==
  /\ a # b /\ M \subseteq Holding[a] /\ D \subseteq Holding[b]
  /\ Holding'[a] = Holding[a] \ M
  /\ Holding'[b] = (Holding[b] \ D) \cup M
  /\ Rest({a, b})

-----------------------------------------------------------------------------
(* The workers. *)

\* Worker.Work takes a sample from PacketChan.
LEMMA WorkPacketMoves ==
  ASSUME TypeOK, Intact, NEW w \in Workers, WorkPacket(w), UNCHANGED <<flusherVars, importing>>
  PROVE  \E M : Moves(<<"packet", w>>, <<"hand", w>>, M, {})
<1> DEFINE a == <<"packet", w>>
           b == <<"hand", w>>
           m == Head(packetChan[w])
<1>1. Touches({a, b})
  BY DEF Touches, WorkPacket, flusherVars, TypeOK, WorkerTypeOK
<1>2. Rest({a, b})
  BY <1>1, Elsewhere DEF Rest
<1>3. packetChan[w] \in Seq(Metrics) /\ packetChan[w] # <<>>
  BY DEF TypeOK, WorkerTypeOK, WorkPacket
<1>4. /\ packetChan'[w] = Tail(packetChan[w]) /\ hand'[w] = {m} /\ hand[w] = {}
  BY DEF TypeOK, WorkerTypeOK, WorkPacket, Selecting
<1>5. m \notin Elements(Tail(packetChan[w]))
  BY <1>3, HeadTail DEF Intact, NoRepeat, Elements
<1>6. Elements(packetChan[w]) = {m} \cup Elements(Tail(packetChan[w]))
  BY <1>3, ElementsTail
<1>7. /\ Holding[a] = QueueTokens(Elements(packetChan[w]))
      /\ Holding[b] = QueueTokens(hand[w])
      /\ Holding'[a] = QueueTokens(Elements(packetChan'[w]))
      /\ Holding'[b] = QueueTokens(hand'[w])
  BY Zenon, HeldAt, HeldNext DEF WorkerHolding
<1>8. /\ TokensOf(m) \subseteq Holding[a] /\ Holding'[a] = Holding[a] \ TokensOf(m)
      /\ Holding'[b] = (Holding[b] \ {}) \cup TokensOf(m)
  <2>1. ASSUME NEW t PROVE t \in TokensOf(m) => t[2] = m
    BY DEF TokensOf
  <2> HIDE DEF a, b, m
  <2> QED
    BY <1>4, <1>5, <1>6, <1>7, <2>1, QueueTokensIn
<1> QED
  BY <1>2, <1>8 DEF Moves

\* ProcessMetric: from the hand of the worker into its maps, where a gauge forgets.
LEMMA ProcessMetricMoves ==
  ASSUME TypeOK, Mapped, Intact, NEW w \in Workers, ProcessMetric(w),
         UNCHANGED <<flusherVars, importing>>
  PROVE  \E M, over : /\ Moves(<<"hand", w>>, <<"wm", w>>, M, ValueTokens(over))
                      /\ overwritten' = overwritten \cup over
<1> DEFINE a == <<"hand", w>>
           b == <<"wm", w>>
<1>1. PICK m \in hand[w] :
             /\ hand' = [hand EXCEPT ![w] = {}]
             /\ wm' = [wm EXCEPT ![w] = Sample(@, MapOf(m), m)]
             /\ overwritten' = overwritten \cup Overwritten(wm[w], MapOf(m), m.key)
             /\ UNCHANGED <<packetChan, importChan, chunk>>
  BY Zenon DEF ProcessMetric, MapOf
<1> DEFINE over == Overwritten(wm[w], MapOf(m), m.key)
<1>2. Touches({a, b})
  BY <1>1 DEF Touches, flusherVars, TypeOK, WorkerTypeOK
<1>3. Rest({a, b})
  BY <1>2, Elsewhere DEF Rest
<1>4. hand[w] = {m} /\ m \in Metrics
  BY DEF Intact, TypeOK, WorkerTypeOK
<1>5. hand'[w] = {} /\ wm'[w] = Sample(wm[w], MapOf(m), m)
  BY <1>1 DEF TypeOK, WorkerTypeOK
<1>6. AllFit(wm[w])
  BY DEF Mapped, AllFit
<1>7. /\ over \subseteq AllOf(wm[w])
      /\ EntryTokens(wm'[w]) = (EntryTokens(wm[w]) \ ValueTokens(over)) \cup TokensOf(m)
  BY <1>4, <1>5, <1>6, SampleTokens
<1>8. /\ Holding[a] = QueueTokens(hand[w]) /\ Holding[b] = EntryTokens(wm[w])
      /\ Holding'[a] = QueueTokens(hand'[w]) /\ Holding'[b] = EntryTokens(wm'[w])
  BY Zenon, HeldAt, HeldNext DEF WorkerHolding
<1>9. Holding[a] = TokensOf(m) /\ Holding'[a] = {}
  BY <1>4, <1>5, <1>8, QueueTokensOne, NoTokens
<1>10. ValueTokens(over) \subseteq Holding[b]
  BY <1>7, <1>8, ValueTokensIn, EntryTokensIn
<1>11. Moves(a, b, TokensOf(m), ValueTokens(over))
  BY <1>3, <1>7, <1>8, <1>9, <1>10 DEF Moves
<1> QED
  BY <1>1, <1>11

\* Worker.Work takes a chunk from ImportChan.
LEMMA WorkImportMoves ==
  ASSUME TypeOK, Intact, NEW w \in Workers, WorkImport(w), UNCHANGED <<flusherVars, importing>>
  PROVE  \E M : Moves(<<"importChan", w>>, <<"chunk", w>>, M, {})
<1> DEFINE a == <<"importChan", w>>
           b == <<"chunk", w>>
           q == importChan[w]
           M == ValueTokens(AllOf(Head(q)))
<1>1. Touches({a, b})
  BY DEF Touches, WorkImport, flusherVars, TypeOK, WorkerTypeOK
<1>2. Rest({a, b})
  BY <1>1, Elsewhere DEF Rest
<1>3. q \in Seq(SUBSET JSONMetric) /\ q # <<>>
  BY DEF TypeOK, WorkerTypeOK, WorkImport
<1>4. importChan'[w] = Tail(q) /\ chunk'[w] = Head(q) /\ chunk[w] = {}
  BY DEF TypeOK, WorkerTypeOK, WorkImport, Selecting
<1>5. \A m : m \in AllOf(InChan(w)) <=> \E js \in Elements(q) : m \in AllOf(js)
  BY DEF InChan, AllOf
<1>6. \A m : m \in AllOf(InChan(w)') <=> \E js \in Elements(Tail(q)) : m \in AllOf(js)
  <2>1. InChan(w)' = UNION Elements(Tail(q))
    BY <1>4 DEF InChan, Elements
  <2> QED
    BY <2>1 DEF AllOf
<1>7. \A js \in Elements(Tail(q)) : AllOf(js) \cap AllOf(Head(q)) = {}
  <2> SUFFICES ASSUME NEW n \in DOMAIN Tail(q)
               PROVE  AllOf(Tail(q)[n]) \cap AllOf(Head(q)) = {}
    BY DEF Elements
  <2>1. /\ 1 \in DOMAIN q /\ Head(q) = q[1] /\ n + 1 \in DOMAIN q /\ Tail(q)[n] = q[n + 1]
        /\ n + 1 # 1
    BY <1>3, HeadTail
  <2>2. \A i, k \in DOMAIN q : i # k => AllOf(q[i]) \cap AllOf(q[k]) = {}
    BY Zenon DEF Intact, Apart
  <2> HIDE DEF q
  <2>3. AllOf(q[n + 1]) \cap AllOf(q[1]) = {}
    BY <2>1, <2>2
  <2> QED
    BY <2>1, <2>3
<1>8. Elements(q) = {Head(q)} \cup Elements(Tail(q))
  BY <1>3, ElementsTail
<1>9. /\ Holding[a] = ValueTokens(AllOf(InChan(w))) /\ Holding[b] = ValueTokens(AllOf(chunk[w]))
      /\ Holding'[a] = ValueTokens(AllOf(InChan(w)')) /\ Holding'[b] = ValueTokens(AllOf(chunk'[w]))
  BY Zenon, HeldAt, HeldNext DEF WorkerHolding
<1>10. M \subseteq Holding[a] /\ Holding'[a] = Holding[a] \ M
  <2> HIDE DEF a, q
  <2> QED
    BY <1>5, <1>6, <1>7, <1>8, <1>9, ValueTokensIn
<1>11. Holding'[b] = M /\ Holding[b] = {}
  BY <1>4, <1>9, NoTokens
<1> QED
  BY <1>2, <1>10, <1>11 DEF Moves

\* ImportMetric: a JSONMetric of the chunk goes into the maps, where a gauge forgets.
LEMMA ImportMetricMoves ==
  ASSUME TypeOK, Mapped, Intact, NEW w \in Workers, ImportMetric(w),
         UNCHANGED <<flusherVars, importing>>
  PROVE  \E M, over : /\ Moves(<<"chunk", w>>, <<"wm", w>>, M, ValueTokens(over))
                      /\ overwritten' = overwritten \cup over
<1> DEFINE a == <<"chunk", w>>
           b == <<"wm", w>>
           MapFor(j) == UpsertMap(j.key.type, ImportScope(j.key.type))
<1>1. PICK j \in chunk[w] :
             /\ chunk' = [chunk EXCEPT ![w] = @ \ {j}]
             /\ wm' = [wm EXCEPT ![w] = Combine(@, MapFor(j), j)]
             /\ overwritten' = overwritten \cup Overwritten(wm[w], MapFor(j), j.key)
             /\ UNCHANGED <<packetChan, importChan, hand>>
  BY Zenon DEF ImportMetric
<1> DEFINE over == Overwritten(wm[w], MapFor(j), j.key)
<1>2. Touches({a, b})
  BY Zenon, <1>1 DEF Touches, flusherVars, TypeOK, WorkerTypeOK
<1>3. Rest({a, b})
  BY <1>2, Elsewhere DEF Rest
<1>5. chunk'[w] = chunk[w] \ {j} /\ wm'[w] = Combine(wm[w], MapFor(j), j)
  BY <1>1 DEF TypeOK, WorkerTypeOK
<1>6. AllFit(wm[w])
  BY DEF Mapped, AllFit
<1>7. /\ over \subseteq AllOf(wm[w])
      /\ EntryTokens(wm'[w]) = (EntryTokens(wm[w]) \ ValueTokens(over)) \cup ValueTokens(j.all)
  BY <1>5, <1>6, CombineTokens
<1>8. /\ Holding[a] = ValueTokens(AllOf(chunk[w])) /\ Holding[b] = EntryTokens(wm[w])
      /\ Holding'[a] = ValueTokens(AllOf(chunk'[w])) /\ Holding'[b] = EntryTokens(wm'[w])
  BY Zenon, HeldAt, HeldNext DEF WorkerHolding
<1>9. \A i \in chunk[w] \ {j} : i.all \cap j.all = {}
  <2>1. OneEach(chunk[w]) /\ \A i \in chunk[w] : Travels(i)
    BY DEF Intact, Mapped
  <2> QED
    BY <2>1 DEF OneEach, Travels
<1>10. AllOf(chunk'[w]) = AllOf(chunk[w]) \ j.all /\ j.all \subseteq AllOf(chunk[w])
  BY <1>5, <1>9 DEF AllOf
<1>11. Holding'[a] = Holding[a] \ ValueTokens(j.all) /\ ValueTokens(j.all) \subseteq Holding[a]
  <2>1. ASSUME NEW t
        PROVE  /\ t \in Holding'[a] <=> t \in Holding[a] /\ t \notin ValueTokens(j.all)
               /\ t \in ValueTokens(j.all) => t \in Holding[a]
    BY <1>8, <1>10, ValueTokensIn
  <2> QED
    BY Zenon, <2>1
<1>12. ValueTokens(over) \subseteq Holding[b]
  BY <1>7, <1>8, ValueTokensIn, EntryTokensIn
<1>13. Moves(a, b, ValueTokens(j.all), ValueTokens(over))
  BY Zenon, <1>3, <1>7, <1>8, <1>11, <1>12 DEF Moves
<1> QED
  BY <1>1, <1>13

-----------------------------------------------------------------------------
(* The flush. *)

\* Worker.Flush: the maps of a worker are gathered.
LEMMA TallyWorkerMoves ==
  ASSUME TypeOK, NEW s \in Servers, TallyWorker(s), UNCHANGED importing
  PROVE  \E w \in Workers : \E M : Moves(<<"wm", w>>, <<"temp", s>>, M, {})
<1> DEFINE w == <<s, Len(temp[s])>>
           a == <<"wm", w>>
           b == <<"temp", s>>
<1>0. temp[s] \in Seq(SUBSET Entry) /\ w \in Workers /\ wm[w] \in SUBSET Entry
  <2>1. temp[s] \in Seq(SUBSET Entry)
    BY DEF TypeOK, FlusherTypeOK
  <2>2. w \in Workers
    <3>1. Len(temp[s]) \in 0 .. NumWorkers - 1
      BY <2>1, WorkerAssumption DEF TallyWorker
    <3> QED
      BY <3>1 DEF Workers
  <2> QED
    BY Zenon, <2>1, <2>2 DEF TypeOK, WorkerTypeOK
<1>1. /\ wm' = [wm EXCEPT ![w] = {}] /\ temp' = [temp EXCEPT ![s] = Append(@, wm[w])]
      /\ UNCHANGED <<packetChan, importChan, hand, chunk, samples, phase, other, final, forwards,
                     posts>>
  BY DEF TallyWorker, FlushWorker, NewWorkerMetrics
<1> HIDE DEF w
<1>2. Touches({a, b})
  BY <1>0, <1>1 DEF Touches, TypeOK, WorkerTypeOK, FlusherTypeOK
<1>3. Rest({a, b})
  BY <1>2, Elsewhere DEF Rest
<1>4. wm'[w] = {} /\ temp'[s] = Append(temp[s], wm[w])
  BY <1>0, <1>1 DEF TypeOK, WorkerTypeOK, FlusherTypeOK
<1>5. TempEntries(s)' = TempEntries(s) \cup wm[w]
  <2>1. /\ TempEntries(s) = UNION Elements(temp[s])
        /\ TempEntries(s)' = UNION Elements(Append(temp[s], wm[w]))
    BY <1>4 DEF TempEntries, Elements
  <2>2. Elements(Append(temp[s], wm[w])) = Elements(temp[s]) \cup {wm[w]}
    BY <1>0, ElementsAppend
  <2> QED
    BY <2>1, <2>2
<1>6. /\ Holding[a] = EntryTokens(wm[w]) /\ Holding'[a] = EntryTokens(wm'[w])
      /\ Holding[b] = EntryTokens(TempEntries(s)) /\ Holding'[b] = EntryTokens(TempEntries(s)')
  BY Zenon, <1>0, HeldAt, HeldNext DEF WorkerHolding, ServerHolding
<1>7. /\ AllOf(TempEntries(s)') = AllOf(TempEntries(s)) \cup AllOf(wm[w])
      /\ OwnOf(TempEntries(s)') = OwnOf(TempEntries(s)) \cup OwnOf(wm[w])
  BY <1>5 DEF AllOf, OwnOf
<1>8. Holding'[b] = Holding[b] \cup Holding[a]
  <2>1. ASSUME NEW t
        PROVE  t \in Holding'[b] <=> t \in Holding[b] \/ t \in Holding[a]
    <3>1. \A es : t \in EntryTokens(es) <=>
            \/ t[2] \in AllOf(es) /\ t = ValueToken(t[2])
            \/ t[2] \in OwnOf(es) /\ t = <<"aggregate", t[2]>>
      BY Zenon, EntryTokensIn
    <3>2. t \in EntryTokens(TempEntries(s)') <=>
            t \in EntryTokens(TempEntries(s)) \/ t \in EntryTokens(wm[w])
      BY Zenon, <1>7, <3>1
    <3> QED
      BY Zenon, <1>6, <3>2
  <2> QED
    BY Zenon, <2>1
<1>9. Holding'[a] = {}
  BY Zenon, <1>4, <1>6, NoTokens
<1>10. Moves(a, b, Holding[a], {})
  BY <1>3, <1>8, <1>9 DEF Moves
<1> QED
  BY <1>0, <1>10

\* The points of a flush and what it forwards are what the workers returned.
Splits(a, b, c, M, N) ==
  /\ a # b /\ a # c /\ b # c
  /\ M \cap N = {} /\ M \cup N \subseteq Holding[a]
  /\ Holding'[a] = Holding[a] \ (M \cup N)
  /\ Holding'[b] = Holding[b] \cup M
  /\ Holding'[c] = Holding[c] \cup N
  /\ Rest({a, b, c})

\* What was gathered becomes the points of the flush and the body to forward.
LEMMA GenerateMoves ==
  ASSUME TypeOK, Mapped, NEW s \in Servers, Generate(s), UNCHANGED importing
  PROVE  \/ \E M : Moves(<<"temp", s>>, <<"final", s>>, M, {})
         \/ \E g \in Posting : \E M, N :
              Splits(<<"temp", s>>, <<"final", s>>, <<"forward", g>>, M, N)
<1> DEFINE es == TempEntries(s)
           ps == generateInterMetrics(es, IsLocal(s))
           js == Export(es)
           g == [from |-> s, body |-> js]
           a == <<"temp", s>>
           b == <<"final", s>>
           c == <<"forward", g>>
<1>1. /\ phase[s] = "tally" /\ final' = [final EXCEPT ![s] = ps] /\ temp' = [temp EXCEPT ![s] = <<>>]
      /\ other' = [other EXCEPT ![s] = {}]
      /\ forwards' = IF IsLocal(s) /\ js # {} THEN forwards \cup {g} ELSE forwards
      /\ phase' = [phase EXCEPT ![s] = IF ps = {} THEN "idle" ELSE "sinks"]
      /\ UNCHANGED <<workerVars, samples, posts>>
  BY DEF Generate
<1>2. es \in SUBSET Entry /\ AllFit(es) /\ IsLocal(s) \in BOOLEAN
  <2>1. es \in SUBSET Entry
    BY TempEntriesType DEF TypeOK
  <2>2. AllFit(es)
    BY DEF TempEntries, Mapped, AllFit
  <2> QED
    BY <2>1, <2>2 DEF IsLocal
<1>3. g \in Posting
  BY <1>2, ExportTypeLemma DEF Posting
<1>4. /\ ~IsLocal(s) => PointTokens(ps) = EntryTokens(es)
      /\ IsLocal(s) => /\ PointTokens(ps) \cup ValueTokens(AllOf(js)) = EntryTokens(es)
                       /\ PointTokens(ps) \cap ValueTokens(AllOf(js)) = {}
  BY <1>2, GenerateTokens
<1>5. /\ temp'[s] = <<>> /\ final'[s] = ps /\ other'[s] = {}
      /\ phase'[s] = IF ps = {} THEN "idle" ELSE "sinks"
  BY Zenon, <1>1 DEF TypeOK, FlusherTypeOK
<1> DEFINE o == <<"other", s>>
<1>6. /\ Holding[a] = EntryTokens(es) /\ Holding'[a] = {}
      /\ Holding[b] = {} /\ Holding'[b] = PointTokens(ps)
      /\ Holding[o] = {} /\ Holding'[o] = {}
  <2>1. /\ Holding[a] = EntryTokens(TempEntries(s))
        /\ Holding[b] = IF phase[s] = "sinks" THEN PointTokens(final[s]) ELSE {}
        /\ Holding[o] = IF phase[s] = "other" THEN EventTokens(other[s]) ELSE {}
    BY Zenon, HeldAt DEF ServerHolding
  <2>2. /\ Holding'[a] = EntryTokens(TempEntries(s)')
        /\ Holding'[b] = IF phase'[s] = "sinks" THEN PointTokens(final'[s]) ELSE {}
        /\ Holding'[o] = IF phase'[s] = "other" THEN EventTokens(other'[s]) ELSE {}
    BY Zenon, HeldNext DEF ServerHolding
  <2>3. TempEntries(s)' = {}
    BY <1>5 DEF TempEntries
  <2>4. ps = {} => PointTokens(ps) = {}
    BY DEF PointTokens
  <2> HIDE DEF ps, es
  <2>5. Holding'[b] = PointTokens(ps) /\ Holding'[o] = {}
    BY <1>5, <2>2, <2>4
  <2>6. Holding'[a] = {}
    BY <2>2, <2>3, NoTokens
  <2> QED
    BY Zenon, <1>1, <2>1, <2>5, <2>6 DEF es
<1>7. Touches({a, b, c, o}) /\ (~IsLocal(s) \/ js = {} => Touches({a, b, o}))
  <2> HIDE DEF ps, js, g
  <2> QED
    BY Zenon, <1>1, <1>3 DEF Touches, workerVars, TypeOK, FlusherTypeOK
<1>8. Rest({a, b, c, o}) /\ (~IsLocal(s) \/ js = {} => Rest({a, b, o}))
  BY Zenon, <1>7, Elsewhere DEF Rest
<1>9. Rest({a, b, c}) /\ (~IsLocal(s) \/ js = {} => Rest({a, b}))
  BY Zenon, <1>6, <1>8 DEF Rest
<1>10. CASE ~IsLocal(s) \/ js = {}
  <2>1. PointTokens(ps) = EntryTokens(es)
    <3>1. js = {} => ValueTokens(AllOf(js)) = {}
      BY NoTokens
    <3> QED
      BY <1>4, <1>10, <3>1
  <2>2. Moves(a, b, PointTokens(ps), {})
    <3> HIDE DEF ps, es, js
    <3> QED
      BY Zenon, <1>6, <1>9, <1>10, <2>1 DEF Moves
  <2> QED
    BY <2>2
<1>11. CASE IsLocal(s) /\ js # {}
  <2>1. /\ Holding'[c] = ValueTokens(AllOf(js))
        /\ Holding[c] \in {{}, ValueTokens(AllOf(js))}
    <3>1. g \in forwards' /\ g.body = js
      BY <1>1, <1>11
    <3> HIDE DEF js
    <3> QED
      BY <1>3, <3>1, HeldAt, HeldNext DEF GoroutineHolding
  <2>2. Splits(a, b, c, PointTokens(ps), ValueTokens(AllOf(js)))
    <3> HIDE DEF ps, es, js
    <3> QED
      BY Zenon, <1>4, <1>6, <1>9, <1>11, <2>1 DEF Splits
  <2> QED
    BY <1>3, <2>2
<1> QED
  BY Zenon, <1>10, <1>11

\* What a place held is gone.
Empties(a) == Holding'[a] = {} /\ Rest({a})

\* EventWorker.Flush: the events are gathered for the sinks.
LEMMA FlushStartMoves ==
  ASSUME TypeOK, NEW s \in Servers, FlushStart(s), UNCHANGED importing
  PROVE  \/ Sinks # {} /\ Moves(<<"samples", s>>, <<"other", s>>, Holding[<<"samples", s>>], {})
         \/ Sinks = {} /\ Empties(<<"samples", s>>)
<1> DEFINE a == <<"samples", s>>
           b == <<"other", s>>
           f == <<"final", s>>
<1>1. /\ phase[s] = "idle" /\ phase' = [phase EXCEPT ![s] = IF Sinks = {} THEN "tally" ELSE "other"]
      /\ other' = [other EXCEPT ![s] = samples[s]] /\ samples' = [samples EXCEPT ![s] = {}]
      /\ UNCHANGED <<workerVars, temp, final, forwards, posts>>
  BY DEF FlushStart
<1>2. Touches({a, b, f})
  BY Zenon, <1>1 DEF Touches, workerVars, TypeOK, FlusherTypeOK
<1>3. Rest({a, b, f})
  BY <1>2, Elsewhere DEF Rest
<1>4. phase'[s] = (IF Sinks = {} THEN "tally" ELSE "other") /\ other'[s] = samples[s] /\ samples'[s] = {}
  BY <1>1 DEF TypeOK, FlusherTypeOK
<1>5. /\ Holding[a] = EventTokens(samples[s]) /\ Holding[b] = {} /\ Holding[f] = {}
  BY Zenon, <1>1, HeldAt DEF ServerHolding
<1>6. /\ Holding'[a] = {} /\ Holding'[f] = {}
      /\ Holding'[b] = IF Sinks = {} THEN {} ELSE EventTokens(samples[s])
  <2>1. EventTokens({}) = {}
    BY DEF EventTokens
  <2> QED
    BY Zenon, <1>4, <2>1, HeldNext DEF ServerHolding
<1>7. Rest({a, b}) /\ (Sinks = {} => Rest({a}))
  BY Zenon, <1>3, <1>5, <1>6 DEF Rest
<1> QED
  BY Zenon, <1>5, <1>6, <1>7 DEF Moves, Empties

\* The samples stay with the flush until the last sink has been given them.
LEMMA FlushOtherMoves ==
  ASSUME TypeOK, NEW s \in Servers, FlushOtherSamples(s), UNCHANGED importing
  PROVE  IF todo'[s] = {} THEN Empties(<<"other", s>>) ELSE Rest({})
<1> DEFINE a == <<"other", s>>
           f == <<"final", s>>
<1>1. /\ phase[s] = "other"
      /\ todo'[s] # {} => phase' = phase
      /\ todo'[s] = {} => phase' = [phase EXCEPT ![s] = "tally"]
      /\ UNCHANGED <<workerVars, samples, other, temp, final, forwards, posts>>
  <2>1. PICK k \in todo[s] :
               /\ todo' = [todo EXCEPT ![s] = @ \ {k}]
               /\ phase' = [phase EXCEPT ![s] = IF todo[s] = {k} THEN "tally" ELSE "other"]
    BY Zenon DEF FlushOtherSamples
  <2>2. phase[s] = "other" /\ UNCHANGED <<workerVars, samples, other, temp, final, forwards, posts>>
    BY Zenon DEF FlushOtherSamples
  <2>3. todo'[s] = todo[s] \ {k}
    BY <2>1 DEF TypeOK, FlusherTypeOK
  <2>4. CASE todo[s] = {k}
    BY <2>1, <2>2, <2>3, <2>4
  <2>5. CASE todo[s] # {k}
    <3>1. todo'[s] # {}
      BY <2>3, <2>5
    <3>2. phase' = [phase EXCEPT ![s] = "other"]
      BY <2>1, <2>5
    <3>3. phase' = phase
      BY <2>2, <3>2 DEF TypeOK, FlusherTypeOK
    <3> QED
      BY <2>2, <3>1, <3>3
  <2> QED
    BY <2>4, <2>5
<1>2. CASE todo'[s] = {}
  <2>1. Touches({a, f}) /\ phase'[s] = "tally"
    BY Zenon, <1>1, <1>2 DEF Touches, workerVars, TypeOK, FlusherTypeOK
  <2>2. Holding'[a] = {} /\ Holding[f] = {} /\ Holding'[f] = {}
    BY Zenon, <1>1, <2>1, HeldAt, HeldNext DEF ServerHolding
  <2>3. Rest({a, f})
    BY <2>1, Elsewhere DEF Rest
  <2>4. Rest({a})
    BY <2>2, <2>3 DEF Rest
  <2> QED
    BY <1>2, <2>2, <2>4 DEF Empties
<1>3. CASE todo'[s] # {}
  <2>1. Touches({})
    BY <1>1, <1>3 DEF Touches, workerVars
  <2> QED
    BY <1>3, <2>1, Elsewhere DEF Rest
<1> QED
  BY Zenon, <1>2, <1>3

\* A sink takes a copy of the points: they stay for the others.
LEMMA SinkFlushMoves ==
  ASSUME NEW s \in Servers, NEW k \in Sinks, SinkFlush(s, k), UNCHANGED importing
  PROVE  Rest({})
<1>1. Touches({})
  BY Zenon DEF SinkFlush, Touches, workerVars
<1> QED
  BY <1>1, Elsewhere DEF Rest

\* The points of a flush go to the plugin goroutine, or are forgotten.
LEMMA FlushDoneMoves ==
  ASSUME TypeOK, NEW s \in Servers, FlushDone(s), UNCHANGED importing
  PROVE  LET g == [points |-> final[s], left |-> Plugins]
         IN  \/ /\ Plugins # {} /\ g \in Plugging /\ g \in posts'
                /\ Moves(<<"final", s>>, <<"post", g>>, Holding[<<"final", s>>], {})
             \/ Plugins = {} /\ Empties(<<"final", s>>)
<1> DEFINE g == [points |-> final[s], left |-> Plugins]
           a == <<"final", s>>
           b == <<"post", g>>
           o == <<"other", s>>
<1>1. /\ phase[s] = "sinks" /\ phase' = [phase EXCEPT ![s] = "idle"]
      /\ final' = [final EXCEPT ![s] = {}]
      /\ posts' = IF Plugins = {} THEN posts ELSE posts \cup {g}
      /\ UNCHANGED <<workerVars, samples, other, temp, forwards>>
  BY Zenon DEF FlushDone
<1>2. g \in Plugging /\ phase'[s] = "idle" /\ g.points = final[s]
  BY <1>1 DEF Plugging, TypeOK, FlusherTypeOK
<1> HIDE DEF g
<1>3. Touches({a, b, o}) /\ (Plugins = {} => Touches({a, o}))
  BY Zenon, <1>1, <1>2 DEF Touches, workerVars, TypeOK, FlusherTypeOK
<1>4. Rest({a, b, o}) /\ (Plugins = {} => Rest({a, o}))
  BY Zenon, <1>3, Elsewhere DEF Rest
<1>5. /\ Holding[a] = PointTokens(final[s]) /\ Holding'[a] = {}
      /\ Holding[o] = {} /\ Holding'[o] = {}
  BY Zenon, <1>1, <1>2, HeldAt, HeldNext DEF ServerHolding
<1>6. Rest({a, b}) /\ (Plugins = {} => Rest({a}))
  BY Zenon, <1>4, <1>5 DEF Rest
<1>7. CASE Plugins = {}
  BY Zenon, <1>5, <1>6, <1>7 DEF Empties
<1>8. CASE Plugins # {}
  <2>1. g \in posts'
    BY <1>1, <1>8
  <2>2. /\ Holding[b] = IF g \in posts THEN PointTokens(g.points) ELSE {}
        /\ Holding'[b] = IF g \in posts' THEN PointTokens(g.points) ELSE {}
    BY Zenon, <1>2, HeldAt, HeldNext DEF GoroutineHolding
  <2>3. Moves(a, b, Holding[a], {})
    BY Zenon, <1>2, <1>5, <1>6, <2>1, <2>2 DEF Moves
  <2> QED
    BY Zenon, <1>2, <1>8, <2>1, <2>3 DEF g
<1> QED
  BY Zenon, <1>7, <1>8

\* A flusher that stops moves nothing.
LEMMA FlusherExitMoves ==
  ASSUME TypeOK, NEW s \in Servers, FlusherExit(s), UNCHANGED importing
  PROVE  Rest({})
<1>1. /\ phase[s] = "idle" /\ phase' = [phase EXCEPT ![s] = "exited"]
      /\ UNCHANGED <<workerVars, samples, other, temp, final, forwards, posts>>
  BY DEF FlusherExit
<1>2. Touches({<<"final", s>>, <<"other", s>>}) /\ phase'[s] = "exited"
  BY Zenon, <1>1 DEF Touches, workerVars, TypeOK, FlusherTypeOK
<1>3. Rest({<<"final", s>>, <<"other", s>>})
  BY Zenon, <1>2, Elsewhere DEF Rest
<1>4. /\ Holding'[<<"final", s>>] = Holding[<<"final", s>>]
      /\ Holding'[<<"other", s>>] = Holding[<<"other", s>>]
  BY Zenon, <1>1, <1>2, HeldAt, HeldNext DEF ServerHolding
<1> QED
  BY <1>3, <1>4 DEF Rest

-----------------------------------------------------------------------------
(* The goroutines a flush starts, and the import they lead to. *)

\* The goroutine that is left when a plugin is done.
NextPlugin(g, k) == [points |-> g.points, left |-> g.left \ {k}]

\* The goroutine g is done with plugin k.
Serves(g, k) ==
  /\ posts' = (posts \ {g}) \cup (IF g.left = {k} THEN {} ELSE {NextPlugin(g, k)})
  /\ UNCHANGED <<workerVars, samples, phase, todo, other, temp, final, forwards>>

\* The goroutine keeps the points until its last plugin is done.
LEMMA PluginFlushMoves ==
  ASSUME TypeOK, NEW g \in posts, NEW k \in g.left, UNCHANGED importing, Serves(g, k)
  PROVE  \/ g.left # {k} /\ Moves(<<"post", g>>, <<"post", NextPlugin(g, k)>>, Holding[<<"post", g>>], {})
         \/ g.left = {k} /\ Empties(<<"post", g>>)
<1> DEFINE h == NextPlugin(g, k)
           a == <<"post", g>>
           b == <<"post", h>>
<1>1. g \in Plugging /\ h \in Plugging /\ h.points = g.points /\ h # g
  <2>1. g \in Plugging
    BY DEF Plugging, TypeOK, FlusherTypeOK
  <2>2. h \in Plugging /\ h.points = g.points /\ h.left = g.left \ {k}
    BY <2>1 DEF Plugging, NextPlugin
  <2> QED
    BY Zenon, <2>1, <2>2
<1> HIDE DEF h
<1>2. Touches({a, b}) /\ (g.left = {k} => Touches({a}))
  BY Zenon, <1>1 DEF Touches, Serves, workerVars, h
<1>3. Rest({a, b}) /\ (g.left = {k} => Rest({a}))
  BY <1>2, Elsewhere DEF Rest
<1>4. g \notin posts' /\ (g.left # {k} => h \in posts')
  BY <1>1 DEF Serves, h
<1>5. /\ Holding[a] = PointTokens(g.points) /\ Holding'[a] = {}
      /\ Holding[b] = IF h \in posts THEN PointTokens(g.points) ELSE {}
      /\ g.left # {k} => Holding'[b] = PointTokens(g.points)
  BY Zenon, <1>1, <1>4, HeldAt, HeldNext DEF GoroutineHolding
<1>6. a # b
  BY <1>1
<1>7. CASE g.left = {k}
  BY Zenon, <1>3, <1>5, <1>7 DEF Empties
<1>8. CASE g.left # {k}
  BY Zenon, <1>3, <1>5, <1>6, <1>8 DEF Moves, h
<1> QED
  BY Zenon, <1>7, <1>8

\* A POST that arrives: the body is an import at the upstream server.
LEMMA PostForwardMoves ==
  ASSUME TypeOK, LocalForwards, NEW g \in forwards, PostForward(g)
  PROVE  \E h \in Receiving : \E M : Moves(<<"forward", g>>, <<"import", h>>, M, {})
<1> DEFINE h == [at |-> Upstream[g.from], rest |-> g.body]
           a == <<"forward", g>>
           b == <<"import", h>>
<1>1. /\ forwards' = forwards \ {g} /\ importing' = importing \cup {h}
      /\ UNCHANGED <<workerVars, samples, phase, other, temp, final, posts>>
  BY DEF PostForward
<1>2. g \in Posting /\ h \in Receiving /\ h.rest = g.body
  BY FlusherAssumption DEF Posting, Receiving, TypeOK, FlusherTypeOK, LocalForwards, IsLocal
<1> HIDE DEF h
<1>3. Touches({a, b})
  BY Zenon, <1>1, <1>2 DEF Touches, workerVars
<1>4. Rest({a, b})
  BY <1>3, Elsewhere DEF Rest
<1>5. g \notin forwards' /\ h \in importing'
  BY <1>1
<1>6. /\ Holding[a] = ValueTokens(AllOf(g.body)) /\ Holding'[a] = {}
      /\ Holding[b] \in {{}, ValueTokens(AllOf(g.body))}
      /\ Holding'[b] = ValueTokens(AllOf(g.body))
  BY Zenon, <1>2, <1>5, HeldAt, HeldNext DEF GoroutineHolding
<1>7. Moves(a, b, Holding[a], {})
  BY Zenon, <1>4, <1>6 DEF Moves
<1> QED
  BY <1>2, <1>7

\* A POST that fails: the body is gone.
LEMMA PostFailsMoves ==
  ASSUME TypeOK, NEW g \in forwards, PostFails(g)
  PROVE  /\ Empties(<<"forward", g>>) /\ <<"forward", g>> \in Place
         /\ lost' = [k \in Receivers |-> lost[k] \cup Holding[<<"forward", g>>]]
<1> DEFINE a == <<"forward", g>>
<1>1. /\ forwards' = forwards \ {g}
      /\ UNCHANGED <<workerVars, samples, phase, other, temp, final, posts, importing>>
      /\ lost' = [k \in Receivers |-> lost[k] \cup ValueTokens(AllOf(g.body))]
  BY Zenon DEF PostFails
<1>2. g \in Posting
  BY DEF Posting, TypeOK, FlusherTypeOK
<1>3. Touches({a})
  BY Zenon, <1>1, <1>2 DEF Touches, workerVars
<1>4. Rest({a})
  BY <1>3, Elsewhere DEF Rest
<1>5. Holding[a] = ValueTokens(AllOf(g.body)) /\ Holding'[a] = {}
  BY Zenon, <1>1, <1>2, HeldAt, HeldNext DEF GoroutineHolding
<1> QED
  BY Zenon, <1>1, <1>2, <1>4, <1>5, PlaceOf DEF Empties, ArePlaces

\* ImportMetrics: a part of the body is queued at a worker, the rest is yet to be.
LEMMA ImportMetricsMoves ==
  ASSUME TypeOK, Mapped, Intact, NEW g \in importing, ImportMetrics(g)
  PROVE  \E v \in Workers :
           \/ \E M : Moves(<<"import", g>>, <<"importChan", v>>, M, {})
           \/ \E h \in Receiving : \E M, N :
                Splits(<<"import", g>>, <<"import", h>>, <<"importChan", v>>, M, N)
<1>0. g \in Receiving
  BY DEF TypeOK, Receiving
<1>1. PICK v \in Workers, js \in SUBSET g.rest :
             /\ js # {} /\ importChan' = [importChan EXCEPT ![v] = Append(@, js)]
             /\ importing' = (importing \ {g}) \cup
                               (IF js = g.rest THEN {} ELSE {[at |-> g.at, rest |-> g.rest \ js]})
             /\ UNCHANGED <<packetChan, hand, chunk, wm, samples, phase, other, temp, final,
                            forwards, posts>>
  <2>1. \A i \in 0 .. NumWorkers - 1 : <<g.at, i>> \in Workers
    BY <1>0 DEF Receiving, Workers
  <2> DEFINE For(i) == {j \in g.rest : ImportWorker(g.at, j) = <<g.at, i>>}
  <2>2. PICK i \in 0 .. NumWorkers - 1 :
               /\ For(i) # {} /\ SendImport(<<g.at, i>>, For(i)) /\ UNCHANGED flusherVars
               /\ importing' = (importing \ {g}) \cup
                    (IF For(i) = g.rest THEN {} ELSE {[at |-> g.at, rest |-> g.rest \ For(i)]})
    BY Zenon DEF ImportMetrics
  <2>3. For(i) \in SUBSET g.rest
    OBVIOUS
  <2> HIDE DEF For
  <2> QED
    BY Zenon, <2>1, <2>2, <2>3 DEF SendImport, flusherVars
<1> DEFINE h == [at |-> g.at, rest |-> g.rest \ js]
           a == <<"import", g>>
           b == <<"import", h>>
           c == <<"importChan", v>>
<1>2. h \in Receiving /\ h.rest = g.rest \ js /\ h # g
  BY <1>0, <1>1 DEF Receiving
<1>3. importing' = (importing \ {g}) \cup (IF js = g.rest THEN {} ELSE {h})
  BY <1>1
<1> HIDE DEF h
<1>4. Touches({a, b, c}) /\ (js = g.rest => Touches({a, c}))
  BY Zenon, <1>1, <1>3 DEF Touches, TypeOK, WorkerTypeOK
<1>5. Rest({a, b, c}) /\ (js = g.rest => Rest({a, c}))
  BY <1>4, Elsewhere DEF Rest
<1>6. Holding'[c] = Holding[c] \cup ValueTokens(AllOf(js))
  <2> DEFINE T == SUBSET JSONMetric
  <2>1. importChan[v] \in Seq(T) /\ js \in T
    BY <1>0 DEF TypeOK, WorkerTypeOK, Receiving
  <2> HIDE DEF T
  <2>2. importChan'[v] = Append(importChan[v], js)
    <3>1. importChan' = [importChan EXCEPT ![v] = Append(@, js)]
      BY Zenon, <1>1
    <3>2. v \in Workers /\ importChan \in [Workers -> Seq(SUBSET JSONMetric)]
      BY Zenon DEF TypeOK, WorkerTypeOK
    <3> QED
      BY Zenon, <3>1, <3>2
  <2>3. Elements(Append(importChan[v], js)) = Elements(importChan[v]) \cup {js}
    BY <2>1, ElementsAppend
  <2>4. InChan(v)' = UNION Elements(Append(importChan[v], js))
    BY <2>2 DEF InChan, Elements
  <2>5. InChan(v)' = InChan(v) \cup js
    BY <2>3, <2>4 DEF InChan
  <2>6. AllOf(InChan(v)') = AllOf(InChan(v)) \cup AllOf(js)
    BY <2>5 DEF AllOf
  <2>7. Holding[c] = ValueTokens(AllOf(InChan(v))) /\ Holding'[c] = ValueTokens(AllOf(InChan(v)'))
    BY Zenon, HeldAt, HeldNext DEF WorkerHolding
  <2> QED
    BY <2>6, <2>7, ValueTokensIn
<1>7. /\ Holding[a] = ValueTokens(AllOf(g.rest)) /\ Holding'[a] = {}
  <2>1. g \notin importing'
    BY <1>2, <1>3
  <2> QED
    BY Zenon, <1>0, <2>1, HeldAt, HeldNext DEF GoroutineHolding
<1>8. a # b /\ a # c /\ b # c
  BY <1>2
<1>9. CASE js = g.rest
  <2>1. Moves(a, c, Holding[a], {})
    BY Zenon, <1>5, <1>6, <1>7, <1>8, <1>9 DEF Moves
  <2> QED
    BY <2>1
<1>10. CASE js # g.rest
  <2>1. h \in importing'
    BY <1>3, <1>10
  <2>2. /\ Holding[b] \in {{}, ValueTokens(AllOf(h.rest))}
        /\ Holding'[b] = ValueTokens(AllOf(h.rest))
    BY Zenon, <1>2, <2>1, HeldAt, HeldNext DEF GoroutineHolding
  <2>3. \A i, j \in g.rest : i # j => i.all \cap j.all = {}
    <3>1. OneEach(g.rest) /\ \A i \in g.rest : Travels(i)
      BY Zenon DEF Intact, Mapped
    <3> QED
      BY <3>1 DEF OneEach, Travels
  <2>4. /\ AllOf(g.rest) = AllOf(h.rest) \cup AllOf(js)
        /\ AllOf(h.rest) \cap AllOf(js) = {}
    <3>1. js \subseteq g.rest /\ h.rest = g.rest \ js
      BY Zenon, <1>2
    <3>2. AllOf(g.rest) = AllOf(h.rest) \cup AllOf(js)
      BY Zenon, <3>1 DEF AllOf
    <3>3. ASSUME NEW x \in AllOf(h.rest), x \in AllOf(js)
          PROVE  FALSE
      <4>1. PICK i \in h.rest : x \in i.all
        BY Zenon DEF AllOf
      <4>2. PICK j \in js : x \in j.all
        BY Zenon, <3>3 DEF AllOf
      <4>3. i \in g.rest /\ j \in g.rest /\ i # j
        BY Zenon, <3>1
      <4> QED
        BY Zenon, <2>3, <4>1, <4>2, <4>3
    <3> QED
      BY Zenon, <3>2, <3>3
  <2>5. /\ Holding[a] = ValueTokens(AllOf(h.rest)) \cup ValueTokens(AllOf(js))
        /\ ValueTokens(AllOf(h.rest)) \cap ValueTokens(AllOf(js)) = {}
    BY Zenon, <1>7, <2>4, ValueTokensIn
  <2>6. Splits(a, b, c, ValueTokens(AllOf(h.rest)), ValueTokens(AllOf(js)))
    BY Zenon, <1>5, <1>6, <1>7, <1>8, <2>2, <2>5 DEF Splits
  <2> QED
    BY Zenon, <1>2, <2>6
<1> QED
  BY Zenon, <1>9, <1>10

-----------------------------------------------------------------------------
(* Clients. *)

\* N comes in at a.
Adds(a, N) == Holding'[a] = Holding[a] \cup N /\ Rest({a})

\* HandleMetricPacket: a new sample is queued at a worker.
LEMMA MetricPacketMoves ==
  ASSUME TypeOK, NEW s \in Servers, NEW m \in Metrics, HandleMetricPacket(s, m),
         UNCHANGED <<flusherVars, importing>>
  PROVE  \E v \in Workers : Adds(<<"packet", v>>, TokensOf(m))
<1> DEFINE v == WorkerOf(s, m.key)
           a == <<"packet", v>>
<1>1. v \in Workers
  BY WorkerOfType, MetricFields
<1>2. /\ packetChan' = [packetChan EXCEPT ![v] = Append(@, m)]
      /\ UNCHANGED <<importChan, hand, chunk, wm>>
  BY DEF HandleMetricPacket
<1> HIDE DEF v
<1>3. Touches({a})
  BY Zenon, <1>2 DEF Touches, flusherVars, TypeOK, WorkerTypeOK
<1>4. Rest({a})
  BY <1>3, Elsewhere DEF Rest
<1>5. packetChan[v] \in Seq(Metrics) /\ packetChan'[v] = Append(packetChan[v], m)
  BY <1>1, <1>2 DEF TypeOK, WorkerTypeOK
<1>6. Elements(packetChan'[v]) = Elements(packetChan[v]) \cup {m}
  BY <1>5, ElementsAppend
<1>7. /\ Holding[a] = QueueTokens(Elements(packetChan[v]))
      /\ Holding'[a] = QueueTokens(Elements(packetChan'[v]))
  BY Zenon, <1>1, HeldAt, HeldNext DEF WorkerHolding
<1>8. \A t : t \in TokensOf(m) => t[2] = m
  BY DEF TokensOf
<1>9. Holding'[a] = Holding[a] \cup TokensOf(m)
  <2>1. ASSUME NEW t
        PROVE  t \in Holding'[a] <=> t \in Holding[a] \/ t \in TokensOf(m)
    BY <1>6, <1>7, <1>8, QueueTokensIn
  <2> QED
    BY Zenon, <2>1
<1> QED
  BY Zenon, <1>1, <1>4, <1>9 DEF Adds

\* An event or a service check is queued at the event worker.
LEMMA EventPacketMoves ==
  ASSUME TypeOK, NEW s \in Servers, NEW e \in Events, HandleEventPacket(s, e), UNCHANGED importing
  PROVE  Adds(<<"samples", s>>, {<<"event", e>>})
<1> DEFINE a == <<"samples", s>>
<1>1. /\ samples' = [samples EXCEPT ![s] = @ \cup {e}]
      /\ UNCHANGED <<workerVars, phase, other, temp, final, forwards, posts>>
  BY DEF HandleEventPacket
<1>2. Touches({a})
  BY Zenon, <1>1 DEF Touches, workerVars, TypeOK, FlusherTypeOK
<1>3. Rest({a})
  BY <1>2, Elsewhere DEF Rest
<1>4. samples'[s] = samples[s] \cup {e}
  BY <1>1 DEF TypeOK, FlusherTypeOK
<1>5. Holding[a] = EventTokens(samples[s]) /\ Holding'[a] = EventTokens(samples'[s])
  BY Zenon, HeldAt, HeldNext DEF ServerHolding
<1>6. Holding'[a] = Holding[a] \cup {<<"event", e>>}
  BY <1>4, <1>5 DEF EventTokens
<1> QED
  BY <1>3, <1>6 DEF Adds

-----------------------------------------------------------------------------
(* No step puts a facet in two places. *)

\* A step that takes nothing in and leaves everything in one place.
Conserves == /\ OnePlace'
             /\ \A p \in Place : \A t \in Holding'[p] : \E q \in Place : t \in Holding[q]

\* A move keeps what is in one place in one place.
LEMMA MovesConserve ==
  ASSUME OnePlace, NEW a \in Place, NEW b \in Place, NEW M, NEW D, Moves(a, b, M, D)
  PROVE  Conserves
<1>1. /\ M \subseteq Holding[a] /\ Holding'[a] = Holding[a] \ M /\ Holding'[b] = (Holding[b] \ D) \cup M
      /\ \A p \in Place : p \in {a, b} \/ Holding'[p] = Holding[p]
  BY DEF Moves, Rest
<1>2. \A p, q \in Place : p # q => \A t : ~(t \in Holding[p] /\ t \in Holding[q])
  BY DEF OnePlace
<1>3. ASSUME NEW p \in Place, NEW q \in Place, p # q, NEW t, t \in Holding'[p], t \in Holding'[q]
      PROVE  FALSE
  <2>1. CASE t \in M
    <3>1. \A r \in Place : t \in Holding[r] => r = a
      BY <1>1, <1>2, <2>1
    <3> QED
      BY <1>1, <1>3, <2>1, <3>1
  <2>2. CASE t \notin M
    <3>1. t \in Holding[p] /\ t \in Holding[q]
      BY <1>1, <1>3, <2>2
    <3> QED
      BY <1>2, <1>3, <3>1
  <2> QED
    BY <2>1, <2>2
<1>4. \A p \in Place : \A t \in Holding'[p] : \E q \in Place : t \in Holding[q]
  BY <1>1
<1> QED
  BY Zenon, <1>3, <1>4 DEF Conserves, OnePlace

\* So does a split.
LEMMA SplitsConserve ==
  ASSUME OnePlace, NEW a \in Place, NEW b \in Place, NEW c \in Place, NEW M, NEW N,
         Splits(a, b, c, M, N)
  PROVE  Conserves
<1>1. /\ M \cup N \subseteq Holding[a] /\ M \cap N = {} /\ a # b /\ a # c /\ b # c
      /\ Holding'[a] = Holding[a] \ (M \cup N)
      /\ Holding'[b] = Holding[b] \cup M /\ Holding'[c] = Holding[c] \cup N
      /\ \A p \in Place : p \in {a, b, c} \/ Holding'[p] = Holding[p]
  BY DEF Splits, Rest
<1>2. \A p, q \in Place : p # q => \A t : ~(t \in Holding[p] /\ t \in Holding[q])
  BY DEF OnePlace
<1>3. ASSUME NEW p \in Place, NEW q \in Place, p # q, NEW t, t \in Holding'[p], t \in Holding'[q]
      PROVE  FALSE
  <2>1. CASE t \in M \cup N
    <3>1. \A r \in Place : t \in Holding[r] => r = a
      BY Zenon, <1>1, <1>2, <2>1
    <3> QED
      BY Zenon, <1>1, <1>3, <2>1, <3>1
  <2>2. CASE t \notin M \cup N
    <3>1. t \in Holding[p] /\ t \in Holding[q]
      BY Zenon, <1>1, <1>3, <2>2
    <3> QED
      BY Zenon, <1>2, <1>3, <3>1
  <2> QED
    BY <2>1, <2>2
<1>4. \A p \in Place : \A t \in Holding'[p] : \E q \in Place : t \in Holding[q]
  BY <1>1
<1> QED
  BY <1>3, <1>4 DEF Conserves, OnePlace

\* And a place that is emptied.
LEMMA EmptiesConserve ==
  ASSUME OnePlace, (\E a : Empties(a)) \/ Rest({})
  PROVE  Conserves
<1>1. \A p \in Place : Holding'[p] \subseteq Holding[p]
  BY DEF Empties, Rest
<1> QED
  BY <1>1 DEF Conserves, OnePlace

\* New facets go to one place.
LEMMA AddsApart ==
  ASSUME OnePlace, Known, NEW a, NEW N, Adds(a, N), N \cap Seen = {}
  PROVE  /\ OnePlace'
         /\ \A p \in Place : \A t \in Holding'[p] : t \in N \/ \E q \in Place : t \in Holding[q]
<1>1. \A p \in Place : p = a \/ Holding'[p] = Holding[p]
  BY DEF Adds, Rest
<1>2. Holding'[a] = Holding[a] \cup N
  BY DEF Adds
<1>3. \A p \in Place : Holding[p] \cap N = {}
  BY DEF Known
<1> QED
  BY Zenon, <1>1, <1>2, <1>3 DEF OnePlace

-----------------------------------------------------------------------------
(* The steps, action by action. *)

\* The steps of the workers.
LEMMA WorkConserves ==
  ASSUME TypeOK, Mapped, Intact, OnePlace, NEW w \in Workers, Work(w)
  PROVE  Conserves
<1>1. UNCHANGED <<flusherVars, importing>>
  BY DEF Work
<1>2. /\ <<"packet", w>> \in Place /\ <<"hand", w>> \in Place /\ <<"wm", w>> \in Place
      /\ <<"importChan", w>> \in Place /\ <<"chunk", w>> \in Place
  BY PlaceOf DEF ArePlaces
<1>3. CASE WorkPacket(w)
  BY <1>1, <1>2, <1>3, WorkPacketMoves, MovesConserve
<1>4. CASE ProcessMetric(w)
  BY <1>1, <1>2, <1>4, ProcessMetricMoves, MovesConserve
<1>5. CASE WorkImport(w)
  BY <1>1, <1>2, <1>5, WorkImportMoves, MovesConserve
<1>6. CASE ImportMetric(w)
  BY <1>1, <1>2, <1>6, ImportMetricMoves, MovesConserve
<1> QED
  BY <1>3, <1>4, <1>5, <1>6 DEF Work, WorkStep

\* The steps of a flush.
LEMMA FlushConserves ==
  ASSUME TypeOK, Mapped, OnePlace, NEW s \in Servers, FlushLoop(s)
  PROVE  Conserves
<1>1. UNCHANGED importing
  BY DEF FlushLoop
<1>2. /\ <<"temp", s>> \in Place /\ <<"final", s>> \in Place /\ <<"samples", s>> \in Place
      /\ <<"other", s>> \in Place
  BY PlaceOf DEF ArePlaces
<1>3. CASE FlushStart(s)
  BY <1>1, <1>2, <1>3, FlushStartMoves, MovesConserve, EmptiesConserve
<1>4. CASE FlushOtherSamples(s)
  BY Zenon, <1>1, <1>4, FlushOtherMoves, EmptiesConserve
<1>5. CASE TallyWorker(s)
  BY Zenon, <1>1, <1>2, <1>5, TallyWorkerMoves, MovesConserve, PlaceOf DEF ArePlaces
<1>6. CASE Generate(s)
  BY Zenon, <1>1, <1>2, <1>6, GenerateMoves, MovesConserve, SplitsConserve, PlaceOf DEF ArePlaces
<1>7. CASE FlushDone(s)
  BY Zenon, <1>1, <1>2, <1>7, FlushDoneMoves, MovesConserve, EmptiesConserve, PlaceOf DEF ArePlaces
<1>8. CASE FlusherExit(s)
  BY <1>1, <1>8, FlusherExitMoves, EmptiesConserve
<1> QED
  BY <1>3, <1>4, <1>5, <1>6, <1>7, <1>8 DEF FlushLoop, FlushStep

\* The step of a goroutine: which plugin it serves, and what it leaves.
LEMMA PluginStep ==
  ASSUME NEW g \in posts, PluginFlush(g)
  PROVE  \E k \in g.left, got \in {{}, PointTokens(g.points)} :
           Serves(g, k) /\ Give(k, PointTokens(g.points), got) /\ events' = events
<1>1. PointTokens({}) = {}
  BY DEF PointTokens
<1> QED
  BY Zenon, <1>1 DEF PluginFlush, NextPlugin, Serves

\* The steps of sinks, plugins, POSTs, imports and Stop.
LEMMA RestConserves ==
  ASSUME TypeOK, LocalForwards, Mapped, Intact, OnePlace, Next,
         ~Ingest, \A w \in Workers : ~Work(w), \A s \in Servers : ~FlushLoop(s)
  PROVE  Conserves
<1>1. ASSUME NEW s \in Servers, NEW k \in Sinks, Sink(s, k) PROVE Conserves
  BY <1>1, SinkFlushMoves, EmptiesConserve DEF Sink
<1>2. CASE Plugin
  <2>1. PICK g \in posts : PluginFlush(g) /\ UNCHANGED importing
    BY <1>2 DEF Plugin
  <2>2. PICK k \in g.left : Serves(g, k)
    BY Zenon, <2>1, PluginStep
  <2>3. <<"post", g>> \in Place /\ <<"post", NextPlugin(g, k)>> \in Place
    BY Zenon, PlaceOf DEF TypeOK, FlusherTypeOK, Plugging, NextPlugin, ArePlaces
  <2> QED
    BY Zenon, <2>1, <2>2, <2>3, PluginFlushMoves, MovesConserve, EmptiesConserve
<1>3. CASE Stop
  <2>1. Touches({})
    BY Zenon, <1>3 DEF Stop, Shutdown, Touches, workerVars
  <2>2. Rest({})
    BY <2>1, Elsewhere DEF Rest
  <2> QED
    BY <2>2, EmptiesConserve
<1>4. CASE Post
  <2>1. PICK g \in forwards : PostForward(g) \/ PostFails(g)
    BY <1>4 DEF Post
  <2>2. <<"forward", g>> \in Place
    BY Zenon, PlaceOf DEF TypeOK, FlusherTypeOK, Posting, ArePlaces
  <2>3. CASE PostForward(g)
    BY Zenon, <2>2, <2>3, PostForwardMoves, MovesConserve, PlaceOf DEF ArePlaces
  <2>4. CASE PostFails(g)
    BY Zenon, <2>4, PostFailsMoves, EmptiesConserve
  <2> QED
    BY <2>1, <2>3, <2>4
<1>5. ASSUME NEW g \in importing, Import(g) PROVE Conserves
  <2>1. <<"import", g>> \in Place
    BY PlaceOf DEF TypeOK, Receiving, ArePlaces
  <2> QED
    BY Zenon, <1>5, <2>1, ImportMetricsMoves, MovesConserve, SplitsConserve, PlaceOf DEF Import, ArePlaces
<1> QED
  BY <1>1, <1>2, <1>3, <1>4, <1>5 DEF Next

\* Only a packet adds to the samples accepted.
LEMMA NoneTakenIn ==
  ASSUME [Next]_vars, ~Ingest
  PROVE  UNCHANGED <<accepted, events>>
<1>1. ASSUME NEW w \in Workers, Work(w) PROVE UNCHANGED <<accepted, events>>
  BY Zenon, <1>1 DEF Work, WorkStep, WorkPacket, ProcessMetric, WorkImport, ImportMetric, flusherVars
<1>2. ASSUME NEW s \in Servers, FlushLoop(s) PROVE UNCHANGED <<accepted, events>>
  <2>1. FlushStart(s) => UNCHANGED <<accepted, events>>
    BY DEF FlushStart, workerVars
  <2>2. FlushOtherSamples(s) => UNCHANGED <<accepted, events>>
    BY Zenon DEF FlushOtherSamples, workerVars
  <2>3. TallyWorker(s) => UNCHANGED <<accepted, events>>
    BY DEF TallyWorker, FlushWorker
  <2>4. Generate(s) => UNCHANGED <<accepted, events>>
    BY Zenon DEF Generate, workerVars
  <2>5. FlushDone(s) \/ FlusherExit(s) => UNCHANGED <<accepted, events>>
    BY Zenon DEF FlushDone, FlusherExit, workerVars
  <2> QED
    BY <1>2, <2>1, <2>2, <2>3, <2>4, <2>5 DEF FlushLoop, FlushStep
<1>3. ASSUME NEW s \in Servers, NEW k \in Sinks, Sink(s, k) PROVE UNCHANGED <<accepted, events>>
  BY Zenon, <1>3 DEF Sink, SinkFlush, workerVars
<1>4. CASE Plugin \/ Stop
  BY Zenon, <1>4 DEF Plugin, PluginFlush, Stop, Shutdown, workerVars
<1>5. CASE Post
  BY Zenon, <1>5 DEF Post, PostForward, PostFails, workerVars
<1>6. ASSUME NEW g \in importing, Import(g) PROVE UNCHANGED <<accepted, events>>
  BY Zenon, <1>6 DEF Import, ImportMetrics, SendImport, flusherVars
<1>7. CASE UNCHANGED vars
  BY <1>7 DEF vars, workerVars, flusherVars
<1> QED
  BY <1>1, <1>2, <1>3, <1>4, <1>5, <1>6, <1>7 DEF Next

\* Every step keeps every facet in one place.
LEMMA PlacesStep ==
  ASSUME TypeOK, LocalForwards, Mapped, Intact, OnePlace, Known, [Next]_vars
  PROVE  OnePlace' /\ Known'
<1>1. ASSUME Conserves, ~Ingest PROVE OnePlace' /\ Known'
  <2>1. Seen' = Seen
    BY <1>1, NoneTakenIn DEF Seen, AllAccepted
  <2> QED
    BY <1>1, <2>1 DEF Conserves, Known
<1>2. ASSUME NEW s \in Servers, NEW m \in Metrics, HandleMetricPacket(s, m),
             UNCHANGED <<flusherVars, importing>>
      PROVE  OnePlace' /\ Known'
  <2>1. PICK v \in Workers : Adds(<<"packet", v>>, TokensOf(m))
    BY <1>2, MetricPacketMoves
  <2>2. m \notin AllAccepted /\ accepted' = [accepted EXCEPT ![s] = @ \cup {m}]
    BY <1>2 DEF HandleMetricPacket
  <2>3. events' = events /\ AllAccepted' = AllAccepted \cup {m}
    BY <1>2, <2>2 DEF flusherVars, AllAccepted, TypeOK, WorkerTypeOK
  <2>4. \A t \in TokensOf(m) : t \in Token /\ t[1] # "event" /\ t[2] = m
    BY DEF TokensOf, Facets, Token
  <2>5. TokensOf(m) \cap Seen = {} /\ TokensOf(m) \subseteq Seen' /\ Seen \subseteq Seen'
    BY <2>2, <2>3, <2>4 DEF Seen
  <2>6. /\ OnePlace'
        /\ \A p \in Place : \A t \in Holding'[p] :
             t \in TokensOf(m) \/ \E q \in Place : t \in Holding[q]
    BY <2>1, <2>5, AddsApart
  <2> QED
    BY <2>5, <2>6 DEF Known
<1>3. ASSUME NEW s \in Servers, NEW e \in Events, HandleEventPacket(s, e), UNCHANGED importing
      PROVE  OnePlace' /\ Known'
  <2> DEFINE N == {<<"event", e>>}
  <2>1. Adds(<<"samples", s>>, N)
    BY <1>3, EventPacketMoves
  <2>2. e \notin events /\ events' = events \cup {e} /\ AllAccepted' = AllAccepted
    BY <1>3 DEF HandleEventPacket, workerVars, AllAccepted
  <2>3. N \cap Seen = {} /\ N \subseteq Seen' /\ Seen \subseteq Seen'
    BY <2>2 DEF Seen, Token
  <2> HIDE DEF N
  <2>4. /\ OnePlace'
        /\ \A p \in Place : \A t \in Holding'[p] : t \in N \/ \E q \in Place : t \in Holding[q]
    BY Zenon, <2>1, <2>3, AddsApart
  <2> QED
    BY <2>3, <2>4 DEF Known
<1>4. CASE Ingest
  BY <1>2, <1>3, <1>4 DEF Ingest
<1>5. CASE ~Ingest
  <2>1. CASE UNCHANGED vars
    <3>1. Touches({})
      BY Zenon, <2>1 DEF Touches, vars, workerVars, flusherVars
    <3>2. Rest({})
      BY <3>1, Elsewhere DEF Rest
    <3> QED
      BY <1>1, <1>5, <3>2, EmptiesConserve
  <2>2. CASE Next
    BY <1>1, <1>5, <2>2, WorkConserves, FlushConserves, RestConserves
  <2> QED
    BY <2>1, <2>2
<1> QED
  BY <1>4, <1>5

-----------------------------------------------------------------------------
(* The books of a receiver. *)

\* What was dropped on its way to receiver k: lost with a sink, a plugin or a POST that
\* failed, or overwritten in a gauge.
Dropped == [k \in Receivers |-> lost[k] \cup ValueTokens(overwritten)]

\* Towards every receiver, a facet is open, delivered once or dropped, and only if it
\* was taken in.
Balanced(seen, got, open, dropped) ==
  /\ \A t \in Token : got[t] <= 1 /\ (got[t] # 0 => t \in seen)
  /\ \A t \in open \cup dropped : got[t] = 0
  /\ open \cap dropped = {}
  /\ open \cup dropped \subseteq seen

Books == \A k \in Receivers : Balanced(Seen, delivered[k], EnRouteTo[k], Dropped[k])

\* T leaves the fleet at receiver k, which takes got of it.
Settles(k, T, got) ==
  /\ T \subseteq EnRouteTo[k] /\ got \subseteq T
  /\ EnRouteTo'[k] = EnRouteTo[k] \ T
  /\ \A t \in Token : delivered'[k][t] = delivered[k][t] + (IF t \in got THEN 1 ELSE 0)
  /\ Dropped'[k] = Dropped[k] \cup (T \ got)

\* N is taken in.
Accepts(k, N) ==
  /\ N \subseteq Token /\ N \cap Seen = {}
  /\ EnRouteTo'[k] = EnRouteTo[k] \cup N
  /\ delivered'[k] = delivered[k] /\ Dropped'[k] = Dropped[k]

\* What was taken in are facets.
LEMMA SeenTokens == Seen \subseteq Token
BY DEF Seen

\* What leaves the fleet settles the accounts.
LEMMA SettleRefines ==
  ASSUME TypeOK, TypeOK', Books, NEW k \in Receivers, NEW T, NEW got, Settles(k, T, got)
  PROVE  A(k)!Settle
<1>1. EnRoute(k) = EnRouteTo[k] /\ EnRoute(k)' = EnRouteTo'[k]
  BY EnRouteIs, EnRouteNext DEF EnRoutePlaces
<1>2. /\ lost[k] \cup ValueTokens(overwritten) = Dropped[k]
      /\ (lost[k] \cup ValueTokens(overwritten))' = Dropped'[k]
  BY DEF Dropped
<1>3. delivered[k] \in [Token -> Nat] /\ delivered'[k] \in [Token -> Nat]
  BY Zenon DEF TypeOK, FlusherTypeOK
<1>4. EnRouteTo[k] \ EnRouteTo'[k] = T /\ T \ Dropped'[k] = got
  BY Zenon DEF Settles, Books, Balanced
<1>5. delivered'[k] = [t \in Token |-> IF t \in got THEN delivered[k][t] + 1 ELSE delivered[k][t]]
  <2> DEFINE new(t) == IF t \in got THEN delivered[k][t] + 1 ELSE delivered[k][t]
  <2>1. ASSUME NEW t \in Token PROVE delivered'[k][t] = new(t)
    <3>1. delivered[k][t] \in Nat
      BY <1>3
    <3>2. delivered'[k][t] = delivered[k][t] + (IF t \in got THEN 1 ELSE 0)
      BY Zenon DEF Settles
    <3> QED
      BY <3>1, <3>2
  <2> HIDE DEF new
  <2>2. delivered'[k] = [t \in Token |-> new(t)]
    BY <1>3, <2>1
  <2> QED
    BY <2>2 DEF new
<1>6. EnRouteTo'[k] \subseteq EnRouteTo[k] /\ Dropped'[k] = Dropped[k] \cup (T \ got)
  BY Zenon DEF Settles
<1>7. /\ EnRoute(k)' \subseteq EnRoute(k) /\ EnRoute(k) \ EnRoute(k)' = T
      /\ T \ (lost[k] \cup ValueTokens(overwritten))' = got
      /\ (lost[k] \cup ValueTokens(overwritten))' = (lost[k] \cup ValueTokens(overwritten)) \cup (T \ got)
  BY Zenon, <1>1, <1>2, <1>4, <1>6
<1> QED
  BY Zenon, <1>5, <1>7 DEF A!Settle

\* It keeps the books.
LEMMA SettleBooks ==
  ASSUME TypeOK, Books, NEW k \in Receivers, NEW T, NEW got, Settles(k, T, got)
  PROVE  Balanced(Seen, delivered'[k], EnRouteTo'[k], Dropped'[k])
<1>1. delivered[k] \in [Token -> Nat]
  BY DEF TypeOK, FlusherTypeOK
<1>2. \A t \in Token : delivered[k][t] \in Nat
  BY <1>1
<1>3. /\ \A t \in Token : delivered[k][t] <= 1 /\ (delivered[k][t] # 0 => t \in Seen)
      /\ \A t \in EnRouteTo[k] \cup Dropped[k] : delivered[k][t] = 0
      /\ EnRouteTo[k] \cap Dropped[k] = {}
      /\ EnRouteTo[k] \cup Dropped[k] \subseteq Seen
  BY Zenon DEF Books, Balanced
<1>4. \A t \in Token : t \in got => delivered[k][t] = 0 /\ t \in Seen
  BY <1>3 DEF Settles
<1>5. \A t \in EnRouteTo'[k] \cup Dropped'[k] : t \notin got /\ t \in Token /\ delivered[k][t] = 0
  BY <1>3, SeenTokens DEF Settles
<1>6. \A t \in EnRouteTo'[k] \cup Dropped'[k] : delivered'[k][t] = 0
  BY <1>5 DEF Settles
<1>7. ASSUME NEW t \in Token
      PROVE  delivered'[k][t] <= 1 /\ (delivered'[k][t] # 0 => t \in Seen)
  <2>1. delivered'[k][t] = delivered[k][t] + (IF t \in got THEN 1 ELSE 0)
    BY Zenon DEF Settles
  <2>2. delivered[k][t] <= 1 /\ (delivered[k][t] # 0 => t \in Seen) /\ delivered[k][t] \in Nat
    BY Zenon, <1>2, <1>3
  <2>3. t \in got => delivered[k][t] = 0 /\ t \in Seen
    BY Zenon, <1>4
  <2> QED
    BY <2>1, <2>2, <2>3
<1> QED
  BY Zenon, <1>3, <1>6, <1>7 DEF Settles, Balanced

\* What is taken in opens accounts.
LEMMA AcceptRefines ==
  ASSUME TypeOK, TypeOK', Books, NEW k \in Receivers, NEW N, Accepts(k, N)
  PROVE  A(k)!Accept
<1>1. EnRoute(k) = EnRouteTo[k] /\ EnRoute(k)' = EnRouteTo'[k]
  BY Zenon, EnRouteIs, EnRouteNext DEF EnRoutePlaces
<1>2. /\ lost[k] \cup ValueTokens(overwritten) = Dropped[k]
      /\ (lost[k] \cup ValueTokens(overwritten))' = Dropped'[k]
  BY DEF Dropped
<1>3. \A t \in EnRouteTo'[k] \ EnRouteTo[k] : t \in Token /\ delivered[k][t] = 0 /\ t \notin Dropped[k]
  BY Zenon DEF Accepts, Books, Balanced
<1> QED
  BY Zenon, <1>1, <1>2, <1>3 DEF A!Accept, Accepts

\* It keeps the books.
LEMMA AcceptBooks ==
  ASSUME Books, NEW k \in Receivers, NEW N, Accepts(k, N), Seen \cup N \subseteq Seen'
  PROVE  Balanced(Seen', delivered'[k], EnRouteTo'[k], Dropped'[k])
BY Zenon DEF Accepts, Books, Balanced

-----------------------------------------------------------------------------
(* What a step does to what is due. *)

DueRest(k, X) == \A p \in Place : p \in X \/ Due'[k][p] = Due[k][p]

DueMoves(k, a, b, M, D) ==
  /\ a # b /\ M \subseteq Due[k][a] /\ D \subseteq Due[k][b]
  /\ Due'[k][a] = Due[k][a] \ M
  /\ Due'[k][b] = (Due[k][b] \ D) \cup M
  /\ DueRest(k, {a, b})

DueSplits(k, a, b, c, M, N) ==
  /\ a # b /\ a # c /\ b # c
  /\ M \cup N \subseteq Due[k][a]
  /\ Due'[k][a] = Due[k][a] \ (M \cup N)
  /\ Due'[k][b] = Due[k][b] \cup M
  /\ Due'[k][c] = Due[k][c] \cup N
  /\ DueRest(k, {a, b, c})

DueEmpties(k, a) == Due'[k][a] = {} /\ DueRest(k, {a})

\* The tokens T, and no others, are no longer due at k.
Leaves(k, T) == T \subseteq EnRouteTo[k] /\ EnRouteTo'[k] = EnRouteTo[k] \ T

\* What is in one place is due in one place.
LEMMA DueOnce ==
  ASSUME OnePlace, NEW k \in Receivers, NEW p \in Place, NEW q \in Place, p # q
  PROVE  Due[k][p] \cap Due[k][q] = {}
<1>1. Due[k][p] \subseteq Holding[p] /\ Due[k][q] \subseteq Holding[q]
  BY DEF Due
<1> QED
  BY <1>1 DEF OnePlace

\* Membership in EnRouteTo, before and after a step.
LEMMA EnRouteIn ==
  ASSUME NEW k \in Receivers
  PROVE  /\ \A t : t \in EnRouteTo[k] <=> \E p \in Place : t \in Due[k][p]
         /\ \A t : t \in EnRouteTo'[k] <=> \E p \in Place : t \in Due'[k][p]
BY DEF EnRouteTo

\* After a move, what the target forgot is en route no more.
LEMMA MovesLeave ==
  ASSUME OnePlace, NEW k \in Receivers, NEW a \in Place, NEW b \in Place, NEW M, NEW D,
         DueMoves(k, a, b, M, D)
  PROVE  Leaves(k, D)
<1>1. \A p, q \in Place : p # q => \A t : ~(t \in Due[k][p] /\ t \in Due[k][q])
  BY Zenon, DueOnce
<1>2. /\ a # b /\ M \subseteq Due[k][a] /\ D \subseteq Due[k][b]
      /\ Due'[k][a] = Due[k][a] \ M /\ Due'[k][b] = (Due[k][b] \ D) \cup M
      /\ \A p \in Place : p \in {a, b} \/ Due'[k][p] = Due[k][p]
  BY Zenon DEF DueMoves, DueRest
<1>3. ASSUME NEW t
      PROVE  (\E p \in Place : t \in Due'[k][p]) <=> t \notin D /\ \E p \in Place : t \in Due[k][p]
  <2>1. ASSUME NEW p \in Place, t \in Due'[k][p]
        PROVE  t \notin D /\ \E q \in Place : t \in Due[k][q]
    BY Zenon, <1>1, <1>2, <2>1
  <2>2. ASSUME NEW p \in Place, t \in Due[k][p], t \notin D
        PROVE  \E q \in Place : t \in Due'[k][q]
    BY Zenon, <1>2, <2>2
  <2> QED
    BY Zenon, <2>1, <2>2
<1> QED
  BY Zenon, <1>2, <1>3, EnRouteIn DEF Leaves

\* After a split, all is still en route.
LEMMA SplitsLeave ==
  ASSUME OnePlace, NEW k \in Receivers, NEW a \in Place, NEW b \in Place, NEW c \in Place,
         NEW M, NEW N, DueSplits(k, a, b, c, M, N)
  PROVE  Leaves(k, {})
<1>1. /\ a # b /\ a # c /\ b # c /\ M \cup N \subseteq Due[k][a]
      /\ Due'[k][a] = Due[k][a] \ (M \cup N)
      /\ Due'[k][b] = Due[k][b] \cup M /\ Due'[k][c] = Due[k][c] \cup N
      /\ \A p \in Place : p \in {a, b, c} \/ Due'[k][p] = Due[k][p]
  BY Zenon DEF DueSplits, DueRest
<1>2. ASSUME NEW t
      PROVE  (\E p \in Place : t \in Due'[k][p]) <=> \E p \in Place : t \in Due[k][p]
  <2>1. ASSUME NEW p \in Place, t \in Due'[k][p] PROVE \E q \in Place : t \in Due[k][q]
    BY Zenon, <1>1, <2>1
  <2>2. ASSUME NEW p \in Place, t \in Due[k][p] PROVE \E q \in Place : t \in Due'[k][q]
    BY Zenon, <1>1, <2>2
  <2> QED
    BY Zenon, <2>1, <2>2
<1> QED
  BY Zenon, <1>2, EnRouteIn DEF Leaves

\* After a place is emptied, what it held is en route no more.
LEMMA EmptiesLeave ==
  ASSUME OnePlace, NEW k \in Receivers, NEW a \in Place, DueEmpties(k, a)
  PROVE  Leaves(k, Due[k][a])
<1>1. \A p \in Place : p # a => \A t : ~(t \in Due[k][p] /\ t \in Due[k][a])
  BY DueOnce
<1>2. Due'[k][a] = {} /\ \A p \in Place : p = a \/ Due'[k][p] = Due[k][p]
  BY DEF DueEmpties, DueRest
<1>3. ASSUME NEW t
      PROVE  (\E p \in Place : t \in Due'[k][p])
               <=> t \notin Due[k][a] /\ \E p \in Place : t \in Due[k][p]
  BY <1>1, <1>2
<1> QED
  BY Zenon, <1>3, EnRouteIn DEF Leaves

\* If nothing changes, all is still en route.
LEMMA RestLeaves ==
  ASSUME NEW k \in Receivers, DueRest(k, {})
  PROVE  Leaves(k, {})
BY Zenon, EnRouteIn DEF Leaves, DueRest
=============================================================================
