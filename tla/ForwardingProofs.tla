-------------------------- MODULE ForwardingProofs --------------------------
(***************************************************************************)
(* The metric path implements Accounting towards every sink and plugin: a   *)
(* packet is an Accept, every other step a Settle of what it publishes or   *)
(* drops, for any tree of servers, any number of workers, sinks and plugins *)
(* and any samples.                                                         *)
(***************************************************************************)
EXTENDS ForwardingSteps, ForwardingScope

\* Apart from the places X, what is handed to receiver k next stays what it was.
Steady(k, X) ==
  \A s \in Servers :
    /\ \/ <<"final", s>> \in X
       \/ (phase'[s] = "sinks" /\ k \in todo'[s] \cup Plugins) <=>
            (phase[s] = "sinks" /\ k \in todo[s] \cup Plugins)
    /\ \/ <<"other", s>> \in X
       \/ (phase'[s] = "other" /\ k \in todo'[s]) <=> (phase[s] = "other" /\ k \in todo[s])

\* All that is at p is due at k, before and after the step.
Whole(k, p) == Due[k][p] = Holding[p] /\ Due'[k][p] = Holding'[p]

\* Nothing that is at p is due at k.
Closed(k, p) == Due[k][p] = {} /\ Due'[k][p] = {}

\* What a worker holds is due to every receiver.
LEMMA WholeWorker ==
  ASSUME NEW k \in Receivers, NEW w \in Workers
  PROVE  \A p \in {<<"packet", w>>, <<"hand", w>>, <<"wm", w>>, <<"importChan", w>>, <<"chunk", w>>} :
           Whole(k, p)
<1>1. /\ Due[k][<<"packet", w>>] = Holding[<<"packet", w>>]
      /\ Due[k][<<"hand", w>>] = Holding[<<"hand", w>>]
      /\ Due[k][<<"wm", w>>] = Holding[<<"wm", w>>]
      /\ Due[k][<<"importChan", w>>] = Holding[<<"importChan", w>>]
      /\ Due[k][<<"chunk", w>>] = Holding[<<"chunk", w>>]
  BY DueAt DEF DueKinds
<1>2. /\ Due'[k][<<"packet", w>>] = Holding'[<<"packet", w>>]
      /\ Due'[k][<<"hand", w>>] = Holding'[<<"hand", w>>]
      /\ Due'[k][<<"wm", w>>] = Holding'[<<"wm", w>>]
      /\ Due'[k][<<"importChan", w>>] = Holding'[<<"importChan", w>>]
      /\ Due'[k][<<"chunk", w>>] = Holding'[<<"chunk", w>>]
  BY DueNext DEF DueKinds
<1> QED
  BY <1>1, <1>2 DEF Whole

\* So is what was gathered, forwarded or imported.
LEMMA WholePlaces ==
  ASSUME NEW k \in Receivers
  PROVE  /\ \A s \in Servers : Whole(k, <<"temp", s>>)
         /\ \A g \in Posting : Whole(k, <<"forward", g>>)
         /\ \A g \in Receiving : Whole(k, <<"import", g>>)
<1>1. /\ \A s \in Servers : Due[k][<<"temp", s>>] = Holding[<<"temp", s>>]
      /\ \A g \in Posting : Due[k][<<"forward", g>>] = Holding[<<"forward", g>>]
      /\ \A g \in Receiving : Due[k][<<"import", g>>] = Holding[<<"import", g>>]
  BY Zenon, DueAt DEF DueKinds
<1>2. /\ \A s \in Servers : Due'[k][<<"temp", s>>] = Holding'[<<"temp", s>>]
      /\ \A g \in Posting : Due'[k][<<"forward", g>>] = Holding'[<<"forward", g>>]
      /\ \A g \in Receiving : Due'[k][<<"import", g>>] = Holding'[<<"import", g>>]
  BY Zenon, DueNext DEF DueKinds
<1> QED
  BY <1>1, <1>2 DEF Whole

\* A place that holds what it held, and whose flush has not moved on, is due what was due.
LEMMA DueStill ==
  ASSUME NEW k \in Receivers, NEW X, Rest(X), Steady(k, X)
  PROVE  DueRest(k, X)
<1> SUFFICES ASSUME NEW p \in Place, p \notin X
             PROVE  Due'[k][p] = Due[k][p]
  BY DEF DueRest
<1>0. Holding'[p] = Holding[p]
  BY DEF Rest
<1>1. ASSUME NEW w \in Workers,
             p \in {<<"packet", w>>, <<"hand", w>>, <<"wm", w>>, <<"importChan", w>>, <<"chunk", w>>}
      PROVE  Due'[k][p] = Due[k][p]
  BY Zenon, <1>0, <1>1, WholeWorker DEF Whole
<1>2. ASSUME NEW s \in Servers, p = <<"samples", s>>
      PROVE  Due'[k][p] = Due[k][p]
  <2>1. Due[k][<<"samples", s>>] = IF k \in Sinks THEN Holding[<<"samples", s>>] ELSE {}
    BY Zenon, DueAt DEF DueKinds
  <2>2. Due'[k][<<"samples", s>>] = IF k \in Sinks THEN Holding'[<<"samples", s>>] ELSE {}
    BY Zenon, DueNext DEF DueKinds
  <2> QED
    BY <1>0, <1>2, <2>1, <2>2
<1>3. ASSUME NEW s \in Servers, p = <<"final", s>>
      PROVE  Due'[k][p] = Due[k][p]
  <2>1. Due[k][<<"final", s>>] = IF phase[s] = "sinks" /\ k \in todo[s] \cup Plugins
                                     THEN Holding[<<"final", s>>] ELSE {}
    BY Zenon, DueAt DEF DueKinds
  <2>2. Due'[k][<<"final", s>>] = IF phase'[s] = "sinks" /\ k \in todo'[s] \cup Plugins
                                     THEN Holding'[<<"final", s>>] ELSE {}
    BY Zenon, DueNext DEF DueKinds
  <2> QED
    BY Zenon, <1>0, <1>3, <2>1, <2>2 DEF Steady
<1>4. ASSUME NEW s \in Servers, p = <<"other", s>>
      PROVE  Due'[k][p] = Due[k][p]
  <2>1. Due[k][<<"other", s>>] = IF phase[s] = "other" /\ k \in todo[s]
                                     THEN Holding[<<"other", s>>] ELSE {}
    BY Zenon, DueAt DEF DueKinds
  <2>2. Due'[k][<<"other", s>>] = IF phase'[s] = "other" /\ k \in todo'[s]
                                     THEN Holding'[<<"other", s>>] ELSE {}
    BY Zenon, DueNext DEF DueKinds
  <2> QED
    BY Zenon, <1>0, <1>4, <2>1, <2>2 DEF Steady
<1>5. ASSUME NEW s \in Servers, p = <<"temp", s>> PROVE Due'[k][p] = Due[k][p]
  BY <1>0, <1>5, WholePlaces DEF Whole
<1>6. CASE (\E g \in Posting : p = <<"forward", g>>) \/ (\E g \in Receiving : p = <<"import", g>>)
  BY <1>0, <1>6, WholePlaces DEF Whole
<1>7. ASSUME NEW g \in Plugging, p = <<"post", g>> PROVE Due'[k][p] = Due[k][p]
  BY <1>0, <1>7, DueAt, DueNext DEF DueKinds
<1> QED
  BY <1>1, <1>2, <1>3, <1>4, <1>5, <1>6, <1>7, PlaceKinds DEF PlaceKind

\* A move between places that are due to k.
LEMMA WholeMoves ==
  ASSUME OnePlace, NEW k \in Receivers, NEW a \in Place, NEW b \in Place, NEW M, NEW D,
         Moves(a, b, M, D), Steady(k, {a, b}), Whole(k, a), Whole(k, b)
  PROVE  Leaves(k, D)
<1>1. DueRest(k, {a, b})
  BY DueStill DEF Moves
<1>2. DueMoves(k, a, b, M, D)
  BY <1>1 DEF Moves, DueMoves, Whole
<1> QED
  BY <1>2, MovesLeave

\* A split between places that are due to k.
LEMMA WholeSplits ==
  ASSUME OnePlace, NEW k \in Receivers, NEW a \in Place, NEW b \in Place, NEW c \in Place,
         NEW M, NEW N, Splits(a, b, c, M, N), Steady(k, {a, b, c}),
         Whole(k, a), Whole(k, b), Whole(k, c)
  PROVE  Leaves(k, {})
<1>1. DueRest(k, {a, b, c})
  BY DueStill DEF Splits
<1>2. DueSplits(k, a, b, c, M, N)
  BY <1>1 DEF Splits, DueSplits, Whole
<1> QED
  BY <1>2, SplitsLeave

\* A change at places nothing is due from.
LEMMA ClosedRest ==
  ASSUME NEW k \in Receivers, NEW X, Rest(X), Steady(k, X), \A p \in X : Closed(k, p)
  PROVE  Leaves(k, {})
<1>1. DueRest(k, X)
  BY DueStill
<1>2. DueRest(k, {})
  BY Zenon, <1>1 DEF DueRest, Closed
<1> QED
  BY <1>2, RestLeaves

-----------------------------------------------------------------------------
(* What a step adds to the accounts. *)

\* Some of what is due at k leaves the fleet, and k takes some of that.
Proceeds(k) == \E T, got : Settles(k, T, got)

\* A step at which nobody is given anything.
Unpaid == UNCHANGED <<delivered, lost>>

\* What a step drops.
LEMMA DroppedIs ==
  ASSUME NEW k \in Receivers
  PROVE  /\ Dropped[k] = lost[k] \cup ValueTokens(overwritten)
         /\ Dropped'[k] = lost'[k] \cup ValueTokens(overwritten')
BY DEF Dropped

\* A step that pays no receiver settles what is overwritten.
LEMMA UnpaidSettles ==
  ASSUME TypeOK, NEW k \in Receivers, NEW over, Unpaid, overwritten' = overwritten \cup over,
         Leaves(k, ValueTokens(over))
  PROVE  Proceeds(k)
<1>1. delivered[k] \in [Token -> Nat]
  BY DEF TypeOK, FlusherTypeOK
<1>2. \A t \in Token : delivered[k][t] \in Nat
  BY <1>1
<1>3. Dropped'[k] = Dropped[k] \cup ValueTokens(over)
  <2>1. ValueTokens(overwritten') = ValueTokens(overwritten) \cup ValueTokens(over)
    BY ValueTokensIn
  <2> QED
    BY <2>1, DroppedIs DEF Unpaid
<1>4. Settles(k, ValueTokens(over), {})
  BY <1>2, <1>3 DEF Settles, Leaves, Unpaid
<1> QED
  BY <1>4 DEF Proceeds

\* A step that only moves settles nothing.
LEMMA MovedSettles ==
  ASSUME TypeOK, NEW k \in Receivers, Unpaid, overwritten' = overwritten, Leaves(k, {})
  PROVE  Proceeds(k)
<1>1. delivered[k] \in [Token -> Nat]
  BY DEF TypeOK, FlusherTypeOK
<1>2. \A t \in Token : delivered[k][t] \in Nat
  BY <1>1
<1>3. \A t \in Token : delivered'[k][t] = delivered[k][t] + (IF t \in {} THEN 1 ELSE 0)
  BY <1>2 DEF Unpaid
<1>4. Dropped'[k] = Dropped[k] \cup ({} \ {})
  BY Zenon, DroppedIs DEF Unpaid
<1>5. Settles(k, {}, {})
  BY <1>3, <1>4 DEF Settles, Leaves
<1> QED
  BY <1>5 DEF Proceeds

\* Give settles what the receiver takes or loses.
LEMMA GiveSettles ==
  ASSUME TypeOK, NEW j \in Receivers, NEW T, NEW got, got \subseteq T, Give(j, T, got),
         overwritten' = overwritten, NEW k \in Receivers,
         Leaves(k, IF k = j THEN T ELSE {})
  PROVE  Proceeds(k)
<1>1. delivered[k] \in [Token -> Nat] /\ delivered \in [Receivers -> [Token -> Nat]]
  BY DEF TypeOK, FlusherTypeOK
<1>2. \A t \in Token : delivered[k][t] \in Nat
  BY <1>1
<1>3. lost \in [Receivers -> SUBSET Token]
  BY DEF TypeOK, FlusherTypeOK
<1>4. CASE k = j
  <2>1. \A t \in Token : delivered'[k][t] = delivered[k][t] + (IF t \in got THEN 1 ELSE 0)
    BY <1>1, <1>4 DEF Give
  <2>2. lost'[k] = lost[k] \cup (T \ got)
    BY <1>3, <1>4 DEF Give
  <2>3. Settles(k, T, got)
    BY <1>4, <2>1, <2>2, DroppedIs DEF Settles, Leaves
  <2> QED
    BY <2>3 DEF Proceeds
<1>5. CASE k # j
  <2>1. delivered'[k] = delivered[k] /\ lost'[k] = lost[k]
    BY <1>1, <1>3, <1>5 DEF Give
  <2>2. \A t \in Token : delivered'[k][t] = delivered[k][t] + (IF t \in {} THEN 1 ELSE 0)
    BY <1>2, <2>1
  <2>3. Dropped'[k] = Dropped[k] \cup ({} \ {})
    BY Zenon, <2>1, DroppedIs
  <2>4. Settles(k, {}, {})
    BY <1>5, <2>2, <2>3 DEF Settles, Leaves
  <2> QED
    BY <2>4 DEF Proceeds
<1> QED
  BY <1>4, <1>5

-----------------------------------------------------------------------------
(* The steps, action by action. *)

\* A step that leaves all flushes where they are.
LEMMA SteadyStill ==
  ASSUME UNCHANGED <<phase, todo>>, NEW k, NEW X
  PROVE  Steady(k, X)
BY DEF Steady

\* The steps of the workers.
LEMMA WorkProceeds ==
  ASSUME TypeOK, Mapped, Intact, OnePlace, NEW w \in Workers, Work(w), NEW k \in Receivers
  PROVE  Proceeds(k)
<1>1. UNCHANGED <<flusherVars, importing>> /\ UNCHANGED <<phase, todo>> /\ Unpaid
  BY DEF Work, flusherVars, Unpaid
<1>2. /\ <<"packet", w>> \in Place /\ <<"hand", w>> \in Place /\ <<"wm", w>> \in Place
      /\ <<"importChan", w>> \in Place /\ <<"chunk", w>> \in Place
  BY PlaceOf DEF ArePlaces
<1>3. /\ Whole(k, <<"packet", w>>) /\ Whole(k, <<"hand", w>>) /\ Whole(k, <<"wm", w>>)
      /\ Whole(k, <<"importChan", w>>) /\ Whole(k, <<"chunk", w>>)
  BY WholeWorker
<1>4. ASSUME NEW a \in Place, NEW b \in Place, NEW M, NEW D, Moves(a, b, M, D),
             Whole(k, a), Whole(k, b)
      PROVE  Leaves(k, D)
  BY Zenon, <1>1, <1>4, SteadyStill, WholeMoves
<1>5. CASE WorkPacket(w)
  <2>1. Leaves(k, {})
    BY <1>1, <1>2, <1>3, <1>4, <1>5, WorkPacketMoves
  <2>2. overwritten' = overwritten
    BY <1>5 DEF WorkPacket
  <2> QED
    BY <1>1, <2>1, <2>2, MovedSettles
<1>6. CASE ProcessMetric(w)
  <2>1. PICK over : Leaves(k, ValueTokens(over)) /\ overwritten' = overwritten \cup over
    BY <1>1, <1>2, <1>3, <1>4, <1>6, ProcessMetricMoves
  <2> QED
    BY <1>1, <2>1, UnpaidSettles
<1>7. CASE WorkImport(w)
  <2>1. Leaves(k, {})
    BY <1>1, <1>2, <1>3, <1>4, <1>7, WorkImportMoves
  <2>2. overwritten' = overwritten
    BY <1>7 DEF WorkImport
  <2> QED
    BY <1>1, <2>1, <2>2, MovedSettles
<1>8. CASE ImportMetric(w)
  <2>1. PICK over : Leaves(k, ValueTokens(over)) /\ overwritten' = overwritten \cup over
    BY <1>1, <1>2, <1>3, <1>4, <1>8, ImportMetricMoves
  <2> QED
    BY <1>1, <2>1, UnpaidSettles
<1> QED
  BY <1>5, <1>6, <1>7, <1>8 DEF Work, WorkStep

\* Worker.Flush.
LEMMA TallyProceeds ==
  ASSUME TypeOK, OnePlace, NEW s \in Servers, TallyWorker(s), UNCHANGED importing,
         NEW k \in Receivers
  PROVE  Proceeds(k)
<1>1. UNCHANGED <<phase, todo>> /\ Unpaid /\ overwritten' = overwritten
  BY DEF TallyWorker, FlushWorker, Unpaid
<1>2. PICK w \in Workers : \E M : Moves(<<"wm", w>>, <<"temp", s>>, M, {})
  BY Zenon, TallyWorkerMoves
<1>3. /\ <<"wm", w>> \in Place /\ <<"temp", s>> \in Place
      /\ Whole(k, <<"wm", w>>) /\ Whole(k, <<"temp", s>>)
  BY Zenon, PlaceOf, WholeWorker, WholePlaces DEF ArePlaces
<1>4. Leaves(k, {})
  BY Zenon, <1>1, <1>2, <1>3, SteadyStill, WholeMoves
<1> QED
  BY <1>1, <1>4, MovedSettles

\* What is due at k of the flush of s, before and after a step.
FlushDues(k, s) ==
  /\ Due[k][<<"final", s>>] = IF phase[s] = "sinks" /\ k \in todo[s] \cup Plugins
                                THEN Holding[<<"final", s>>] ELSE {}
  /\ Due'[k][<<"final", s>>] = IF phase'[s] = "sinks" /\ k \in todo'[s] \cup Plugins
                                 THEN Holding'[<<"final", s>>] ELSE {}
  /\ Due[k][<<"other", s>>] = IF phase[s] = "other" /\ k \in todo[s]
                                THEN Holding[<<"other", s>>] ELSE {}
  /\ Due'[k][<<"other", s>>] = IF phase'[s] = "other" /\ k \in todo'[s]
                                 THEN Holding'[<<"other", s>>] ELSE {}
  /\ Due[k][<<"samples", s>>] = IF k \in Sinks THEN Holding[<<"samples", s>>] ELSE {}
  /\ Due'[k][<<"samples", s>>] = IF k \in Sinks THEN Holding'[<<"samples", s>>] ELSE {}

\* By the kind of place.
LEMMA FlushDue == \A k \in Receivers, s \in Servers : FlushDues(k, s)
<1> SUFFICES ASSUME NEW k \in Receivers, NEW s \in Servers PROVE FlushDues(k, s)
  OBVIOUS
<1>1. /\ Due[k][<<"final", s>>] = IF phase[s] = "sinks" /\ k \in todo[s] \cup Plugins
                                    THEN Holding[<<"final", s>>] ELSE {}
      /\ Due[k][<<"other", s>>] = IF phase[s] = "other" /\ k \in todo[s]
                                    THEN Holding[<<"other", s>>] ELSE {}
      /\ Due[k][<<"samples", s>>] = IF k \in Sinks THEN Holding[<<"samples", s>>] ELSE {}
  BY Zenon, DueAt DEF DueKinds
<1>2. /\ Due'[k][<<"final", s>>] = IF phase'[s] = "sinks" /\ k \in todo'[s] \cup Plugins
                                     THEN Holding'[<<"final", s>>] ELSE {}
      /\ Due'[k][<<"other", s>>] = IF phase'[s] = "other" /\ k \in todo'[s]
                                     THEN Holding'[<<"other", s>>] ELSE {}
      /\ Due'[k][<<"samples", s>>] = IF k \in Sinks THEN Holding'[<<"samples", s>>] ELSE {}
  BY Zenon, DueNext DEF DueKinds
<1> QED
  BY Zenon, <1>1, <1>2 DEF FlushDues

\* generateInterMetrics, and the body to forward.
LEMMA GenerateProceeds ==
  ASSUME TypeOK, Mapped, OnePlace, NEW s \in Servers, Generate(s), UNCHANGED importing,
         NEW k \in Receivers
  PROVE  Proceeds(k)
<1> DEFINE a == <<"temp", s>>
           b == <<"final", s>>
<1>1. /\ Unpaid /\ overwritten' = overwritten /\ phase[s] = "tally"
      /\ phase'[s] = "sinks" \/ phase'[s] = "idle"
      /\ phase'[s] = "sinks" => todo'[s] = Sinks
      /\ \A x \in Servers : x # s => phase'[x] = phase[x] /\ todo'[x] = todo[x]
  BY Zenon DEF Generate, workerVars, Unpaid, TypeOK, FlusherTypeOK
<1>2. /\ Holding[b] = IF phase[s] = "sinks" THEN PointTokens(final[s]) ELSE {}
      /\ Holding'[b] = IF phase'[s] = "sinks" THEN PointTokens(final'[s]) ELSE {}
  BY Zenon, HeldAt, HeldNext DEF ServerHolding
<1>3. Whole(k, b)
  <2>1. k \in Sinks \cup Plugins
    BY DEF Receivers
  <2>2. CASE phase'[s] = "sinks"
    BY Zenon, <1>1, <1>2, <2>1, <2>2, FlushDue DEF Whole, FlushDues
  <2>3. CASE phase'[s] = "idle"
    BY Zenon, <1>1, <1>2, <2>3, FlushDue DEF Whole, FlushDues
  <2> QED
    BY <1>1, <2>2, <2>3
<1>4. a \in Place /\ b \in Place /\ Whole(k, a)
  BY Zenon, PlaceOf, WholePlaces DEF ArePlaces
<1>5. \A X : b \in X => Steady(k, X)
  BY <1>1 DEF Steady
<1>6. Leaves(k, {})
  <2>1. ASSUME NEW M, Moves(a, b, M, {}) PROVE Leaves(k, {})
    <3>1. Steady(k, {a, b})
      BY <1>5
    <3> HIDE DEF a, b
    <3> QED
      BY <1>3, <1>4, <2>1, <3>1, WholeMoves
  <2>2. ASSUME NEW g \in Posting, NEW M, NEW N, Splits(a, b, <<"forward", g>>, M, N)
        PROVE  Leaves(k, {})
    <3>1. /\ Steady(k, {a, b, <<"forward", g>>})
          /\ <<"forward", g>> \in Place /\ Whole(k, <<"forward", g>>)
      BY <1>5, PlaceOf, WholePlaces DEF ArePlaces
    <3> HIDE DEF a, b
    <3> QED
      BY <1>3, <1>4, <2>2, <3>1, WholeSplits
  <2> QED
    BY Zenon, <2>1, <2>2, GenerateMoves
<1> QED
  BY <1>1, <1>6, MovedSettles

\* EventWorker.Flush: the plugins get no events.
LEMMA FlushStartProceeds ==
  ASSUME TypeOK, OnePlace, NEW s \in Servers, FlushStart(s), UNCHANGED importing,
         NEW k \in Receivers
  PROVE  Proceeds(k)
<1> DEFINE a == <<"samples", s>>
           b == <<"other", s>>
<1>1. /\ Unpaid /\ overwritten' = overwritten /\ phase[s] = "idle" /\ todo'[s] = Sinks
      /\ phase'[s] = IF Sinks = {} THEN "tally" ELSE "other"
      /\ \A x \in Servers : x # s => phase'[x] = phase[x] /\ todo'[x] = todo[x]
  BY DEF FlushStart, workerVars, Unpaid, TypeOK, FlusherTypeOK
<1>2. a \in Place /\ b \in Place
  BY Zenon, PlaceOf DEF ArePlaces
<1>3. Steady(k, {a, b}) /\ (Sinks = {} => Steady(k, {a}))
  BY <1>1 DEF Steady
<1>4. Holding[b] = {}
  BY Zenon, <1>1, HeldAt DEF ServerHolding
<1>5. Leaves(k, {})
  <2>1. CASE k \in Sinks
    <3>1. Whole(k, a) /\ Whole(k, b)
      BY Zenon, <1>1, <1>4, <2>1, FlushDue DEF Whole, FlushDues
    <3>2. Moves(a, b, Holding[a], {})
      BY <2>1, FlushStartMoves
    <3> HIDE DEF a, b
    <3> QED
      BY <1>2, <1>3, <3>1, <3>2, WholeMoves
  <2>2. CASE k \notin Sinks
    <3>1. Closed(k, a) /\ Closed(k, b)
      BY Zenon, <1>1, <2>2, FlushDue DEF Closed, FlushDues
    <3>2. \/ Rest({a, b}) \/ (Sinks = {} /\ Rest({a}))
      BY Zenon, FlushStartMoves DEF Moves, Empties
    <3>3. (\A p \in {a, b} : Closed(k, p)) /\ (\A p \in {a} : Closed(k, p))
      BY <3>1
    <3> HIDE DEF a, b
    <3> QED
      BY <1>3, <3>2, <3>3, ClosedRest
  <2> QED
    BY <2>1, <2>2
<1> QED
  BY <1>1, <1>5, MovedSettles

\* FlushOtherSamples: one sink takes or loses the events, and has its copy.
LEMMA FlushOtherProceeds ==
  ASSUME TypeOK, OnePlace, NEW s \in Servers, FlushOtherSamples(s), UNCHANGED importing,
         NEW k \in Receivers
  PROVE  Proceeds(k)
<1> DEFINE a == <<"other", s>>
           T == EventTokens(other[s])
<1>1. PICK j \in todo[s] :
             /\ todo' = [todo EXCEPT ![s] = @ \ {j}]
             /\ phase' = [phase EXCEPT ![s] = IF todo[s] = {j} THEN "tally" ELSE "other"]
             /\ \E got \in {{}, T} : Give(j, T, got)
  BY Zenon DEF FlushOtherSamples
<1>2. /\ phase[s] = "other" /\ overwritten' = overwritten
  BY DEF FlushOtherSamples, workerVars
<1>3. /\ todo'[s] = todo[s] \ {j}
      /\ phase'[s] = IF todo[s] = {j} THEN "tally" ELSE "other"
      /\ \A x \in Servers : x # s => phase'[x] = phase[x] /\ todo'[x] = todo[x]
  BY <1>1 DEF TypeOK, FlusherTypeOK
<1>4. j \in Receivers /\ todo[s] \subseteq Sinks
  BY DEF TypeOK, FlusherTypeOK, Receivers
<1>5. a \in Place /\ Holding[a] = T
  BY Zenon, <1>2, PlaceOf, HeldAt DEF ServerHolding, ArePlaces
<1>6. Rest({a}) /\ (todo'[s] # {} => Rest({}))
  BY Zenon, FlushOtherMoves DEF Empties, Rest
<1>7. Steady(k, {a})
  BY <1>2, <1>3 DEF Steady
<1>8. Leaves(k, IF k = j THEN T ELSE {})
  <2>1. CASE k = j
    <3>1. Due[k][a] = T /\ Due'[k][a] = {}
      BY Zenon, <1>2, <1>3, <1>5, <2>1, FlushDue DEF FlushDues
    <3>2. DueRest(k, {a})
      BY <1>6, <1>7, DueStill
    <3> HIDE DEF a
    <3>3. Leaves(k, Due[k][a])
      BY <1>5, <3>1, <3>2, EmptiesLeave DEF DueEmpties
    <3> QED
      BY <2>1, <3>1, <3>3
  <2>2. CASE k # j /\ k \in todo[s]
    <3>1. todo'[s] # {} /\ Steady(k, {})
      BY <1>2, <1>3, <2>2 DEF Steady
    <3>2. DueRest(k, {})
      BY <1>6, <3>1, DueStill
    <3>3. Leaves(k, {})
      BY <3>2, RestLeaves
    <3> QED
      BY <2>2, <3>3
  <2>3. CASE k # j /\ k \notin todo[s]
    <3>1. Closed(k, a)
      BY Zenon, <1>3, <2>3, FlushDue DEF Closed, FlushDues
    <3>2. \A p \in {a} : Closed(k, p)
      BY <3>1
    <3> HIDE DEF a
    <3>3. Leaves(k, {})
      BY <1>6, <1>7, <3>2, ClosedRest
    <3> QED
      BY <2>3, <3>3
  <2> QED
    BY <2>1, <2>2, <2>3
<1>9. PICK got : got \subseteq T /\ Give(j, T, got)
  BY <1>1
<1> HIDE DEF T
<1> QED
  BY <1>2, <1>4, <1>8, <1>9, GiveSettles

\* MetricSink.Flush: one sink takes or loses the points.
LEMMA SinkProceeds ==
  ASSUME TypeOK, OnePlace, NEW s \in Servers, NEW j \in Sinks, SinkFlush(s, j),
         UNCHANGED importing, NEW k \in Receivers
  PROVE  Proceeds(k)
<1> DEFINE a == <<"final", s>>
           T == PointTokens(final[s])
<1>1. /\ phase[s] = "sinks" /\ phase' = phase /\ overwritten' = overwritten /\ j \in todo[s]
      /\ todo'[s] = todo[s] \ {j} /\ \A x \in Servers : x # s => todo'[x] = todo[x]
  BY DEF SinkFlush, workerVars, TypeOK, FlusherTypeOK
<1>2. j \in Receivers /\ j \notin Plugins
  BY SinkOrPlugin DEF Receivers
<1>3. a \in Place /\ Holding[a] = T
  BY Zenon, <1>1, PlaceOf, HeldAt DEF ServerHolding, ArePlaces
<1>4. Rest({}) /\ Rest({a})
  BY SinkFlushMoves DEF Rest
<1>5. Leaves(k, IF k = j THEN T ELSE {})
  <2>1. CASE k = j
    <3>1. Due[k][a] = T /\ Due'[k][a] = {}
      BY Zenon, <1>1, <1>2, <1>3, <2>1, FlushDue DEF FlushDues
    <3>2. Steady(k, {a})
      BY <1>1 DEF Steady
    <3>3. DueRest(k, {a})
      BY <1>4, <3>2, DueStill
    <3> HIDE DEF a
    <3>4. Leaves(k, Due[k][a])
      BY Zenon, <1>3, <3>1, <3>3, EmptiesLeave DEF DueEmpties
    <3> QED
      BY <2>1, <3>1, <3>4
  <2>2. CASE k # j
    <3>1. Steady(k, {})
      BY Zenon, <1>1, <2>2 DEF Steady
    <3>2. DueRest(k, {})
      BY <1>4, <3>1, DueStill
    <3>3. Leaves(k, {})
      BY <3>2, RestLeaves
    <3> QED
      BY <2>2, <3>3
  <2> QED
    BY <2>1, <2>2
<1>6. PICK got : got \subseteq T /\ Give(j, T, got)
  <2>1. \A ps \in SUBSET final[s] : PointTokens(ps) \subseteq T
    BY DEF PointTokens
  <2> QED
    BY Zenon, <2>1 DEF SinkFlush
<1> HIDE DEF T
<1> QED
  BY <1>1, <1>2, <1>5, <1>6, GiveSettles

-----------------------------------------------------------------------------
(* The end of a flush, the goroutines it leaves and the import. *)

\* What the goroutine of the plugins owes k.
LEMMA PostDue ==
  ASSUME NEW g \in Plugging, NEW k \in Receivers
  PROVE  /\ Due[k][<<"post", g>>] = IF k \in g.left THEN Holding[<<"post", g>>] ELSE {}
         /\ Due'[k][<<"post", g>>] = IF k \in g.left THEN Holding'[<<"post", g>>] ELSE {}
<1>1. Due[k][<<"post", g>>] = IF k \in g.left THEN Holding[<<"post", g>>] ELSE {}
  BY Zenon, DueAt DEF DueKinds
<1>2. Due'[k][<<"post", g>>] = IF k \in g.left THEN Holding'[<<"post", g>>] ELSE {}
  BY Zenon, DueNext DEF DueKinds
<1> QED
  BY <1>1, <1>2

\* The end of a flush: no sink is owed its points any more, and every plugin still is.
LEMMA FlushDoneProceeds ==
  ASSUME TypeOK, OnePlace, NEW s \in Servers, FlushDone(s), UNCHANGED importing,
         NEW k \in Receivers
  PROVE  Proceeds(k)
<1> DEFINE g == [points |-> final[s], left |-> Plugins]
           a == <<"final", s>>
           b == <<"post", g>>
<1>1. /\ Unpaid /\ overwritten' = overwritten /\ phase[s] = "sinks" /\ todo[s] = {} /\ todo' = todo
      /\ phase'[s] = "idle" /\ \A x \in Servers : x # s => phase'[x] = phase[x]
  BY Zenon DEF FlushDone, workerVars, Unpaid, TypeOK, FlusherTypeOK
<1>2. \/ Plugins # {} /\ g \in Plugging /\ Moves(a, b, Holding[a], {})
      \/ Plugins = {} /\ Rest({a})
  BY Zenon, FlushDoneMoves DEF Empties
<1>3. a \in Place /\ (g \in Plugging => b \in Place) /\ g.left = Plugins
  BY Zenon, PlaceOf DEF ArePlaces
<1>4. Steady(k, {a, b}) /\ Steady(k, {a})
  BY Zenon, <1>1 DEF Steady
<1>5. Holding'[a] = {}
  BY Zenon, <1>1, HeldNext DEF ServerHolding
<1> HIDE DEF g
<1>6. Leaves(k, {})
  <2>1. CASE k \in Plugins
    <3>1. g \in Plugging /\ Moves(a, b, Holding[a], {})
      BY <1>2, <2>1
    <3>2. Whole(k, a)
      BY Zenon, <1>1, <1>5, <2>1, FlushDue DEF Whole, FlushDues
    <3>3. Whole(k, b)
      BY <1>3, <2>1, <3>1, PostDue DEF Whole
    <3> HIDE DEF a, b
    <3> QED
      BY Zenon, <1>3, <1>4, <3>1, <3>2, <3>3, WholeMoves
  <2>2. CASE k \notin Plugins
    <3>1. Closed(k, a)
      BY Zenon, <1>1, <2>2, FlushDue DEF Closed, FlushDues
    <3>2. g \in Plugging => Closed(k, b)
      BY <1>3, <2>2, PostDue DEF Closed
    <3>3. (\A p \in {a} : Closed(k, p)) /\ (g \in Plugging => \A p \in {a, b} : Closed(k, p))
      BY <3>1, <3>2
    <3>4. (g \in Plugging /\ Rest({a, b})) \/ Rest({a})
      BY <1>2 DEF Moves
    <3> HIDE DEF a, b
    <3> QED
      BY <1>4, <3>3, <3>4, ClosedRest
  <2> QED
    BY <2>1, <2>2
<1> QED
  BY <1>1, <1>6, MovedSettles

\* The flusher stops.
LEMMA FlusherExitProceeds ==
  ASSUME TypeOK, NEW s \in Servers, FlusherExit(s), UNCHANGED importing, NEW k \in Receivers
  PROVE  Proceeds(k)
<1>1. /\ Unpaid /\ overwritten' = overwritten /\ phase[s] = "idle" /\ todo' = todo
      /\ phase'[s] = "exited" /\ \A x \in Servers : x # s => phase'[x] = phase[x]
  BY DEF FlusherExit, workerVars, Unpaid, TypeOK, FlusherTypeOK
<1>2. Steady(k, {}) /\ Rest({})
  BY Zenon, <1>1, FlusherExitMoves DEF Steady
<1>3. Leaves(k, {})
  BY <1>2, DueStill, RestLeaves
<1> QED
  BY <1>1, <1>3, MovedSettles

\* The steps of a flush.
LEMMA FlushProceeds ==
  ASSUME TypeOK, Mapped, OnePlace, NEW s \in Servers, FlushLoop(s), NEW k \in Receivers
  PROVE  Proceeds(k)
BY FlushStartProceeds, FlushOtherProceeds, TallyProceeds, GenerateProceeds, FlushDoneProceeds,
   FlusherExitProceeds DEF FlushLoop, FlushStep

\* Plugin.Flush: one plugin takes or loses the points.
LEMMA PluginProceeds ==
  ASSUME TypeOK, OnePlace, NEW g \in posts, PluginFlush(g), UNCHANGED importing,
         NEW k \in Receivers
  PROVE  Proceeds(k)
<1> DEFINE T == PointTokens(g.points)
<1>1. PICK j \in g.left, got \in {{}, T} : Serves(g, j) /\ Give(j, T, got)
  BY Zenon, PluginStep
<1> DEFINE h == NextPlugin(g, j)
           a == <<"post", g>>
           b == <<"post", h>>
<1>2. g \in Plugging /\ h \in Plugging /\ h.left = g.left \ {j} /\ j \in Receivers
  BY DEF TypeOK, FlusherTypeOK, Plugging, NextPlugin, Receivers
<1>3. a \in Place /\ b \in Place /\ Holding[a] = T
  BY Zenon, <1>2, PlaceOf, HeldAt DEF GoroutineHolding, ArePlaces
<1>4. \/ g.left # {j} /\ Moves(a, b, Holding[a], {})
      \/ g.left = {j} /\ Empties(a)
  BY Zenon, <1>1, PluginFlushMoves
<1>5. \A X : Steady(k, X)
  BY Zenon, <1>1, SteadyStill DEF Serves
<1>6. overwritten' = overwritten
  BY <1>1 DEF Serves, workerVars
<1> HIDE DEF h, T
<1>7. Holding'[a] = {} /\ (Rest({a, b}) \/ Rest({a}))
  BY <1>4 DEF Moves, Empties
<1>8. Leaves(k, IF k = j THEN T ELSE {})
  <2>1. CASE k = j
    <3>1. Due[k][a] = T /\ Due'[k][a] = {} /\ Due[k][b] = {} /\ Due'[k][b] = {}
      BY <1>2, <1>3, <1>7, <2>1, PostDue
    <3>2. DueRest(k, {a, b}) \/ DueRest(k, {a})
      BY <1>5, <1>7, DueStill
    <3>3. DueRest(k, {a})
      BY Zenon, <3>1, <3>2 DEF DueRest
    <3> HIDE DEF a
    <3>4. Leaves(k, Due[k][a])
      BY <1>3, <3>1, <3>3, EmptiesLeave DEF DueEmpties
    <3> QED
      BY <2>1, <3>1, <3>4
  <2>2. CASE k # j /\ k \in g.left
    <3>1. Whole(k, a) /\ Whole(k, b) /\ Moves(a, b, Holding[a], {})
      BY Zenon, <1>2, <1>4, <2>2, PostDue DEF Whole
    <3> HIDE DEF a, b
    <3>2. Leaves(k, {})
      BY Zenon, <1>3, <1>5, <3>1, WholeMoves
    <3> QED
      BY <2>2, <3>2
  <2>3. CASE k # j /\ k \notin g.left
    <3>1. Closed(k, a) /\ Closed(k, b)
      BY <1>2, <2>3, PostDue DEF Closed
    <3>2. (\A p \in {a, b} : Closed(k, p)) /\ (\A p \in {a} : Closed(k, p))
      BY <3>1
    <3> HIDE DEF a, b
    <3>3. Leaves(k, {})
      BY <1>5, <1>7, <3>2, ClosedRest
    <3> QED
      BY <2>3, <3>3
  <2> QED
    BY <2>1, <2>2, <2>3
<1>9. got \subseteq T
  OBVIOUS
<1> QED
  BY <1>1, <1>2, <1>6, <1>8, <1>9, GiveSettles

\* flushForward: the body arrives, or is lost to every receiver.
LEMMA PostProceeds ==
  ASSUME TypeOK, LocalForwards, OnePlace, Post, NEW k \in Receivers
  PROVE  Proceeds(k)
<1>1. PICK g \in forwards : PostForward(g) \/ PostFails(g)
  BY DEF Post
<1> DEFINE a == <<"forward", g>>
<1>2. g \in Posting /\ a \in Place /\ Whole(k, a)
  BY Zenon, PlaceOf, WholePlaces DEF TypeOK, FlusherTypeOK, Posting, ArePlaces
<1>3. UNCHANGED <<phase, todo, delivered, overwritten>>
  BY <1>1 DEF PostForward, PostFails, workerVars
<1>4. \A X : Steady(k, X)
  BY <1>3, SteadyStill
<1>5. CASE PostForward(g)
  <2>1. PICK h \in Receiving : \E M : Moves(a, <<"import", h>>, M, {})
    BY <1>5, PostForwardMoves
  <2>2. <<"import", h>> \in Place /\ Whole(k, <<"import", h>>)
    BY PlaceOf, WholePlaces DEF ArePlaces
  <2> HIDE DEF a
  <2>3. Leaves(k, {})
    BY Zenon, <1>2, <1>4, <2>1, <2>2, WholeMoves
  <2>4. Unpaid
    BY Zenon, <1>3, <1>5 DEF PostForward, Unpaid
  <2> QED
    BY <1>3, <2>3, <2>4, MovedSettles
<1>6. CASE PostFails(g)
  <2>1. Empties(a) /\ lost' = [x \in Receivers |-> lost[x] \cup Holding[a]]
    BY <1>6, PostFailsMoves
  <2> HIDE DEF a
  <2>2. DueEmpties(k, a) /\ Due[k][a] = Holding[a]
    BY Zenon, <1>2, <1>4, <2>1, DueStill DEF Empties, DueEmpties, Whole
  <2>3. Leaves(k, Holding[a])
    BY <1>2, <2>2, EmptiesLeave
  <2>4. Dropped'[k] = Dropped[k] \cup Holding[a]
    BY <1>3, <2>1, DroppedIs
  <2>5. \A t \in Token : delivered[k][t] \in Nat
    BY DEF TypeOK, FlusherTypeOK
  <2>6. Settles(k, Holding[a], {})
    BY <1>3, <2>3, <2>4, <2>5 DEF Settles, Leaves
  <2> QED
    BY <2>6 DEF Proceeds
<1> QED
  BY <1>1, <1>5, <1>6

\* ImportMetrics.
LEMMA ImportProceeds ==
  ASSUME TypeOK, Mapped, Intact, OnePlace, NEW g \in importing, ImportMetrics(g),
         NEW k \in Receivers
  PROVE  Proceeds(k)
<1> DEFINE a == <<"import", g>>
<1>1. UNCHANGED <<phase, todo>> /\ Unpaid /\ overwritten' = overwritten
  BY DEF ImportMetrics, SendImport, flusherVars, Unpaid
<1>2. a \in Place /\ Whole(k, a)
  BY PlaceOf, WholePlaces DEF TypeOK, Receiving, ArePlaces
<1>3. PICK v \in Workers :
             \/ \E M : Moves(a, <<"importChan", v>>, M, {})
             \/ \E h \in Receiving : \E M, N :
                  Splits(a, <<"import", h>>, <<"importChan", v>>, M, N)
  BY Zenon, ImportMetricsMoves
<1>4. <<"importChan", v>> \in Place /\ Whole(k, <<"importChan", v>>)
  BY Zenon, PlaceOf, WholeWorker DEF ArePlaces
<1>5. \A h \in Receiving : <<"import", h>> \in Place /\ Whole(k, <<"import", h>>)
  BY Zenon, PlaceOf, WholePlaces DEF ArePlaces
<1>6. \A X : Steady(k, X)
  BY <1>1, SteadyStill
<1> HIDE DEF a
<1>7. Leaves(k, {})
  BY Zenon, <1>2, <1>3, <1>4, <1>5, <1>6, WholeMoves, WholeSplits
<1> QED
  BY <1>1, <1>7, MovedSettles

\* A step that takes nothing in settles some of what is open, or nothing.
LEMMA StepProceeds ==
  ASSUME TypeOK, LocalForwards, Mapped, Intact, OnePlace, [Next]_vars, ~Ingest,
         NEW k \in Receivers
  PROVE  Proceeds(k)
<1>1. ASSUME NEW w \in Workers, Work(w) PROVE Proceeds(k)
  BY <1>1, WorkProceeds
<1>2. ASSUME NEW s \in Servers, FlushLoop(s) PROVE Proceeds(k)
  BY <1>2, FlushProceeds
<1>3. ASSUME NEW s \in Servers, NEW j \in Sinks, Sink(s, j) PROVE Proceeds(k)
  BY <1>3, SinkProceeds DEF Sink
<1>4. CASE Plugin
  BY <1>4, PluginProceeds DEF Plugin
<1>5. CASE Post
  BY <1>5, PostProceeds
<1>6. ASSUME NEW g \in importing, Import(g) PROVE Proceeds(k)
  BY <1>6, ImportProceeds DEF Import
<1>7. CASE Stop \/ UNCHANGED vars
  <2>1. Touches({}) /\ UNCHANGED <<phase, todo>> /\ Unpaid /\ overwritten' = overwritten
    BY Zenon, <1>7 DEF Stop, Shutdown, Touches, vars, workerVars, flusherVars, Unpaid
  <2>2. Rest({}) /\ Steady(k, {})
    BY <2>1, Elsewhere, SteadyStill DEF Rest
  <2>3. Leaves(k, {})
    BY <2>2, DueStill, RestLeaves
  <2> QED
    BY <2>1, <2>3, MovedSettles
<1> QED
  BY <1>1, <1>2, <1>3, <1>4, <1>5, <1>6, <1>7 DEF Next

-----------------------------------------------------------------------------
(* Clients. *)

\* What is new at a place is en route.
LEMMA AddsOpen ==
  ASSUME NEW k \in Receivers, NEW a \in Place, NEW N, Adds(a, N), UNCHANGED <<phase, todo>>
  PROVE  /\ Whole(k, a) => EnRouteTo'[k] = EnRouteTo[k] \cup N
         /\ Closed(k, a) => EnRouteTo'[k] = EnRouteTo[k]
<1>1. Holding'[a] = Holding[a] \cup N /\ Rest({a})
  BY DEF Adds
<1>2. \A p \in Place : p = a \/ Due'[k][p] = Due[k][p]
  <2>1. Steady(k, {a})
    BY Zenon, SteadyStill
  <2>2. DueRest(k, {a})
    BY Zenon, <1>1, <2>1, DueStill
  <2> QED
    BY Zenon, <2>2 DEF DueRest
<1>3. Whole(k, a) => Due'[k][a] = Due[k][a] \cup N
  BY <1>1 DEF Whole
<1>4. Closed(k, a) => Due'[k][a] = Due[k][a]
  BY DEF Closed
<1>5. Whole(k, a) => \A t : (\E p \in Place : t \in Due'[k][p]) <=>
                              t \in N \/ \E p \in Place : t \in Due[k][p]
  BY Zenon, <1>2, <1>3
<1>6. Closed(k, a) => \A t : (\E p \in Place : t \in Due'[k][p]) <=> \E p \in Place : t \in Due[k][p]
  BY <1>2, <1>4
<1> QED
  BY Zenon, <1>5, <1>6, EnRouteIn

\* HandleMetricPacket opens the facets of a new sample.
LEMMA MetricAccepted ==
  ASSUME TypeOK, NEW s \in Servers, NEW m \in Metrics, HandleMetricPacket(s, m),
         UNCHANGED <<flusherVars, importing>>
  PROVE  /\ Seen \cup TokensOf(m) \subseteq Seen'
         /\ \A k \in Receivers : Accepts(k, TokensOf(m))
<1>1. PICK v \in Workers : Adds(<<"packet", v>>, TokensOf(m))
  BY MetricPacketMoves
<1>2. /\ m \notin AllAccepted /\ accepted' = [accepted EXCEPT ![s] = @ \cup {m}]
      /\ overwritten' = overwritten
  BY DEF HandleMetricPacket
<1>3. /\ UNCHANGED <<phase, todo, delivered, lost>>
      /\ events' = events /\ AllAccepted' = AllAccepted \cup {m}
  BY <1>2 DEF flusherVars, AllAccepted, TypeOK, WorkerTypeOK
<1>4. \A t \in TokensOf(m) : t \in Token /\ t[1] # "event" /\ t[2] = m
  BY DEF TokensOf, Facets, Token
<1>5. /\ TokensOf(m) \subseteq Token /\ TokensOf(m) \cap Seen = {}
      /\ Seen \cup TokensOf(m) \subseteq Seen'
  BY <1>2, <1>3, <1>4 DEF Seen
<1>6. ASSUME NEW k \in Receivers PROVE Accepts(k, TokensOf(m))
  <2>1. <<"packet", v>> \in Place /\ Whole(k, <<"packet", v>>)
    BY Zenon, PlaceOf, WholeWorker DEF ArePlaces
  <2>2. EnRouteTo'[k] = EnRouteTo[k] \cup TokensOf(m)
    BY Zenon, <1>1, <1>3, <2>1, AddsOpen
  <2>3. Dropped'[k] = Dropped[k]
    BY Zenon, <1>2, <1>3, DroppedIs
  <2> QED
    BY Zenon, <1>3, <1>5, <2>2, <2>3 DEF Accepts
<1> QED
  BY <1>5, <1>6

\* An event is opened towards the sinks.
LEMMA EventAccepted ==
  ASSUME TypeOK, NEW s \in Servers, NEW e \in Events, HandleEventPacket(s, e), UNCHANGED importing
  PROVE  /\ Seen \cup {<<"event", e>>} \subseteq Seen'
         /\ \A k \in Receivers : Accepts(k, IF k \in Sinks THEN {<<"event", e>>} ELSE {})
<1> DEFINE N == {<<"event", e>>}
           a == <<"samples", s>>
<1>1. Adds(a, N)
  BY EventPacketMoves
<1>2. /\ UNCHANGED <<phase, todo, delivered, lost, overwritten>>
      /\ e \notin events /\ events' = events \cup {e} /\ AllAccepted' = AllAccepted
  BY Zenon DEF HandleEventPacket, workerVars, AllAccepted
<1>3. N \subseteq Token /\ N \cap Seen = {} /\ Seen \cup N \subseteq Seen'
  BY <1>2 DEF Seen, Token
<1> HIDE DEF N
<1>4. ASSUME NEW k \in Receivers PROVE Accepts(k, IF k \in Sinks THEN N ELSE {})
  <2>1. Dropped'[k] = Dropped[k]
    BY Zenon, <1>2, DroppedIs
  <2>2. a \in Place /\ (k \in Sinks => Whole(k, a)) /\ (k \notin Sinks => Closed(k, a))
    BY Zenon, PlaceOf, FlushDue DEF Whole, Closed, ArePlaces, FlushDues
  <2>3. EnRouteTo'[k] = IF k \in Sinks THEN EnRouteTo[k] \cup N ELSE EnRouteTo[k]
    <3> HIDE DEF a
    <3> QED
      BY Zenon, <1>1, <1>2, <2>2, AddsOpen
  <2>4. CASE k \in Sinks
    BY <1>2, <1>3, <2>1, <2>3, <2>4 DEF Accepts
  <2>5. CASE k \notin Sinks
    <3>1. EnRouteTo'[k] = EnRouteTo[k] \cup {} /\ {} \subseteq Token /\ {} \cap Seen = {}
      BY <2>3, <2>5
    <3>2. Accepts(k, {})
      BY Zenon, <1>2, <2>1, <3>1 DEF Accepts
    <3> QED
      BY <2>5, <3>2
  <2> QED
    BY <2>4, <2>5
<1> QED
  BY <1>3, <1>4 DEF N

-----------------------------------------------------------------------------
(* The accounts. *)

\* Every step is a step of the accounting, and keeps the books.
LEMMA BooksStep ==
  ASSUME TypeOK, TypeOK', LocalForwards, Mapped, Intact, OnePlace, Books, [Next]_vars
  PROVE  AccountingStep /\ Books'
<1>1. CASE ~Ingest
  <2>1. Seen' = Seen
    BY <1>1, NoneTakenIn DEF Seen, AllAccepted
  <2>2. ASSUME NEW k \in Receivers PROVE \E T, got : Settles(k, T, got)
    BY <1>1, StepProceeds DEF Proceeds
  <2>3. Books'
    BY Zenon, <2>1, <2>2, SettleBooks DEF Books
  <2>4. \A k \in Receivers : A(k)!Settle
    BY <2>2, SettleRefines
  <2> QED
    BY <2>3, <2>4 DEF AccountingStep, A!Next
<1>2. CASE Ingest
  <2>1. ASSUME NEW k \in Receivers
        PROVE  \E N : Accepts(k, N) /\ Seen \cup N \subseteq Seen'
    <3>1. ASSUME NEW s \in Servers, NEW m \in Metrics, HandleMetricPacket(s, m),
                 UNCHANGED <<flusherVars, importing>>
          PROVE  \E N : Accepts(k, N) /\ Seen \cup N \subseteq Seen'
      BY <3>1, MetricAccepted
    <3>2. ASSUME NEW s \in Servers, NEW e \in Events, HandleEventPacket(s, e), UNCHANGED importing
          PROVE  \E N : Accepts(k, N) /\ Seen \cup N \subseteq Seen'
      <4> DEFINE N == IF k \in Sinks THEN {<<"event", e>>} ELSE {}
      <4>1. Accepts(k, N) /\ Seen \cup N \subseteq Seen'
        BY Zenon, <3>2, EventAccepted
      <4> QED
        BY <4>1
    <3> QED
      BY <1>2, <3>1, <3>2 DEF Ingest
  <2>2. Books'
    BY Zenon, <2>1, AcceptBooks DEF Books
  <2>3. \A k \in Receivers : A(k)!Accept
    BY <2>1, AcceptRefines
  <2> QED
    BY <2>2, <2>3 DEF AccountingStep, A!Next
<1> QED
  BY <1>1, <1>2

\* The inductive invariant of the refinement.
Conserved == Intact /\ OnePlace /\ Known /\ Books

\* At the start there is nothing anywhere.
LEMMA InitConserved == Init => AccountingInit /\ Conserved
<1> SUFFICES ASSUME Init PROVE AccountingInit /\ Conserved
  OBVIOUS
<1>0. TypeOK
  BY InitType
<1>1. /\ \A w \in Workers : /\ packetChan[w] = <<>> /\ importChan[w] = <<>>
                            /\ hand[w] = {} /\ chunk[w] = {} /\ wm[w] = {}
      /\ \A s \in Servers : temp[s] = <<>> /\ phase[s] = "idle" /\ samples[s] = {}
      /\ forwards = {} /\ importing = {} /\ posts = {}
  BY DEF Init, WorkerInit, FlusherInit, NewWorkerMetrics
<1>2. /\ Elements(<<>>) = {} /\ QueueTokens({}) = {} /\ EntryTokens({}) = {}
      /\ ValueTokens(AllOf({})) = {} /\ EventTokens({}) = {}
  <2>1. Elements(<<>>) = {}
    BY DEF Elements
  <2>2. QueueTokens({}) = {} /\ EventTokens({}) = {}
    BY DEF QueueTokens, EventTokens
  <2>3. ValueTokens(AllOf({})) = {}
    BY NoTokens, ValueTokensIn
  <2> QED
    BY <2>1, <2>2, <2>3, NoTokens
<1>3. ASSUME NEW w \in Workers
      PROVE  /\ Holding[<<"packet", w>>] = {} /\ Holding[<<"hand", w>>] = {} /\ Holding[<<"wm", w>>] = {}
             /\ Holding[<<"importChan", w>>] = {} /\ Holding[<<"chunk", w>>] = {}
  <2>1. InChan(w) = {}
    BY Zenon, <1>1, <1>2 DEF InChan
  <2> QED
    BY Zenon, <1>1, <1>2, <2>1, HeldAt DEF WorkerHolding
<1>4. ASSUME NEW s \in Servers
      PROVE  /\ Holding[<<"temp", s>>] = {} /\ Holding[<<"final", s>>] = {}
             /\ Holding[<<"samples", s>>] = {} /\ Holding[<<"other", s>>] = {}
  <2>1. TempEntries(s) = {}
    BY <1>1 DEF TempEntries
  <2> QED
    BY Zenon, <1>1, <1>2, <2>1, HeldAt DEF ServerHolding
<1>5. /\ \A g \in Posting : Holding[<<"forward", g>>] = {}
      /\ \A g \in Receiving : Holding[<<"import", g>>] = {}
      /\ \A g \in Plugging : Holding[<<"post", g>>] = {}
  BY Zenon, <1>1, HeldAt DEF GoroutineHolding
<1>6. \A p \in Place : Holding[p] = {}
  BY Zenon, <1>3, <1>4, <1>5, PlaceKinds DEF PlaceKind
<1>7. OnePlace /\ Known
  BY <1>6 DEF OnePlace, Known
<1>8. Intact
  <2>1. \A w \in Workers : NoRepeat(packetChan[w]) /\ Apart(importChan[w])
    BY <1>1 DEF NoRepeat, Apart
  <2>2. \A w \in Workers : hand[w] = {} /\ OneEach(chunk[w])
    BY <1>1 DEF OneEach
  <2> QED
    BY Zenon, <1>1, <2>1, <2>2 DEF Intact
<1>9. ASSUME NEW k \in Receivers
      PROVE  /\ EnRouteTo[k] = {} /\ Dropped[k] = {} /\ delivered[k] = [t \in Token |-> 0]
             /\ lost[k] \cup ValueTokens(overwritten) = {}
  <2>1. \A p \in Place : Due[k][p] = {}
    BY <1>6 DEF Due
  <2>2. lost[k] = {} /\ overwritten = {} /\ delivered[k] = [t \in Token |-> 0]
    BY DEF Init, WorkerInit, FlusherInit
  <2>3. ValueTokens({}) = {}
    BY ValueTokensIn
  <2> QED
    BY Zenon, <2>1, <2>2, <2>3, EnRouteIn DEF Dropped
<1>10. Books
  BY <1>9 DEF Books, Balanced
<1>11. AccountingInit
  <2> SUFFICES ASSUME NEW k \in Receivers PROVE A(k)!Init
    BY DEF AccountingInit
  <2>1. EnRoute(k) = {}
    BY Zenon, <1>0, <1>9, EnRouteIs DEF EnRoutePlaces
  <2> QED
    BY Zenon, <1>9, <2>1 DEF A!Init
<1> QED
  BY <1>7, <1>8, <1>10, <1>11 DEF Conserved

\* Towards every sink and plugin, no facet of a sample is delivered twice, and one that
\* is still on its way or was dropped has not been delivered.
AccountedOnce == \A k \in Receivers : A(k)!ExactlyOnce

\* The inductive invariant holds, and every step is a step of the accounting.
LEMMA ConservedAlways == Spec => [](Conserved /\ TypeOK) /\ [][AccountingStep]_vars
<1>1. Init => Conserved
  BY InitConserved
<1>2. /\ TypeOK /\ TypeOK' /\ LocalForwards /\ Mapped /\ SeriesOncePerFlush /\ Conserved
      /\ [Next]_vars
      => Conserved' /\ AccountingStep
  BY PlacesStep, IntactStep, BooksStep DEF Conserved
<1> QED
  BY <1>1, <1>2, TypeCorrect, LocalForwardsAlways, MappedAlways, SeriesOnce, PTL DEF Spec

\* The metric path implements the accounting towards every sink and plugin, for every
\* tree of servers, every number of workers, sinks and plugins and all samples.
THEOREM AccountingImplemented == Spec => ImplementsAccounting
<1>1. Init => AccountingInit
  BY InitConserved
<1> QED
  BY <1>1, ConservedAlways, PTL DEF Spec, ImplementsAccounting

\* Towards every sink and plugin of every server, no facet of a sample or event is ever
\* published twice, and none that is on its way or was dropped has been published: what
\* Flush, flushForward, ImportMetrics and the sinks do amounts to exactly once or dropped.
THEOREM FleetAccountedOnce == Spec => []AccountedOnce
<1>1. Conserved /\ TypeOK => AccountedOnce
  <2> SUFFICES ASSUME Conserved, TypeOK, NEW k \in Receivers PROVE A(k)!ExactlyOnce
    BY DEF AccountedOnce
  <2>1. EnRoute(k) = EnRouteTo[k] /\ lost[k] \cup ValueTokens(overwritten) = Dropped[k]
    BY EnRouteIs DEF EnRoutePlaces, Dropped
  <2> QED
    BY Zenon, <2>1 DEF A!ExactlyOnce, Conserved, Books, Balanced
<1> QED
  BY <1>1, ConservedAlways, PTL
=============================================================================
