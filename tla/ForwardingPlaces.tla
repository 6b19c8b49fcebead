-------------------------- MODULE ForwardingPlaces --------------------------
(***************************************************************************)
(* Where the facets of a sample can be: in a channel, a sampler, a          *)
(* forwarded body, an import, the points of a flush or of a plugin          *)
(* goroutine.  The invariants that say a facet is in one place and once     *)
(* there, and EnRoute of Forwarding as the union of what the places hold    *)
(* for a receiver.                                                          *)
(***************************************************************************)
EXTENDS ForwardingTypes

QueueTokens(ms) == UNION {TokensOf(m) : m \in ms}
EntryTokens(es) == ValueTokens(AllOf(es)) \cup ({"aggregate"} \X OwnOf(es))
InChan(w) == UNION Elements(importChan[w])

Place ==
  ({"packet", "hand", "wm", "importChan", "chunk"} \X Workers)
    \cup ({"temp", "final", "samples", "other"} \X Servers)
    \cup ({"forward"} \X [from : Servers, body : SUBSET JSONMetric])
    \cup ({"import"} \X [at : Servers, rest : SUBSET JSONMetric])
    \cup ({"post"} \X [points : SUBSET Points, left : SUBSET Plugins])

\* The tokens at a place.
Held(p) ==
  (IF p[1] = "packet" THEN QueueTokens(Elements(packetChan[p[2]])) ELSE {})
    \cup (IF p[1] = "hand" THEN QueueTokens(hand[p[2]]) ELSE {})
    \cup (IF p[1] = "wm" THEN EntryTokens(wm[p[2]]) ELSE {})
    \cup (IF p[1] = "temp" THEN EntryTokens(TempEntries(p[2])) ELSE {})
    \cup (IF p[1] = "forward" /\ p[2] \in forwards THEN ValueTokens(AllOf(p[2].body)) ELSE {})
    \cup (IF p[1] = "import" /\ p[2] \in importing THEN ValueTokens(AllOf(p[2].rest)) ELSE {})
    \cup (IF p[1] = "importChan" THEN ValueTokens(AllOf(InChan(p[2]))) ELSE {})
    \cup (IF p[1] = "chunk" THEN ValueTokens(AllOf(chunk[p[2]])) ELSE {})
    \cup (IF p[1] = "final" /\ phase[p[2]] = "sinks" THEN PointTokens(final[p[2]]) ELSE {})
    \cup (IF p[1] = "post" /\ p[2] \in posts THEN PointTokens(p[2].points) ELSE {})
    \cup (IF p[1] = "samples" THEN EventTokens(samples[p[2]]) ELSE {})
    \cup (IF p[1] = "other" /\ phase[p[2]] = "other" THEN EventTokens(other[p[2]]) ELSE {})

Holding == [p \in Place |-> Held(p)]

\* No facet of a sample is in two places.
OnePlace == \A p, q \in Place : p # q => Holding[p] \cap Holding[q] = {}

Posting   == [from : Servers, body : SUBSET JSONMetric]
Receiving == [at : Servers, rest : SUBSET JSONMetric]
Plugging  == [points : SUBSET Points, left : SUBSET Plugins]

\* The kinds of place, and that every one of them is a place.
PlaceKind(p) ==
  \/ \E w \in Workers : p \in {<<"packet", w>>, <<"hand", w>>, <<"wm", w>>,
                               <<"importChan", w>>, <<"chunk", w>>}
  \/ \E s \in Servers : p \in {<<"temp", s>>, <<"final", s>>, <<"samples", s>>, <<"other", s>>}
  \/ \E g \in Posting : p = <<"forward", g>>
  \/ \E g \in Receiving : p = <<"import", g>>
  \/ \E g \in Plugging : p = <<"post", g>>

\* Every place is of one of the kinds.
LEMMA PlaceKinds == \A p \in Place : PlaceKind(p)
BY DEF Place, PlaceKind, Posting, Receiving, Plugging

ArePlaces ==
  /\ \A w \in Workers : /\ <<"packet", w>> \in Place /\ <<"hand", w>> \in Place
                        /\ <<"wm", w>> \in Place
                        /\ <<"importChan", w>> \in Place /\ <<"chunk", w>> \in Place
  /\ \A s \in Servers : /\ <<"temp", s>> \in Place /\ <<"final", s>> \in Place
                        /\ <<"samples", s>> \in Place /\ <<"other", s>> \in Place
  /\ \A g \in Posting : <<"forward", g>> \in Place
  /\ \A g \in Receiving : <<"import", g>> \in Place
  /\ \A g \in Plugging : <<"post", g>> \in Place

\* Every one of them is a place.
LEMMA PlaceOf == ArePlaces
<1>1. \A w \in Workers : /\ <<"packet", w>> \in Place /\ <<"hand", w>> \in Place
                         /\ <<"wm", w>> \in Place
                         /\ <<"importChan", w>> \in Place /\ <<"chunk", w>> \in Place
  BY DEF Place
<1>2. \A s \in Servers : /\ <<"temp", s>> \in Place /\ <<"final", s>> \in Place
                         /\ <<"samples", s>> \in Place /\ <<"other", s>> \in Place
  BY DEF Place
<1>3. /\ \A g \in Posting : <<"forward", g>> \in Place
      /\ \A g \in Receiving : <<"import", g>> \in Place
      /\ \A g \in Plugging : <<"post", g>> \in Place
  BY DEF Place, Posting, Receiving, Plugging
<1> QED
  BY <1>1, <1>2, <1>3 DEF ArePlaces

WorkerHolding ==
  \A w \in Workers :
    /\ Holding[<<"packet", w>>] = QueueTokens(Elements(packetChan[w]))
    /\ Holding[<<"hand", w>>] = QueueTokens(hand[w])
    /\ Holding[<<"wm", w>>] = EntryTokens(wm[w])
    /\ Holding[<<"importChan", w>>] = ValueTokens(AllOf(InChan(w)))
    /\ Holding[<<"chunk", w>>] = ValueTokens(AllOf(chunk[w]))

ServerHolding ==
  \A s \in Servers :
    /\ Holding[<<"temp", s>>] = EntryTokens(TempEntries(s))
    /\ Holding[<<"final", s>>] = IF phase[s] = "sinks" THEN PointTokens(final[s]) ELSE {}
    /\ Holding[<<"samples", s>>] = EventTokens(samples[s])
    /\ Holding[<<"other", s>>] = IF phase[s] = "other" THEN EventTokens(other[s]) ELSE {}

GoroutineHolding ==
  /\ \A g \in Posting :
       Holding[<<"forward", g>>] = IF g \in forwards THEN ValueTokens(AllOf(g.body)) ELSE {}
  /\ \A g \in Receiving :
       Holding[<<"import", g>>] = IF g \in importing THEN ValueTokens(AllOf(g.rest)) ELSE {}
  /\ \A g \in Plugging :
       Holding[<<"post", g>>] = IF g \in posts THEN PointTokens(g.points) ELSE {}

\* What each place holds, from the variable behind it.
LEMMA HeldAt == WorkerHolding /\ ServerHolding /\ GoroutineHolding
<1>0. \A p \in Place : Holding[p] = Held(p)
  BY DEF Holding
<1>1. WorkerHolding
  <2> SUFFICES ASSUME NEW w \in Workers
               PROVE  /\ Held(<<"packet", w>>) = QueueTokens(Elements(packetChan[w]))
                      /\ Held(<<"hand", w>>) = QueueTokens(hand[w])
                      /\ Held(<<"wm", w>>) = EntryTokens(wm[w])
                      /\ Held(<<"importChan", w>>) = ValueTokens(AllOf(InChan(w)))
                      /\ Held(<<"chunk", w>>) = ValueTokens(AllOf(chunk[w]))
    BY Zenon, <1>0, PlaceOf DEF WorkerHolding, ArePlaces
  <2> QED
    BY DEF Held
<1>2. ServerHolding
  <2> SUFFICES ASSUME NEW s \in Servers
               PROVE  /\ Held(<<"temp", s>>) = EntryTokens(TempEntries(s))
                      /\ Held(<<"final", s>>) = IF phase[s] = "sinks" THEN PointTokens(final[s])
                                                                     ELSE {}
                      /\ Held(<<"samples", s>>) = EventTokens(samples[s])
                      /\ Held(<<"other", s>>) = IF phase[s] = "other" THEN EventTokens(other[s])
                                                                     ELSE {}
    BY Zenon, <1>0, PlaceOf DEF ServerHolding, ArePlaces
  <2> QED
    BY DEF Held
<1>3. GoroutineHolding
  <2> SUFFICES ASSUME NEW g
               PROVE  /\ Held(<<"forward", g>>) = IF g \in forwards
                                                    THEN ValueTokens(AllOf(g.body)) ELSE {}
                      /\ Held(<<"import", g>>) = IF g \in importing
                                                   THEN ValueTokens(AllOf(g.rest)) ELSE {}
                      /\ Held(<<"post", g>>) = IF g \in posts THEN PointTokens(g.points) ELSE {}
    BY Zenon, <1>0, PlaceOf DEF GoroutineHolding, ArePlaces
  <2> QED
    BY DEF Held
<1> QED
  BY <1>1, <1>2, <1>3

\* The same after a step.
LEMMA HeldNext == WorkerHolding' /\ ServerHolding' /\ GoroutineHolding'
BY HeldAt, PTL

\* A step changes no variable but those behind the places X.
Touches(X) ==
  /\ \A w \in Workers :
       /\ <<"packet", w>> \in X \/ packetChan'[w] = packetChan[w]
       /\ <<"hand", w>> \in X \/ hand'[w] = hand[w]
       /\ <<"wm", w>> \in X \/ wm'[w] = wm[w]
       /\ <<"importChan", w>> \in X \/ importChan'[w] = importChan[w]
       /\ <<"chunk", w>> \in X \/ chunk'[w] = chunk[w]
  /\ \A s \in Servers :
       /\ <<"temp", s>> \in X \/ temp'[s] = temp[s]
       /\ <<"final", s>> \in X \/ (phase'[s] = phase[s] /\ final'[s] = final[s])
       /\ <<"samples", s>> \in X \/ samples'[s] = samples[s]
       /\ <<"other", s>> \in X \/ (phase'[s] = phase[s] /\ other'[s] = other[s])
  /\ \A g \in Posting : <<"forward", g>> \in X \/ (g \in forwards' <=> g \in forwards)
  /\ \A g \in Receiving : <<"import", g>> \in X \/ (g \in importing' <=> g \in importing)
  /\ \A g \in Plugging : <<"post", g>> \in X \/ (g \in posts' <=> g \in posts)

\* Places a step does not touch hold what they held.
LEMMA Elsewhere ==
  ASSUME NEW X, Touches(X)
  PROVE  \A p \in Place : p \in X \/ Holding'[p] = Holding[p]
<1> SUFFICES ASSUME NEW p \in Place, p \notin X
             PROVE  Holding'[p] = Holding[p]
  OBVIOUS
<1>1. ASSUME NEW w \in Workers,
             p \in {<<"packet", w>>, <<"hand", w>>, <<"wm", w>>, <<"importChan", w>>, <<"chunk", w>>}
      PROVE  Holding'[p] = Holding[p]
  <2>1. importChan'[w] = importChan[w] => InChan(w)' = InChan(w)
    BY DEF InChan, Elements
  <2>2. /\ packetChan'[w] = packetChan[w] => Holding'[<<"packet", w>>] = Holding[<<"packet", w>>]
        /\ hand'[w] = hand[w] => Holding'[<<"hand", w>>] = Holding[<<"hand", w>>]
        /\ wm'[w] = wm[w] => Holding'[<<"wm", w>>] = Holding[<<"wm", w>>]
        /\ importChan'[w] = importChan[w] =>
             Holding'[<<"importChan", w>>] = Holding[<<"importChan", w>>]
        /\ chunk'[w] = chunk[w] => Holding'[<<"chunk", w>>] = Holding[<<"chunk", w>>]
    BY <2>1, HeldAt, HeldNext DEF WorkerHolding
  <2> QED
    BY Zenon, <1>1, <2>2 DEF Touches
<1>2. ASSUME NEW s \in Servers, p \in {<<"temp", s>>, <<"final", s>>, <<"samples", s>>, <<"other", s>>}
      PROVE  Holding'[p] = Holding[p]
  <2>1. temp'[s] = temp[s] => TempEntries(s)' = TempEntries(s)
    BY DEF TempEntries
  <2>2. /\ Holding[<<"temp", s>>] = EntryTokens(TempEntries(s))
        /\ Holding[<<"final", s>>] = IF phase[s] = "sinks" THEN PointTokens(final[s]) ELSE {}
        /\ Holding[<<"samples", s>>] = EventTokens(samples[s])
        /\ Holding[<<"other", s>>] = IF phase[s] = "other" THEN EventTokens(other[s]) ELSE {}
    BY Zenon, HeldAt DEF ServerHolding
  <2>3. /\ Holding'[<<"temp", s>>] = EntryTokens(TempEntries(s)')
        /\ Holding'[<<"final", s>>] = IF phase'[s] = "sinks" THEN PointTokens(final'[s]) ELSE {}
        /\ Holding'[<<"samples", s>>] = EventTokens(samples'[s])
        /\ Holding'[<<"other", s>>] = IF phase'[s] = "other" THEN EventTokens(other'[s]) ELSE {}
    BY Zenon, HeldNext DEF ServerHolding
  <2>4. /\ temp'[s] = temp[s] => Holding'[<<"temp", s>>] = Holding[<<"temp", s>>]
        /\ phase'[s] = phase[s] /\ final'[s] = final[s] =>
             Holding'[<<"final", s>>] = Holding[<<"final", s>>]
        /\ samples'[s] = samples[s] => Holding'[<<"samples", s>>] = Holding[<<"samples", s>>]
        /\ phase'[s] = phase[s] /\ other'[s] = other[s] =>
             Holding'[<<"other", s>>] = Holding[<<"other", s>>]
    BY <2>1, <2>2, <2>3
  <2> QED
    BY Zenon, <1>2, <2>4 DEF Touches
<1>3. ASSUME NEW g \in Posting, p = <<"forward", g>>
      PROVE  Holding'[p] = Holding[p]
  BY <1>3, HeldAt, HeldNext DEF GoroutineHolding, Touches
<1>4. ASSUME NEW g \in Receiving, p = <<"import", g>>
      PROVE  Holding'[p] = Holding[p]
  BY <1>4, HeldAt, HeldNext DEF GoroutineHolding, Touches
<1>5. ASSUME NEW g \in Plugging, p = <<"post", g>>
      PROVE  Holding'[p] = Holding[p]
  BY <1>5, HeldAt, HeldNext DEF GoroutineHolding, Touches
<1> QED
  BY <1>1, <1>2, <1>3, <1>4, <1>5, PlaceKinds DEF PlaceKind

-----------------------------------------------------------------------------
(* The tokens of sets of samples, entries and JSONMetrics. *)

\* The facets of a sample, by type.
LEMMA ValueTokenFacets ==
  ASSUME NEW m
  PROVE  /\ ValueToken(m)[2] = m /\ ValueToken(m)[1] # "aggregate" /\ ValueToken(m)[1] # "event"
         /\ ValueToken(m) = <<ValueToken(m)[1], m>>
         /\ m.key.type \in {"histogram", "timer"} =>
              ValueToken(m) = <<"percentile", m>> /\ TokensOf(m) = {ValueToken(m), <<"aggregate", m>>}
         /\ m.key.type \notin {"histogram", "timer"} =>
              ValueToken(m) = <<"value", m>> /\ TokensOf(m) = {ValueToken(m)}
BY DEF ValueToken, TokensOf, Facets

\* Membership in ValueTokens.
LEMMA ValueTokensIn == \A ms, t : t \in ValueTokens(ms) <=> t[2] \in ms /\ t = ValueToken(t[2])
BY ValueTokenFacets DEF ValueTokens

\* Membership in QueueTokens.
LEMMA QueueTokensIn ==
  \A ms, t : t \in QueueTokens(ms) <=> t[2] \in ms /\ t \in TokensOf(t[2])
BY DEF QueueTokens, TokensOf

\* One sample.
LEMMA QueueTokensOne == \A m : QueueTokens({m}) = TokensOf(m)
BY DEF QueueTokens

\* Nothing holds nothing.
LEMMA NoTokens ==
  /\ AllOf({}) = {} /\ OwnOf({}) = {}
  /\ ValueTokens({}) = {} /\ QueueTokens({}) = {} /\ EntryTokens({}) = {}
<1>1. AllOf({}) = {} /\ OwnOf({}) = {}
  BY DEF AllOf, OwnOf
<1>2. ValueTokens({}) = {} /\ QueueTokens({}) = {}
  BY ValueTokensIn, QueueTokensIn
<1> QED
  BY Zenon, <1>1, <1>2 DEF EntryTokens

\* A send on a channel.
LEMMA ElementsAppend ==
  ASSUME NEW S, NEW q \in Seq(S), NEW x \in S
  PROVE  Elements(Append(q, x)) = Elements(q) \cup {x}
<1>1. /\ DOMAIN q = 1 .. Len(q) /\ Len(q) \in Nat
      /\ DOMAIN Append(q, x) = 1 .. Len(q) + 1
      /\ Append(q, x)[Len(q) + 1] = x /\ \A i \in 1 .. Len(q) : Append(q, x)[i] = q[i]
  OBVIOUS
<1>2. \A i \in 1 .. Len(q) + 1 : i \in 1 .. Len(q) \/ i = Len(q) + 1
  BY <1>1
<1>3. \A i \in 1 .. Len(q) : i \in 1 .. Len(q) + 1
  BY <1>1
<1>4. Len(q) + 1 \in 1 .. Len(q) + 1
  BY <1>1
<1>5. ASSUME NEW y PROVE y \in Elements(Append(q, x)) <=> y \in Elements(q) \cup {x}
  BY <1>1, <1>2, <1>3, <1>4, Zenon DEF Elements
<1> QED
  BY <1>5

\* A receive from a channel.
LEMMA ElementsTail ==
  ASSUME NEW S, NEW q \in Seq(S), q # <<>>
  PROVE  Elements(q) = {Head(q)} \cup Elements(Tail(q))
<1>1. /\ DOMAIN q = 1 .. Len(q) /\ Len(q) \in Nat \ {0}
      /\ DOMAIN Tail(q) = 1 .. Len(q) - 1
      /\ Head(q) = q[1] /\ \A i \in 1 .. Len(q) - 1 : Tail(q)[i] = q[i + 1]
  OBVIOUS
<1>2. \A i \in 1 .. Len(q) : i = 1 \/ (i - 1 \in 1 .. Len(q) - 1 /\ Tail(q)[i - 1] = q[i])
  BY <1>1
<1>3. \A i \in 1 .. Len(q) - 1 : i + 1 \in 1 .. Len(q)
  BY <1>1
<1>4. 1 \in 1 .. Len(q)
  BY <1>1
<1>5. Elements(q) \subseteq {Head(q)} \cup Elements(Tail(q))
  <2> SUFFICES ASSUME NEW i \in 1 .. Len(q), i # 1
               PROVE  q[i] \in Elements(Tail(q))
    BY <1>1 DEF Elements
  <2>1. i - 1 \in DOMAIN Tail(q) /\ Tail(q)[i - 1] = q[i]
    BY <1>1, <1>2
  <2> QED
    BY <2>1, Zenon DEF Elements
<1>6. Elements(Tail(q)) \subseteq Elements(q)
  BY <1>1, <1>3 DEF Elements
<1>7. Head(q) \in Elements(q)
  BY <1>1, <1>4 DEF Elements
<1> QED
  BY <1>5, <1>6, <1>7

-----------------------------------------------------------------------------
(* What sampling, combining and flushing do to the tokens. *)

AllFit(es) == \A e \in es : Fits(e)

\* Membership in EntryTokens.
LEMMA EntryTokensIn ==
  \A es, t : t \in EntryTokens(es) <=> \/ t[2] \in AllOf(es) /\ t = ValueToken(t[2])
                                       \/ t[2] \in OwnOf(es) /\ t = <<"aggregate", t[2]>>
BY ValueTokensIn DEF EntryTokens

\* The entry of a map and key is replaced by one that also has the samples new, of which
\* ours are sampled here.
Replaces(es, fs, map, key, new, ours) ==
  \E x : /\ fs = (es \ Present(es, map, key)) \cup {x}
         /\ x.all = Keep(es, map, key) \cup new
         /\ x.own = OwnOf(Present(es, map, key)) \cup ours

\* Replacing the entry of a key.
LEMMA ReplaceTokens ==
  ASSUME NEW es, AllFit(es), NEW map, NEW key, NEW new, NEW ours, NEW fs,
         Replaces(es, fs, map, key, new, ours)
  PROVE  /\ Overwritten(es, map, key) \subseteq AllOf(es)
         /\ EntryTokens(fs) = (EntryTokens(es) \ ValueTokens(Overwritten(es, map, key)))
                                \cup ValueTokens(new) \cup ({"aggregate"} \X ours)
<1> SUFFICES ASSUME NEW old, NEW over, NEW rest, NEW x,
                    old = Present(es, map, key), over = Overwritten(es, map, key),
                    rest = es \ old, fs = rest \cup {x},
                    x.all = Keep(es, map, key) \cup new, x.own = OwnOf(old) \cup ours
             PROVE  /\ over \subseteq AllOf(es)
                    /\ EntryTokens(fs) = (EntryTokens(es) \ ValueTokens(over))
                                           \cup ValueTokens(new) \cup ({"aggregate"} \X ours)
  BY Zenon DEF Replaces
<1>1. AllOf(fs) = AllOf(rest) \cup x.all /\ OwnOf(fs) = OwnOf(rest) \cup x.own
  BY DEF AllOf, OwnOf
<1>2. /\ AllOf(rest) = AllOf(es) \ AllOf(old) /\ AllOf(old) \subseteq AllOf(es)
      /\ OwnOf(es) = OwnOf(rest) \cup OwnOf(old)
  <2>1. ASSUME NEW m, m \in AllOf(rest), m \in AllOf(old)
        PROVE  FALSE
    <3>1. PICK e \in es \ old : m \in e.all
      BY <2>1 DEF AllOf
    <3>2. PICK f \in old : m \in f.all
      BY <2>1 DEF AllOf
    <3>3. e.key = f.key /\ e.map = f.map
      BY <3>1, <3>2 DEF AllFit, Fits, Present
    <3> QED
      BY <3>1, <3>2, <3>3 DEF Present
  <2>2. AllOf(es) = AllOf(rest) \cup AllOf(old)
    BY DEF AllOf, Present
  <2>3. OwnOf(es) = OwnOf(rest) \cup OwnOf(old)
    BY DEF OwnOf, Present
  <2> QED
    BY Zenon, <2>1, <2>2, <2>3
<1>3. \/ over = {} /\ Keep(es, map, key) = AllOf(old)
      \/ over = AllOf(old) /\ Keep(es, map, key) = {}
  BY DEF Overwritten, Keep
<1>4. /\ over \subseteq AllOf(es)
      /\ AllOf(fs) = (AllOf(es) \ over) \cup new
      /\ OwnOf(fs) = OwnOf(es) \cup ours
  BY <1>1, <1>2, <1>3
<1>5. ASSUME NEW t
      PROVE  t \in EntryTokens(fs) <=> t \in (EntryTokens(es) \ ValueTokens(over))
                                              \cup ValueTokens(new) \cup ({"aggregate"} \X ours)
  <2>1. /\ t \in EntryTokens(fs) <=> \/ t[2] \in AllOf(fs) /\ t = ValueToken(t[2])
                                     \/ t[2] \in OwnOf(fs) /\ t = <<"aggregate", t[2]>>
        /\ t \in EntryTokens(es) <=> \/ t[2] \in AllOf(es) /\ t = ValueToken(t[2])
                                     \/ t[2] \in OwnOf(es) /\ t = <<"aggregate", t[2]>>
    BY EntryTokensIn
  <2>2. /\ t \in ValueTokens(over) <=> t[2] \in over /\ t = ValueToken(t[2])
        /\ t \in ValueTokens(new) <=> t[2] \in new /\ t = ValueToken(t[2])
    BY ValueTokensIn
  <2>3. t = <<"aggregate", t[2]>> => t # ValueToken(t[2])
    BY ValueTokenFacets
  <2>4. t \in {"aggregate"} \X ours <=> t[2] \in ours /\ t = <<"aggregate", t[2]>>
    OBVIOUS
  <2> QED
    BY Zenon, <1>4, <2>1, <2>2, <2>3, <2>4
<1> QED
  BY Zenon, <1>4, <1>5

\* Sample adds the facets of the sample, less those a gauge overwrites.
LEMMA SampleTokens ==
  ASSUME NEW es, AllFit(es), NEW m \in Metrics, NEW over, NEW fs,
         over = Overwritten(es, MapOf(m), m.key), fs = Sample(es, MapOf(m), m)
  PROVE  /\ over \subseteq AllOf(es)
         /\ EntryTokens(fs) = (EntryTokens(es) \ ValueTokens(over)) \cup TokensOf(m)
<1> DEFINE old == Present(es, MapOf(m), m.key)
           ours == IF MapOf(m) \in HistoMaps THEN {m} ELSE {}
           new == {m}
           x == [map |-> MapOf(m), key |-> m.key,
                 all |-> Keep(es, MapOf(m), m.key) \cup {m},
                 own |-> IF MapOf(m) \in HistoMaps THEN OwnOf(old) \cup {m} ELSE {}]
<1>1. fs = (es \ old) \cup {x}
  BY DEF Sample
<1>2. MapOf(m) \notin HistoMaps => OwnOf(old) = {}
  BY DEF OwnOf, Present, AllFit, Fits
<1>3. x.all = Keep(es, MapOf(m), m.key) \cup new /\ x.own = OwnOf(old) \cup ours
  BY <1>2
<1>4. ValueTokens(new) \cup ({"aggregate"} \X ours) = TokensOf(m)
  <2>1. MapOf(m) \in HistoMaps <=> m.key.type \in {"histogram", "timer"}
    BY Zenon, ScopeOfMap
  <2>2. ValueTokens(new) = {ValueToken(m)}
    BY DEF ValueTokens
  <2>3. CASE m.key.type \in {"histogram", "timer"}
    <3>1. TokensOf(m) = {ValueToken(m), <<"aggregate", m>>}
      BY <2>3, ValueTokenFacets
    <3>2. {"aggregate"} \X ours = {<<"aggregate", m>>}
      BY <2>1, <2>3
    <3> QED
      BY <2>2, <3>1, <3>2
  <2>4. CASE m.key.type \notin {"histogram", "timer"}
    <3>1. TokensOf(m) = {ValueToken(m)}
      BY <2>4, ValueTokenFacets
    <3>2. {"aggregate"} \X ours = {}
      BY <2>1, <2>4
    <3> QED
      BY <2>2, <3>1, <3>2
  <2> QED
    BY <2>3, <2>4
<1>5. Replaces(es, fs, MapOf(m), m.key, new, ours)
  BY Zenon, <1>1, <1>3 DEF Replaces
<1> HIDE DEF x, ours, new, old
<1>6. /\ over \subseteq AllOf(es)
      /\ EntryTokens(fs) = (EntryTokens(es) \ ValueTokens(over))
                             \cup ValueTokens(new) \cup ({"aggregate"} \X ours)
  BY <1>5, ReplaceTokens
<1> QED
  BY <1>4, <1>6

\* Combine adds the values of what is imported, less those a gauge overwrites.
LEMMA CombineTokens ==
  ASSUME NEW es, AllFit(es), NEW map, NEW j, NEW over, NEW fs,
         over = Overwritten(es, map, j.key), fs = Combine(es, map, j)
  PROVE  /\ over \subseteq AllOf(es)
         /\ EntryTokens(fs) = (EntryTokens(es) \ ValueTokens(over)) \cup ValueTokens(j.all)
<1> DEFINE old == Present(es, map, j.key)
           ours == {}
           x == [map |-> map, key |-> j.key, all |-> Keep(es, map, j.key) \cup j.all,
                 own |-> OwnOf(old)]
<1>1. fs = (es \ old) \cup {x}
  BY DEF Combine
<1>2. x.all = Keep(es, map, j.key) \cup j.all /\ x.own = OwnOf(old) \cup ours
  OBVIOUS
<1>3. Replaces(es, fs, map, j.key, j.all, ours) /\ {"aggregate"} \X ours = {}
  BY Zenon, <1>1, <1>2 DEF Replaces
<1> HIDE DEF x, ours, old
<1>4. /\ over \subseteq AllOf(es)
      /\ EntryTokens(fs) = (EntryTokens(es) \ ValueTokens(over))
                             \cup ValueTokens(j.all) \cup ({"aggregate"} \X ours)
  BY <1>3, ReplaceTokens
<1> QED
  BY <1>3, <1>4

\* Membership in PointTokens.
LEMMA PointTokensIn ==
  \A ps, t : t \in PointTokens(ps) <=> \E p \in ps : t[2] \in p.ms /\ t = <<p.facet, t[2]>>
BY DEF PointTokens

\* A Histo's own samples are published as aggregates, and the value of an entry unless
\* it is exported.
LEMMA FlushTokens ==
  ASSUME NEW e \in Entry, Fits(e), NEW b \in BOOLEAN, NEW t
  PROVE  (\E p \in Flush(e, b) : t[2] \in p.ms /\ t = <<p.facet, t[2]>>) <=>
           \/ t[2] \in e.own /\ t = <<"aggregate", t[2]>>
           \/ /\ ~b \/ e.map \notin DOMAIN ExportType
              /\ t[2] \in e.all /\ t = ValueToken(t[2])
<1>1. \A facet, ms : Point(e, facet, ms).ms = ms /\ Point(e, facet, ms).facet = facet
  BY DEF Point
<1>2. t[2] \in e.all => ValueToken(t[2]) = <<IF e.map \in HistoMaps THEN "percentile" ELSE "value", t[2]>>
  <2>1. ASSUME t[2] \in e.all
        PROVE  e.map \in HistoMaps <=> t[2].key.type \in {"histogram", "timer"}
    <3>1. t[2] \in Metrics /\ e.map = MapOf(t[2])
      BY <2>1 DEF Entry, Fits
    <3> QED
      BY Zenon, <3>1, ScopeOfMap
  <2> QED
    BY <2>1, ValueTokenFacets
<1>3. e.map \in Maps
  BY DEF Entry
<1>4. CASE e.map \in HistoMaps
  <2>1. e.map \in DOMAIN ExportType <=> e.map \notin {"localHistograms", "localTimers"}
    BY <1>4 DEF HistoMaps, ExportType
  <2>2. \A p : p \in Flush(e, b) <=>
          \/ e.own # {} /\ p = Point(e, "aggregate", e.own)
          \/ (~b \/ e.map \notin DOMAIN ExportType) /\ p = Point(e, "percentile", e.all)
    BY <1>4, <2>1, FlushTable DEF HistoMaps
  <2> QED
    BY <1>1, <1>2, <1>4, <2>2
<1>5. CASE e.map \notin HistoMaps
  <2>1. e.own = {}
    BY <1>5 DEF Fits
  <2>2. e.map \in DOMAIN ExportType <=> e.map \in {"sets", "globalCounters", "globalGauges"}
    BY <1>3, <1>5 DEF HistoMaps, ExportType, Maps
  <2>3. \A p : p \in Flush(e, b) <=>
          (~b \/ e.map \notin DOMAIN ExportType) /\ p = Point(e, "value", e.all)
    BY <1>3, <1>5, <2>2, FlushTable DEF HistoMaps, Maps
  <2> QED
    BY <1>1, <1>2, <1>5, <2>1, <2>3
<1> QED
  BY <1>4, <1>5

\* What a flush publishes and what it forwards is what the workers held, split in two.
LEMMA GenerateTokens ==
  ASSUME NEW es \in SUBSET Entry, AllFit(es), NEW b \in BOOLEAN, NEW ps, NEW js,
         ps = generateInterMetrics(es, b), js = Export(es)
  PROVE  /\ ~b => PointTokens(ps) = EntryTokens(es)
         /\ b => /\ PointTokens(ps) \cup ValueTokens(AllOf(js)) = EntryTokens(es)
                 /\ PointTokens(ps) \cap ValueTokens(AllOf(js)) = {}
<1>1. ASSUME NEW t
      PROVE  t \in PointTokens(ps) <=>
               \/ \E e \in es : t[2] \in e.own /\ t = <<"aggregate", t[2]>>
               \/ \E e \in es : /\ ~b \/ e.map \notin DOMAIN ExportType
                                /\ t[2] \in e.all /\ t = ValueToken(t[2])
  <2>1. t \in PointTokens(ps) <=>
          \E e \in es : \E p \in Flush(e, b) : t[2] \in p.ms /\ t = <<p.facet, t[2]>>
    BY PointTokensIn DEF generateInterMetrics
  <2> QED
    BY <2>1, FlushTokens DEF AllFit
<1>2. ASSUME NEW t
      PROVE  t \in ValueTokens(AllOf(js)) <=>
               \E e \in es : /\ e.map \in DOMAIN ExportType
                             /\ t[2] \in e.all /\ t = ValueToken(t[2])
  <2>1. t[2] \in AllOf(js) <=> \E e \in es : e.map \in DOMAIN ExportType /\ t[2] \in e.all
    <3>1. \A j \in js : \E e \in es : e.map \in DOMAIN ExportType /\ j.all = e.all
      BY DEF Export
    <3>2. ASSUME NEW e \in es, e.map \in DOMAIN ExportType
          PROVE  \E j \in js : j.all = e.all
      <4> DEFINE j == [key |-> [name |-> e.key.name, type |-> ExportType[e.map]], all |-> e.all]
      <4>1. j \in js /\ j.all = e.all
        BY Zenon, <3>2 DEF Export
      <4> QED
        BY <4>1
    <3>3. t[2] \in AllOf(js) <=> \E j \in js : t[2] \in j.all
      BY DEF AllOf
    <3> QED
      BY <3>1, <3>2, <3>3
  <2> QED
    BY <2>1, ValueTokensIn
<1>3. ASSUME NEW t
      PROVE  t \in EntryTokens(es) <=>
               \/ \E e \in es : t[2] \in e.all /\ t = ValueToken(t[2])
               \/ \E e \in es : t[2] \in e.own /\ t = <<"aggregate", t[2]>>
  BY EntryTokensIn DEF AllOf, OwnOf
<1>4. \A t : t = ValueToken(t[2]) => t # <<"aggregate", t[2]>>
  BY ValueTokenFacets
<1>5. \A e, f \in es : \A m : m \in e.all /\ m \in f.all => e.map = f.map
  BY DEF AllFit, Fits
<1>6. ~b => PointTokens(ps) = EntryTokens(es)
  BY Zenon, <1>1, <1>3
<1>7. ASSUME b
      PROVE  PointTokens(ps) \cup ValueTokens(AllOf(js)) = EntryTokens(es)
  BY Zenon, <1>1, <1>2, <1>3, <1>7
<1>8. ASSUME b, NEW t, t \in PointTokens(ps), t \in ValueTokens(AllOf(js))
      PROVE  FALSE
  <2>1. PICK e \in es : e.map \in DOMAIN ExportType /\ t[2] \in e.all /\ t = ValueToken(t[2])
    BY <1>2, <1>8
  <2>2. PICK f \in es : f.map \notin DOMAIN ExportType /\ t[2] \in f.all
    BY Zenon, <1>1, <1>4, <1>8, <2>1
  <2> QED
    BY <1>5, <2>1, <2>2
<1> QED
  BY <1>6, <1>7, <1>8

-----------------------------------------------------------------------------
(* The invariants. *)

\* No two JSONMetrics of one key.
OneEach(js) == \A i, j \in js : i.key = j.key => i = j

NoRepeat(q) == \A i, n \in DOMAIN q : q[i] = q[n] => i = n

\* Chunks of JSONMetrics that share no sample.
Apart(q) == /\ \A n \in DOMAIN q : OneEach(q[n])
            /\ \A i, n \in DOMAIN q : i # n => AllOf(q[i]) \cap AllOf(q[n]) = {}

\* Nothing is twice in one place either.
Intact ==
  /\ \A w \in Workers : /\ NoRepeat(packetChan[w])
                        /\ \A m, n \in hand[w] : m = n
                        /\ Apart(importChan[w])
                        /\ OneEach(chunk[w])
  /\ \A g \in importing : OneEach(g.rest)

\* The facets of the samples and events taken in so far.
Seen == {t \in Token : \/ t[1] = "event" /\ t[2] \in events
                       \/ t[1] # "event" /\ t[2] \in AllAccepted}

\* Nothing is anywhere that was not taken in.
Known == \A p \in Place : Holding[p] \subseteq Seen

-----------------------------------------------------------------------------
(* Nothing is twice in one place. *)

\* A new sample is sent on a channel.
LEMMA AppendNoRepeat ==
  ASSUME NEW S, NEW q \in Seq(S), NEW x \in S, NoRepeat(q), x \notin Elements(q)
  PROVE  NoRepeat(Append(q, x))
<1> SUFFICES ASSUME NEW i \in DOMAIN Append(q, x), NEW n \in DOMAIN Append(q, x),
                    Append(q, x)[i] = Append(q, x)[n]
             PROVE  i = n
  BY DEF NoRepeat
<1>1. /\ (i \in DOMAIN q /\ Append(q, x)[i] = q[i]) \/ (i = Len(q) + 1 /\ Append(q, x)[i] = x)
      /\ (n \in DOMAIN q /\ Append(q, x)[n] = q[n]) \/ (n = Len(q) + 1 /\ Append(q, x)[n] = x)
  BY AppendElements
<1> QED
  BY <1>1 DEF NoRepeat, Elements

\* A sample is received from it.
LEMMA TailNoRepeat ==
  ASSUME NEW S, NEW q \in Seq(S), q # <<>>, NoRepeat(q)
  PROVE  NoRepeat(Tail(q))
<1> SUFFICES ASSUME NEW i \in DOMAIN Tail(q), NEW n \in DOMAIN Tail(q), Tail(q)[i] = Tail(q)[n]
             PROVE  i = n
  BY DEF NoRepeat
<1>1. /\ i + 1 \in DOMAIN q /\ Tail(q)[i] = q[i + 1] /\ n + 1 \in DOMAIN q /\ Tail(q)[n] = q[n + 1]
      /\ i \in Nat /\ n \in Nat
  BY HeadTail
<1>2. i + 1 = n + 1
  BY <1>1 DEF NoRepeat
<1> QED
  BY <1>1, <1>2

\* A new chunk is sent on a channel.
LEMMA AppendApart ==
  ASSUME NEW S, NEW q \in Seq(S), NEW x \in S, Apart(q), OneEach(x),
         \A n \in DOMAIN q : AllOf(q[n]) \cap AllOf(x) = {}
  PROVE  Apart(Append(q, x))
<1>1. ASSUME NEW n \in DOMAIN Append(q, x)
      PROVE  (n \in DOMAIN q /\ Append(q, x)[n] = q[n]) \/ (n = Len(q) + 1 /\ Append(q, x)[n] = x)
  BY AppendElements
<1>2. \A n \in DOMAIN Append(q, x) : OneEach(Append(q, x)[n])
  BY <1>1 DEF Apart
<1>3. ASSUME NEW i \in DOMAIN Append(q, x), NEW n \in DOMAIN Append(q, x), i # n
      PROVE  AllOf(Append(q, x)[i]) \cap AllOf(Append(q, x)[n]) = {}
  <2>1. /\ (i \in DOMAIN q /\ Append(q, x)[i] = q[i]) \/ (i = Len(q) + 1 /\ Append(q, x)[i] = x)
        /\ (n \in DOMAIN q /\ Append(q, x)[n] = q[n]) \/ (n = Len(q) + 1 /\ Append(q, x)[n] = x)
    BY Zenon, <1>1
  <2>2. \A k \in DOMAIN q : AllOf(x) \cap AllOf(q[k]) = {}
    OBVIOUS
  <2>3. \A k, j \in DOMAIN q : k # j => AllOf(q[k]) \cap AllOf(q[j]) = {}
    BY DEF Apart
  <2> QED
    BY <1>3, <2>1, <2>2, <2>3
<1> QED
  BY <1>2, <1>3 DEF Apart

\* A chunk is received from it.
LEMMA TailApart ==
  ASSUME NEW S, NEW q \in Seq(S), q # <<>>, Apart(q)
  PROVE  OneEach(Head(q)) /\ Apart(Tail(q))
<1>1. 1 \in DOMAIN q /\ Head(q) = q[1]
  BY HeadTail
<1>2. ASSUME NEW n \in DOMAIN Tail(q)
      PROVE  n + 1 \in DOMAIN q /\ Tail(q)[n] = q[n + 1] /\ n \in Nat
  BY HeadTail
<1>3. \A n \in DOMAIN Tail(q) : OneEach(Tail(q)[n])
  BY <1>2 DEF Apart
<1>4. ASSUME NEW i \in DOMAIN Tail(q), NEW n \in DOMAIN Tail(q), i # n
      PROVE  AllOf(Tail(q)[i]) \cap AllOf(Tail(q)[n]) = {}
  <2>1. /\ i + 1 \in DOMAIN q /\ Tail(q)[i] = q[i + 1] /\ n + 1 \in DOMAIN q /\ Tail(q)[n] = q[n + 1]
        /\ i + 1 # n + 1
    BY <1>2, <1>4
  <2>2. AllOf(q[i + 1]) \cap AllOf(q[n + 1]) = {}
    BY <2>1 DEF Apart
  <2> QED
    BY <2>1, <2>2
<1> QED
  BY Zenon, <1>1, <1>3, <1>4 DEF Apart

\* A worker repeats nothing.
LEMMA IntactWork ==
  ASSUME TypeOK, Intact, NEW w \in Workers, Work(w)
  PROVE  Intact'
<1>1. importing' = importing
  BY DEF Work
<1>2. /\ packetChan[w] \in Seq(Metrics) /\ importChan[w] \in Seq(SUBSET JSONMetric)
  BY DEF TypeOK, WorkerTypeOK
<1>3. CASE WorkPacket(w)
  <2>1. NoRepeat(Tail(packetChan[w]))
    BY <1>2, <1>3, TailNoRepeat DEF WorkPacket, Intact
  <2> QED
    BY <1>1, <1>3, <2>1 DEF WorkPacket, Intact, TypeOK, WorkerTypeOK
<1>4. CASE ProcessMetric(w)
  BY <1>1, <1>4 DEF ProcessMetric, Intact, TypeOK, WorkerTypeOK
<1>5. CASE WorkImport(w)
  <2>1. OneEach(Head(importChan[w])) /\ Apart(Tail(importChan[w]))
    BY Zenon, <1>2, <1>5, TailApart DEF WorkImport, Intact
  <2> QED
    BY <1>1, <1>5, <2>1 DEF WorkImport, Intact, TypeOK, WorkerTypeOK
<1>6. CASE ImportMetric(w)
  <2>1. /\ chunk'[w] \subseteq chunk[w] /\ \A v \in Workers : v # w => chunk'[v] = chunk[v]
        /\ UNCHANGED <<packetChan, hand, importChan>>
    BY <1>6 DEF ImportMetric, TypeOK, WorkerTypeOK
  <2>2. OneEach(chunk'[w])
    BY Zenon, <2>1 DEF Intact, OneEach
  <2> QED
    BY Zenon, <1>1, <2>1, <2>2 DEF Intact
<1> QED
  BY <1>3, <1>4, <1>5, <1>6 DEF Work, WorkStep

\* HandleMetricPacket queues a sample that is queued nowhere.
LEMMA IntactPacket ==
  ASSUME TypeOK, Intact, Known, NEW s \in Servers, NEW m \in Metrics, HandleMetricPacket(s, m),
         UNCHANGED importing
  PROVE  Intact'
<1> DEFINE v == WorkerOf(s, m.key)
<1>1. v \in Workers
  BY WorkerOfType, MetricFields
<1>2. /\ packetChan' = [packetChan EXCEPT ![v] = Append(@, m)] /\ m \notin AllAccepted
      /\ UNCHANGED <<importChan, hand, chunk>>
  BY DEF HandleMetricPacket
<1> HIDE DEF v
<1>3. m \notin Elements(packetChan[v])
  <2>1. Holding[<<"packet", v>>] = QueueTokens(Elements(packetChan[v]))
    BY Zenon, <1>1, HeldAt DEF WorkerHolding
  <2>2. ValueToken(m) \in TokensOf(m) /\ ValueToken(m)[2] = m /\ ValueToken(m)[1] # "event"
    <3>1. ValueToken(m)[2] = m /\ ValueToken(m)[1] # "event"
      BY ValueTokenFacets
    <3>2. CASE m.key.type \in {"histogram", "timer"}
      BY <3>1, <3>2, ValueTokenFacets
    <3>3. CASE m.key.type \notin {"histogram", "timer"}
      BY <3>1, <3>3, ValueTokenFacets
    <3> QED
      BY <3>2, <3>3
  <2>3. m \in Elements(packetChan[v]) => ValueToken(m) \in Seen
    <3>1. m \in Elements(packetChan[v]) => ValueToken(m) \in QueueTokens(Elements(packetChan[v]))
      BY <2>2 DEF QueueTokens
    <3>2. Holding[<<"packet", v>>] \subseteq Seen
      BY Zenon, <1>1, PlaceOf DEF Known, ArePlaces
    <3> QED
      BY <2>1, <3>1, <3>2
  <2> QED
    BY <1>2, <2>2, <2>3 DEF Seen
<1>4. packetChan[v] \in Seq(Metrics)
  BY <1>1 DEF TypeOK, WorkerTypeOK
<1>5. NoRepeat(Append(packetChan[v], m))
  BY <1>1, <1>3, <1>4, AppendNoRepeat DEF Intact
<1> QED
  BY <1>1, <1>2, <1>5 DEF Intact, TypeOK, WorkerTypeOK

\* ImportMetrics queues chunks that share nothing with those queued.
LEMMA IntactImport ==
  ASSUME TypeOK, Intact, OnePlace, NEW g \in importing, ImportMetrics(g)
  PROVE  Intact'
<1>0. g \in Receiving
  BY DEF TypeOK, Receiving
<1>1. PICK v \in Workers, js \in SUBSET g.rest :
             /\ importChan' = [importChan EXCEPT ![v] = Append(@, js)]
             /\ importing' \subseteq importing \cup {[at |-> g.at, rest |-> g.rest \ js]}
             /\ UNCHANGED <<packetChan, hand, chunk>>
  <2>1. \A i \in 0 .. NumWorkers - 1 : <<g.at, i>> \in Workers
    BY <1>0 DEF Receiving, Workers
  <2> DEFINE For(i) == {j \in g.rest : ImportWorker(g.at, j) = <<g.at, i>>}
  <2>2. PICK i \in 0 .. NumWorkers - 1 :
               /\ SendImport(<<g.at, i>>, For(i))
               /\ importing' \subseteq importing \cup {[at |-> g.at, rest |-> g.rest \ For(i)]}
    BY Zenon DEF ImportMetrics
  <2>3. For(i) \in SUBSET g.rest
    OBVIOUS
  <2> HIDE DEF For
  <2> QED
    BY Zenon, <2>1, <2>2, <2>3 DEF SendImport
<1>2. OneEach(js) /\ \A h \in importing' : OneEach(h.rest)
  <2>1. OneEach(g.rest) /\ \A h \in importing : OneEach(h.rest)
    BY DEF Intact
  <2>2. \A ks : ks \subseteq g.rest => OneEach(ks)
    BY <2>1 DEF OneEach
  <2>3. \A h \in importing' : h \in importing \/ h.rest \subseteq g.rest
    BY <1>1
  <2> QED
    BY <2>1, <2>2, <2>3
<1>3. importChan[v] \in Seq(SUBSET JSONMetric) /\ js \in SUBSET JSONMetric
  BY <1>0 DEF TypeOK, WorkerTypeOK, Receiving
<1>4. \A n \in DOMAIN importChan[v] : AllOf(importChan[v][n]) \cap AllOf(js) = {}
  <2>1. /\ Holding[<<"importChan", v>>] = ValueTokens(AllOf(InChan(v)))
        /\ Holding[<<"import", g>>] = ValueTokens(AllOf(g.rest))
    BY Zenon, <1>0, HeldAt DEF WorkerHolding, GoroutineHolding
  <2>2. Holding[<<"importChan", v>>] \cap Holding[<<"import", g>>] = {}
    BY Zenon, <1>0, PlaceOf DEF OnePlace, ArePlaces
  <2>3. AllOf(InChan(v)) \cap AllOf(g.rest) = {}
    <3>1. \A m, ms : m \in ms => ValueToken(m) \in ValueTokens(ms)
      BY Zenon DEF ValueTokens
    <3>2. ASSUME NEW m \in AllOf(InChan(v)), m \in AllOf(g.rest)
          PROVE  FALSE
      <4>1. ValueToken(m) \in Holding[<<"importChan", v>>] /\ ValueToken(m) \in Holding[<<"import", g>>]
        BY Zenon, <2>1, <3>1, <3>2
      <4> QED
        BY Zenon, <2>2, <4>1
    <3> QED
      BY Zenon, <3>2
  <2>4. AllOf(js) \subseteq AllOf(g.rest)
    BY Zenon DEF AllOf
  <2>5. \A n \in DOMAIN importChan[v] : AllOf(importChan[v][n]) \subseteq AllOf(InChan(v))
    BY Zenon DEF AllOf, InChan, Elements
  <2> QED
    BY Zenon, <2>3, <2>4, <2>5
<1>5. Apart(Append(importChan[v], js))
  BY Zenon, <1>2, <1>3, <1>4, AppendApart DEF Intact
<1>6. \A w \in Workers : \/ w = v /\ importChan'[w] = Append(importChan[v], js)
                         \/ importChan'[w] = importChan[w]
  BY <1>1 DEF TypeOK, WorkerTypeOK
<1> QED
  BY <1>1, <1>2, <1>5, <1>6 DEF Intact

\* Every step keeps each place free of repetitions.
LEMMA IntactStep ==
  ASSUME TypeOK, Intact, OnePlace, Known, SeriesOncePerFlush, [Next]_vars
  PROVE  Intact'
<1>1. ASSUME UNCHANGED <<packetChan, hand, importChan, chunk>>,
             \A h \in importing' : h \in importing \/ \E g \in forwards : h.rest = g.body
      PROVE  Intact'
  <2>1. \A g \in forwards : OneEach(g.body)
    BY DEF SeriesOncePerFlush, OneEach
  <2> QED
    BY Zenon, <1>1, <2>1 DEF Intact
<1>2. ASSUME Quiet, UNCHANGED importing PROVE Intact'
  BY <1>1, <1>2 DEF Quiet, workerVars
<1>3. CASE Ingest
  <2>1. ASSUME NEW s \in Servers, NEW e \in Events, HandleEventPacket(s, e), UNCHANGED importing
        PROVE  Intact'
    BY <1>2, <2>1, QuietEvent
  <2> QED
    BY <1>3, <2>1, IntactPacket DEF Ingest
<1>4. ASSUME NEW s \in Servers, FlushLoop(s) PROVE Intact'
  <2>1. TallyWorker(s) => UNCHANGED <<packetChan, hand, importChan, chunk>>
    BY DEF TallyWorker, FlushWorker
  <2>2. Generate(s) \/ FlushDone(s) => UNCHANGED <<packetChan, hand, importChan, chunk>>
    BY Zenon DEF Generate, FlushDone, workerVars
  <2>3. FlushStart(s) \/ FlushOtherSamples(s) \/ FlusherExit(s)
          => UNCHANGED <<packetChan, hand, importChan, chunk>>
    BY QuietFlush DEF Quiet, workerVars
  <2>4. UNCHANGED <<packetChan, hand, importChan, chunk>> /\ importing' = importing
    BY <1>4, <2>1, <2>2, <2>3 DEF FlushLoop, FlushStep
  <2> QED
    BY <1>1, <2>4
<1>5. CASE Post
  <2>1. ASSUME NEW g \in forwards, PostForward(g)
        PROVE  /\ UNCHANGED <<packetChan, hand, importChan, chunk>>
               /\ \A h \in importing' : h \in importing \/ h.rest = g.body
    <3>1. /\ UNCHANGED <<packetChan, hand, importChan, chunk>>
          /\ importing' = importing \cup {[at |-> Upstream[g.from], rest |-> g.body]}
      BY Zenon, <2>1 DEF PostForward, workerVars
    <3> QED
      BY <3>1
  <2>2. ASSUME NEW g \in forwards, PostFails(g)
        PROVE  UNCHANGED <<packetChan, hand, importChan, chunk, importing>>
    BY Zenon, <2>2 DEF PostFails, workerVars
  <2> QED
    BY Zenon, <1>1, <1>5, <2>1, <2>2 DEF Post
<1>6. CASE \/ \E s \in Servers, k \in Sinks : Sink(s, k)
           \/ Plugin \/ Stop \/ UNCHANGED vars
  <2>1. Quiet
    BY <1>6, QuietRest
  <2>2. importing' = importing
    BY <1>6 DEF Sink, Plugin, Stop, vars
  <2> QED
    BY <1>2, <2>1, <2>2
<1> QED
  BY <1>3, <1>4, <1>5, <1>6, IntactWork, IntactImport DEF Next, Import

-----------------------------------------------------------------------------
(* What is en route to a receiver. *)

\* The places whose tokens are still to reach receiver k.
Opens ==
  [k \in Receivers |->
     {p \in Place : /\ p[1] = "final" => phase[p[2]] = "sinks" /\ k \in todo[p[2]] \cup Plugins
                    /\ p[1] = "other" => phase[p[2]] = "other" /\ k \in todo[p[2]]
                    /\ p[1] = "samples" => k \in Sinks
                    /\ p[1] = "post" => k \in p[2].left}]

\* What a place holds for receiver k.
Due == [k \in Receivers |-> [p \in Place |-> IF p \in Opens[k] THEN Holding[p] ELSE {}]]

EnRouteTo == [k \in Receivers |-> UNION {Due[k][p] : p \in Place}]

DueKinds ==
  \A k \in Receivers :
    /\ \A w \in Workers : /\ Due[k][<<"packet", w>>] = Holding[<<"packet", w>>]
                          /\ Due[k][<<"hand", w>>] = Holding[<<"hand", w>>]
                          /\ Due[k][<<"wm", w>>] = Holding[<<"wm", w>>]
                          /\ Due[k][<<"importChan", w>>] = Holding[<<"importChan", w>>]
                          /\ Due[k][<<"chunk", w>>] = Holding[<<"chunk", w>>]
    /\ \A s \in Servers :
         /\ Due[k][<<"temp", s>>] = Holding[<<"temp", s>>]
         /\ Due[k][<<"final", s>>] = IF phase[s] = "sinks" /\ k \in todo[s] \cup Plugins
                                       THEN Holding[<<"final", s>>] ELSE {}
         /\ Due[k][<<"samples", s>>] = IF k \in Sinks THEN Holding[<<"samples", s>>] ELSE {}
         /\ Due[k][<<"other", s>>] = IF phase[s] = "other" /\ k \in todo[s]
                                       THEN Holding[<<"other", s>>] ELSE {}
    /\ \A g \in Posting : Due[k][<<"forward", g>>] = Holding[<<"forward", g>>]
    /\ \A g \in Receiving : Due[k][<<"import", g>>] = Holding[<<"import", g>>]
    /\ \A g \in Plugging : Due[k][<<"post", g>>] = IF k \in g.left THEN Holding[<<"post", g>>] ELSE {}

\* What is due to a receiver, by kind of place.
LEMMA DueAt == DueKinds
<1> SUFFICES ASSUME NEW k \in Receivers
             PROVE  /\ \A w \in Workers : /\ Due[k][<<"packet", w>>] = Holding[<<"packet", w>>]
                                          /\ Due[k][<<"hand", w>>] = Holding[<<"hand", w>>]
                                          /\ Due[k][<<"wm", w>>] = Holding[<<"wm", w>>]
                                          /\ Due[k][<<"importChan", w>>] = Holding[<<"importChan", w>>]
                                          /\ Due[k][<<"chunk", w>>] = Holding[<<"chunk", w>>]
                    /\ \A s \in Servers :
                         /\ Due[k][<<"temp", s>>] = Holding[<<"temp", s>>]
                         /\ Due[k][<<"final", s>>] = IF phase[s] = "sinks" /\ k \in todo[s] \cup Plugins
                                                       THEN Holding[<<"final", s>>] ELSE {}
                         /\ Due[k][<<"samples", s>>] = IF k \in Sinks THEN Holding[<<"samples", s>>]
                                                                      ELSE {}
                         /\ Due[k][<<"other", s>>] = IF phase[s] = "other" /\ k \in todo[s]
                                                       THEN Holding[<<"other", s>>] ELSE {}
                    /\ \A g \in Posting : Due[k][<<"forward", g>>] = Holding[<<"forward", g>>]
                    /\ \A g \in Receiving : Due[k][<<"import", g>>] = Holding[<<"import", g>>]
                    /\ \A g \in Plugging :
                         Due[k][<<"post", g>>] = IF k \in g.left THEN Holding[<<"post", g>>] ELSE {}
  BY Zenon DEF DueKinds
<1>0. \A p \in Place :
        Due[k][p] = IF /\ p[1] = "final" => phase[p[2]] = "sinks" /\ k \in todo[p[2]] \cup Plugins
                       /\ p[1] = "other" => phase[p[2]] = "other" /\ k \in todo[p[2]]
                       /\ p[1] = "samples" => k \in Sinks
                       /\ p[1] = "post" => k \in p[2].left
                      THEN Holding[p] ELSE {}
  BY Zenon DEF Due, Opens
<1>1. ASSUME NEW w \in Workers
      PROVE  /\ Due[k][<<"packet", w>>] = Holding[<<"packet", w>>]
             /\ Due[k][<<"hand", w>>] = Holding[<<"hand", w>>]
             /\ Due[k][<<"wm", w>>] = Holding[<<"wm", w>>]
             /\ Due[k][<<"importChan", w>>] = Holding[<<"importChan", w>>]
             /\ Due[k][<<"chunk", w>>] = Holding[<<"chunk", w>>]
  <2>1. \A p \in Place : p[1] \notin {"final", "other", "samples", "post"} => Due[k][p] = Holding[p]
    BY Zenon, <1>0
  <2> QED
    BY <2>1, PlaceOf DEF ArePlaces
<1>2. ASSUME NEW s \in Servers
      PROVE  /\ Due[k][<<"temp", s>>] = Holding[<<"temp", s>>]
             /\ Due[k][<<"final", s>>] = IF phase[s] = "sinks" /\ k \in todo[s] \cup Plugins
                                           THEN Holding[<<"final", s>>] ELSE {}
             /\ Due[k][<<"samples", s>>] = IF k \in Sinks THEN Holding[<<"samples", s>>] ELSE {}
             /\ Due[k][<<"other", s>>] = IF phase[s] = "other" /\ k \in todo[s]
                                           THEN Holding[<<"other", s>>] ELSE {}
  BY Zenon, <1>0, PlaceOf DEF ArePlaces
<1>3. /\ \A g \in Posting : Due[k][<<"forward", g>>] = Holding[<<"forward", g>>]
      /\ \A g \in Receiving : Due[k][<<"import", g>>] = Holding[<<"import", g>>]
      /\ \A g \in Plugging :
           Due[k][<<"post", g>>] = IF k \in g.left THEN Holding[<<"post", g>>] ELSE {}
  BY Zenon, <1>0, PlaceOf DEF ArePlaces
<1> QED
  BY Zenon, <1>1, <1>2, <1>3

\* The same after a step.
LEMMA DueNext == DueKinds'
BY DueAt, PTL

QueuedPart(t) ==
  t \in UNION {TokensOf(m) : m \in Queued}
    <=> \E w \in Workers : t \in Holding[<<"packet", w>>] \/ t \in Holding[<<"hand", w>>]

EntriesPart(t) ==
  t \in ValueTokens(AllOf(Entries)) \cup {<<"aggregate", m>> : m \in OwnOf(Entries)}
    <=> \/ \E w \in Workers : t \in Holding[<<"wm", w>>]
        \/ \E s \in Servers : t \in Holding[<<"temp", s>>]

MovingPart(t) ==
  t \in ValueTokens(AllOf(Moving))
    <=> \/ \E w \in Workers : t \in Holding[<<"importChan", w>>] \/ t \in Holding[<<"chunk", w>>]
        \/ \E g \in Posting : t \in Holding[<<"forward", g>>]
        \/ \E g \in Receiving : t \in Holding[<<"import", g>>]

\* The samples in packet channels and in the hands of workers.
LEMMA QueuedParts == \A t : QueuedPart(t)
<1> SUFFICES ASSUME NEW t PROVE QueuedPart(t)
  OBVIOUS
<1>1. \A w \in Workers : /\ Holding[<<"packet", w>>] = QueueTokens(Elements(packetChan[w]))
                         /\ Holding[<<"hand", w>>] = QueueTokens(hand[w])
  BY Zenon, HeldAt DEF WorkerHolding
<1>2. \A m : m \in Queued <=> \E w \in Workers : m \in Elements(packetChan[w]) \/ m \in hand[w]
  BY DEF Queued
<1>3. t \in UNION {TokensOf(m) : m \in Queued} <=> t[2] \in Queued /\ t \in TokensOf(t[2])
  <2>1. UNION {TokensOf(m) : m \in Queued} = QueueTokens(Queued)
    BY DEF QueueTokens
  <2> QED
    BY <2>1, QueueTokensIn
<1>4. ASSUME NEW w \in Workers
      PROVE  /\ t \in Holding[<<"packet", w>>] <=>
                  t[2] \in Elements(packetChan[w]) /\ t \in TokensOf(t[2])
             /\ t \in Holding[<<"hand", w>>] <=> t[2] \in hand[w] /\ t \in TokensOf(t[2])
  <2>1. /\ t \in QueueTokens(Elements(packetChan[w])) <=>
             t[2] \in Elements(packetChan[w]) /\ t \in TokensOf(t[2])
        /\ t \in QueueTokens(hand[w]) <=> t[2] \in hand[w] /\ t \in TokensOf(t[2])
    BY QueueTokensIn
  <2> QED
    BY Zenon, <1>1, <2>1
<1>5. t[2] \in Queued <=> \E w \in Workers : t[2] \in Elements(packetChan[w]) \/ t[2] \in hand[w]
  BY <1>2
<1> QED
  BY <1>3, <1>4, <1>5, Zenon DEF QueuedPart

\* The samples in samplers, and those a flush has gathered.
LEMMA EntriesParts == \A t : EntriesPart(t)
<1> SUFFICES ASSUME NEW t PROVE EntriesPart(t)
  OBVIOUS
<1>1. /\ \A w \in Workers : Holding[<<"wm", w>>] = EntryTokens(wm[w])
      /\ \A s \in Servers : Holding[<<"temp", s>>] = EntryTokens(TempEntries(s))
  BY Zenon, HeldAt DEF WorkerHolding, ServerHolding
<1>2. t \in ValueTokens(AllOf(Entries)) \cup {<<"aggregate", m>> : m \in OwnOf(Entries)}
        <=> \/ t[2] \in AllOf(Entries) /\ t = ValueToken(t[2])
            \/ t[2] \in OwnOf(Entries) /\ t = <<"aggregate", t[2]>>
  BY ValueTokensIn
<1>3. \A es : t \in EntryTokens(es) <=> \/ t[2] \in AllOf(es) /\ t = ValueToken(t[2])
                                        \/ t[2] \in OwnOf(es) /\ t = <<"aggregate", t[2]>>
  BY EntryTokensIn
<1>4. \A e : e \in Entries <=> \/ \E w \in Workers : e \in wm[w]
                               \/ \E s \in Servers : e \in TempEntries(s)
  BY DEF Entries
<1>5. \A m : m \in AllOf(Entries) <=> \/ \E w \in Workers : m \in AllOf(wm[w])
                                      \/ \E s \in Servers : m \in AllOf(TempEntries(s))
  BY <1>4 DEF AllOf
<1>6. \A m : m \in OwnOf(Entries) <=> \/ \E w \in Workers : m \in OwnOf(wm[w])
                                      \/ \E s \in Servers : m \in OwnOf(TempEntries(s))
  BY <1>4 DEF OwnOf
<1>7. \A w \in Workers : t \in Holding[<<"wm", w>>] <=>
        \/ t[2] \in AllOf(wm[w]) /\ t = ValueToken(t[2])
        \/ t[2] \in OwnOf(wm[w]) /\ t = <<"aggregate", t[2]>>
  BY Zenon, <1>1, <1>3
<1>8. \A s \in Servers : t \in Holding[<<"temp", s>>] <=>
        \/ t[2] \in AllOf(TempEntries(s)) /\ t = ValueToken(t[2])
        \/ t[2] \in OwnOf(TempEntries(s)) /\ t = <<"aggregate", t[2]>>
  BY Zenon, <1>1, <1>3
<1>9. t[2] \in AllOf(Entries) <=> \/ \E w \in Workers : t[2] \in AllOf(wm[w])
                                  \/ \E s \in Servers : t[2] \in AllOf(TempEntries(s))
  BY <1>5
<1>10. t[2] \in OwnOf(Entries) <=> \/ \E w \in Workers : t[2] \in OwnOf(wm[w])
                                   \/ \E s \in Servers : t[2] \in OwnOf(TempEntries(s))
  BY <1>6
<1> QED
  BY <1>2, <1>7, <1>8, <1>9, <1>10, Zenon DEF EntriesPart

\* The samples forwarded or imported.
LEMMA MovingParts ==
  ASSUME TypeOK
  PROVE  \A t : MovingPart(t)
<1> SUFFICES ASSUME NEW t PROVE MovingPart(t)
  OBVIOUS
<1>1. \A w \in Workers : /\ Holding[<<"importChan", w>>] = ValueTokens(AllOf(InChan(w)))
                         /\ Holding[<<"chunk", w>>] = ValueTokens(AllOf(chunk[w]))
  BY Zenon, HeldAt DEF WorkerHolding
<1>2. /\ \A g \in Posting :
           Holding[<<"forward", g>>] = IF g \in forwards THEN ValueTokens(AllOf(g.body)) ELSE {}
      /\ \A g \in Receiving :
           Holding[<<"import", g>>] = IF g \in importing THEN ValueTokens(AllOf(g.rest)) ELSE {}
  BY Zenon, HeldAt DEF GoroutineHolding
<1>3. \A ms : t \in ValueTokens(ms) <=> t[2] \in ms /\ t = ValueToken(t[2])
  BY ValueTokensIn
<1>4. \A j : j \in Moving <=> \/ \E g \in forwards : j \in g.body
                              \/ \E g \in importing : j \in g.rest
                              \/ \E w \in Workers : j \in InChan(w) \/ j \in chunk[w]
  BY DEF Moving, InChan
<1>5. \A m : m \in AllOf(Moving) <=> \/ \E g \in forwards : m \in AllOf(g.body)
                                     \/ \E g \in importing : m \in AllOf(g.rest)
                                     \/ \E w \in Workers : m \in AllOf(InChan(w)) \/ m \in AllOf(chunk[w])
  BY <1>4 DEF AllOf
<1>6. forwards \subseteq Posting /\ importing \subseteq Receiving
  BY DEF TypeOK, FlusherTypeOK, Posting, Receiving
<1>7. \A w \in Workers :
        /\ t \in Holding[<<"importChan", w>>] <=> t[2] \in AllOf(InChan(w)) /\ t = ValueToken(t[2])
        /\ t \in Holding[<<"chunk", w>>] <=> t[2] \in AllOf(chunk[w]) /\ t = ValueToken(t[2])
  BY Zenon, <1>1, <1>3
<1>8. /\ \A g \in Posting : t \in Holding[<<"forward", g>>] <=>
           g \in forwards /\ t[2] \in AllOf(g.body) /\ t = ValueToken(t[2])
      /\ \A g \in Receiving : t \in Holding[<<"import", g>>] <=>
           g \in importing /\ t[2] \in AllOf(g.rest) /\ t = ValueToken(t[2])
  <2>1. ASSUME NEW g \in Posting
        PROVE  t \in Holding[<<"forward", g>>] <=>
                 g \in forwards /\ t[2] \in AllOf(g.body) /\ t = ValueToken(t[2])
    <3>1. Holding[<<"forward", g>>] = IF g \in forwards THEN ValueTokens(AllOf(g.body)) ELSE {}
      BY Zenon, <1>2
    <3>2. t \in ValueTokens(AllOf(g.body)) <=> t[2] \in AllOf(g.body) /\ t = ValueToken(t[2])
      BY Zenon, <1>3
    <3> QED
      BY <3>1, <3>2
  <2>2. ASSUME NEW g \in Receiving
        PROVE  t \in Holding[<<"import", g>>] <=>
                 g \in importing /\ t[2] \in AllOf(g.rest) /\ t = ValueToken(t[2])
    <3>1. Holding[<<"import", g>>] = IF g \in importing THEN ValueTokens(AllOf(g.rest)) ELSE {}
      BY Zenon, <1>2
    <3>2. t \in ValueTokens(AllOf(g.rest)) <=> t[2] \in AllOf(g.rest) /\ t = ValueToken(t[2])
      BY Zenon, <1>3
    <3> QED
      BY <3>1, <3>2
  <2> QED
    BY Zenon, <2>1, <2>2
<1>9. t[2] \in AllOf(Moving) <=> \/ \E g \in Posting : g \in forwards /\ t[2] \in AllOf(g.body)
                                 \/ \E g \in Receiving : g \in importing /\ t[2] \in AllOf(g.rest)
                                 \/ \E w \in Workers : \/ t[2] \in AllOf(InChan(w))
                                                       \/ t[2] \in AllOf(chunk[w])
  BY <1>5, <1>6
<1>10. t \in ValueTokens(AllOf(Moving)) <=> t[2] \in AllOf(Moving) /\ t = ValueToken(t[2])
  BY <1>3
<1> QED
  BY <1>7, <1>8, <1>9, <1>10, Zenon DEF MovingPart

PointsPart(k, t) ==
  t \in PointTokens(PointsFor(k)) <=> \/ \E s \in Servers : t \in Due[k][<<"final", s>>]
                                      \/ \E g \in Plugging : t \in Due[k][<<"post", g>>]

EventsPart(k, t) ==
  t \in EventTokens(EventsFor(k))
    <=> \E s \in Servers : t \in Due[k][<<"samples", s>>] \/ t \in Due[k][<<"other", s>>]

\* The points of a flush, and those its plugin goroutines carry.
LEMMA PointsParts ==
  ASSUME TypeOK, NEW k \in Receivers
  PROVE  \A t : PointsPart(k, t)
<1> SUFFICES ASSUME NEW t PROVE PointsPart(k, t)
  OBVIOUS
<1>1. /\ \A s \in Servers :
           /\ Due[k][<<"final", s>>] = IF phase[s] = "sinks" /\ k \in todo[s] \cup Plugins
                                         THEN Holding[<<"final", s>>] ELSE {}
           /\ Holding[<<"final", s>>] = IF phase[s] = "sinks" THEN PointTokens(final[s]) ELSE {}
      /\ \A g \in Plugging :
           /\ Due[k][<<"post", g>>] = IF k \in g.left THEN Holding[<<"post", g>>] ELSE {}
           /\ Holding[<<"post", g>>] = IF g \in posts THEN PointTokens(g.points) ELSE {}
  BY Zenon, DueAt, HeldAt DEF DueKinds, ServerHolding, GoroutineHolding
<1>2. posts \subseteq Plugging
  BY DEF TypeOK, FlusherTypeOK, Plugging
<1>3. \A p : p \in PointsFor(k) <=>
        \/ \E s \in Servers : phase[s] = "sinks" /\ k \in todo[s] \cup Plugins /\ p \in final[s]
        \/ \E g \in Plugging : g \in posts /\ k \in g.left /\ p \in g.points
  BY <1>2 DEF PointsFor
<1>4. \A ps : t \in PointTokens(ps) <=> \E p \in ps : t[2] \in p.ms /\ t = <<p.facet, t[2]>>
  BY PointTokensIn
<1>5. ASSUME NEW s \in Servers
      PROVE  t \in Due[k][<<"final", s>>] <=>
               /\ phase[s] = "sinks" /\ k \in todo[s] \cup Plugins
               /\ \E p \in final[s] : t[2] \in p.ms /\ t = <<p.facet, t[2]>>
  <2>1. t \in PointTokens(final[s]) <=> \E p \in final[s] : t[2] \in p.ms /\ t = <<p.facet, t[2]>>
    BY <1>4
  <2>2. t \in Due[k][<<"final", s>>] <=>
          phase[s] = "sinks" /\ k \in todo[s] \cup Plugins /\ t \in PointTokens(final[s])
    BY <1>1
  <2> QED
    BY <2>1, <2>2, Zenon
<1>6. ASSUME NEW g \in Plugging
      PROVE  t \in Due[k][<<"post", g>>] <=>
               /\ k \in g.left /\ g \in posts
               /\ \E p \in g.points : t[2] \in p.ms /\ t = <<p.facet, t[2]>>
  <2>1. t \in PointTokens(g.points) <=> \E p \in g.points : t[2] \in p.ms /\ t = <<p.facet, t[2]>>
    BY <1>4
  <2>2. t \in Due[k][<<"post", g>>] <=> k \in g.left /\ g \in posts /\ t \in PointTokens(g.points)
    BY Zenon, <1>1
  <2> QED
    BY <2>1, <2>2, Zenon
<1>7. t \in PointTokens(PointsFor(k)) <=>
        \E p \in PointsFor(k) : t[2] \in p.ms /\ t = <<p.facet, t[2]>>
  BY <1>4
<1> QED
  <2>1. t \in PointTokens(PointsFor(k)) <=>
          \/ \E s \in Servers : /\ phase[s] = "sinks" /\ k \in todo[s] \cup Plugins
                                /\ \E p \in final[s] : t[2] \in p.ms /\ t = <<p.facet, t[2]>>
          \/ \E g \in Plugging : /\ k \in g.left /\ g \in posts
                                 /\ \E p \in g.points : t[2] \in p.ms /\ t = <<p.facet, t[2]>>
    BY Zenon, <1>3, <1>7
  <2>2. /\ (\E s \in Servers : t \in Due[k][<<"final", s>>]) <=>
             \E s \in Servers : /\ phase[s] = "sinks" /\ k \in todo[s] \cup Plugins
                                /\ \E p \in final[s] : t[2] \in p.ms /\ t = <<p.facet, t[2]>>
        /\ (\E g \in Plugging : t \in Due[k][<<"post", g>>]) <=>
             \E g \in Plugging : /\ k \in g.left /\ g \in posts
                                 /\ \E p \in g.points : t[2] \in p.ms /\ t = <<p.facet, t[2]>>
    BY <1>5, <1>6, Zenon
  <2> QED
    BY <2>1, <2>2, Zenon DEF PointsPart

\* A receiver is a sink or a plugin.
LEMMA SinkOrPlugin == \A k \in Receivers : k \in Sinks <=> k \notin Plugins
BY FlusherAssumption DEF Receivers, Sinks, Plugins

\* Events and service checks.
LEMMA EventsParts ==
  ASSUME TypeOK, NEW k \in Receivers
  PROVE  \A t : EventsPart(k, t)
<1> SUFFICES ASSUME NEW t PROVE EventsPart(k, t)
  OBVIOUS
<1>1. \A s \in Servers :
        /\ Due[k][<<"samples", s>>] = IF k \in Sinks THEN Holding[<<"samples", s>>] ELSE {}
        /\ Due[k][<<"other", s>>] = IF phase[s] = "other" /\ k \in todo[s]
                                      THEN Holding[<<"other", s>>] ELSE {}
        /\ Holding[<<"samples", s>>] = EventTokens(samples[s])
        /\ Holding[<<"other", s>>] = IF phase[s] = "other" THEN EventTokens(other[s]) ELSE {}
  BY Zenon, DueAt, HeldAt DEF DueKinds, ServerHolding
<1>2. \A s \in Servers : todo[s] \subseteq Sinks
  BY DEF TypeOK, FlusherTypeOK
<1>3. \A es : t \in EventTokens(es) <=> t[2] \in es /\ t = <<"event", t[2]>>
  BY DEF EventTokens
<1>4. t[2] \in EventsFor(k) <=>
        \E s \in Servers : \/ k \in Sinks /\ t[2] \in samples[s]
                           \/ phase[s] = "other" /\ k \in todo[s] /\ t[2] \in other[s]
  BY <1>2, SinkOrPlugin DEF EventsFor
<1>5. ASSUME NEW s \in Servers
      PROVE  /\ t \in Due[k][<<"samples", s>>] <=>
                  k \in Sinks /\ t[2] \in samples[s] /\ t = <<"event", t[2]>>
             /\ t \in Due[k][<<"other", s>>] <=>
                  phase[s] = "other" /\ k \in todo[s] /\ t[2] \in other[s] /\ t = <<"event", t[2]>>
  <2>1. /\ t \in EventTokens(samples[s]) <=> t[2] \in samples[s] /\ t = <<"event", t[2]>>
        /\ t \in EventTokens(other[s]) <=> t[2] \in other[s] /\ t = <<"event", t[2]>>
    BY <1>3
  <2>2. /\ Due[k][<<"samples", s>>] = IF k \in Sinks THEN Holding[<<"samples", s>>] ELSE {}
        /\ Due[k][<<"other", s>>] = IF phase[s] = "other" /\ k \in todo[s]
                                      THEN Holding[<<"other", s>>] ELSE {}
        /\ Holding[<<"samples", s>>] = EventTokens(samples[s])
        /\ Holding[<<"other", s>>] = IF phase[s] = "other" THEN EventTokens(other[s]) ELSE {}
    BY Zenon, <1>1
  <2>3. t \in Due[k][<<"samples", s>>] <=> k \in Sinks /\ t[2] \in samples[s] /\ t = <<"event", t[2]>>
    BY Zenon, <2>1, <2>2
  <2>4. t \in Due[k][<<"other", s>>] <=>
          phase[s] = "other" /\ k \in todo[s] /\ t[2] \in other[s] /\ t = <<"event", t[2]>>
    BY Zenon, <2>1, <2>2
  <2> QED
    BY Zenon, <2>3, <2>4
<1>6. t \in EventTokens(EventsFor(k)) <=> t[2] \in EventsFor(k) /\ t = <<"event", t[2]>>
  BY <1>3
<1> QED
  BY <1>4, <1>5, <1>6, Zenon DEF EventsPart

EnRoutePlaces == \A k \in Receivers : EnRoute(k) = EnRouteTo[k]

\* EnRoute of Forwarding is what the places hold for the receiver.
LEMMA EnRouteIs == TypeOK => EnRoutePlaces
<1> SUFFICES ASSUME TypeOK, NEW k \in Receivers, NEW t
             PROVE  t \in EnRoute(k) <=> t \in EnRouteTo[k]
  BY DEF EnRoutePlaces
<1>1. t \in EnRoute(k) <=>
        \/ t \in UNION {TokensOf(m) : m \in Queued}
        \/ t \in ValueTokens(AllOf(Entries)) \cup {<<"aggregate", m>> : m \in OwnOf(Entries)}
        \/ t \in ValueTokens(AllOf(Moving))
        \/ t \in PointTokens(PointsFor(k)) \/ t \in EventTokens(EventsFor(k))
  <2>1. ASSUME NEW ms, ms = AllOf(Entries) \cup AllOf(Moving)
        PROVE  t \in ValueTokens(ms) <=> t \in ValueTokens(AllOf(Entries)) \/ t \in ValueTokens(AllOf(Moving))
    BY <2>1, ValueTokensIn
  <2>2. t \in ValueTokens(AllOf(Entries) \cup AllOf(Moving)) <=>
          t \in ValueTokens(AllOf(Entries)) \/ t \in ValueTokens(AllOf(Moving))
    BY <2>1
  <2> QED
    BY <2>2, Zenon DEF EnRoute
<1>2. QueuedPart(t) /\ EntriesPart(t) /\ MovingPart(t) /\ PointsPart(k, t) /\ EventsPart(k, t)
  BY QueuedParts, EntriesParts, MovingParts, PointsParts, EventsParts
<1>3. /\ \A w \in Workers : /\ Due[k][<<"packet", w>>] = Holding[<<"packet", w>>]
                            /\ Due[k][<<"hand", w>>] = Holding[<<"hand", w>>]
                            /\ Due[k][<<"wm", w>>] = Holding[<<"wm", w>>]
                            /\ Due[k][<<"importChan", w>>] = Holding[<<"importChan", w>>]
                            /\ Due[k][<<"chunk", w>>] = Holding[<<"chunk", w>>]
      /\ \A s \in Servers : Due[k][<<"temp", s>>] = Holding[<<"temp", s>>]
      /\ \A g \in Posting : Due[k][<<"forward", g>>] = Holding[<<"forward", g>>]
      /\ \A g \in Receiving : Due[k][<<"import", g>>] = Holding[<<"import", g>>]
  BY Zenon, DueAt DEF DueKinds
<1>4. t \in EnRoute(k) <=>
        \/ \E w \in Workers : t \in Due[k][<<"packet", w>>] \/ t \in Due[k][<<"hand", w>>]
        \/ \E w \in Workers : t \in Due[k][<<"wm", w>>]
        \/ \E s \in Servers : t \in Due[k][<<"temp", s>>]
        \/ \E w \in Workers : t \in Due[k][<<"importChan", w>>] \/ t \in Due[k][<<"chunk", w>>]
        \/ \E g \in Posting : t \in Due[k][<<"forward", g>>]
        \/ \E g \in Receiving : t \in Due[k][<<"import", g>>]
        \/ \E s \in Servers : t \in Due[k][<<"final", s>>]
        \/ \E g \in Plugging : t \in Due[k][<<"post", g>>]
        \/ \E s \in Servers : t \in Due[k][<<"samples", s>>] \/ t \in Due[k][<<"other", s>>]
  BY Zenon, <1>1, <1>2, <1>3 DEF QueuedPart, EntriesPart, MovingPart, PointsPart, EventsPart
<1>5. t \in EnRouteTo[k] <=>
          \/ \E w \in Workers : \/ t \in Due[k][<<"packet", w>>] \/ t \in Due[k][<<"hand", w>>]
                                \/ t \in Due[k][<<"wm", w>>] \/ t \in Due[k][<<"importChan", w>>]
                                \/ t \in Due[k][<<"chunk", w>>]
          \/ \E s \in Servers : \/ t \in Due[k][<<"temp", s>>] \/ t \in Due[k][<<"final", s>>]
                                \/ t \in Due[k][<<"samples", s>>] \/ t \in Due[k][<<"other", s>>]
          \/ \E g \in Posting : t \in Due[k][<<"forward", g>>]
          \/ \E g \in Receiving : t \in Due[k][<<"import", g>>]
          \/ \E g \in Plugging : t \in Due[k][<<"post", g>>]
  <2>1. t \in EnRouteTo[k] <=> \E p \in Place : t \in Due[k][p]
    BY DEF EnRouteTo
  <2>2. ASSUME NEW p \in Place, t \in Due[k][p]
        PROVE  \/ \E w \in Workers : \/ t \in Due[k][<<"packet", w>>] \/ t \in Due[k][<<"hand", w>>]
                                     \/ t \in Due[k][<<"wm", w>>] \/ t \in Due[k][<<"importChan", w>>]
                                     \/ t \in Due[k][<<"chunk", w>>]
               \/ \E s \in Servers : \/ t \in Due[k][<<"temp", s>>] \/ t \in Due[k][<<"final", s>>]
                                     \/ t \in Due[k][<<"samples", s>>] \/ t \in Due[k][<<"other", s>>]
               \/ \E g \in Posting : t \in Due[k][<<"forward", g>>]
               \/ \E g \in Receiving : t \in Due[k][<<"import", g>>]
               \/ \E g \in Plugging : t \in Due[k][<<"post", g>>]
    <3>1. CASE \E w \in Workers : p \in {<<"packet", w>>, <<"hand", w>>, <<"wm", w>>,
                                         <<"importChan", w>>, <<"chunk", w>>}
      BY Zenon, <2>2, <3>1
    <3>2. CASE \E s \in Servers : p \in {<<"temp", s>>, <<"final", s>>, <<"samples", s>>, <<"other", s>>}
      BY Zenon, <2>2, <3>2
    <3>3. CASE \/ \E g \in Posting : p = <<"forward", g>>
               \/ \E g \in Receiving : p = <<"import", g>>
               \/ \E g \in Plugging : p = <<"post", g>>
      BY Zenon, <2>2, <3>3
    <3> QED
      BY Zenon, <3>1, <3>2, <3>3, PlaceKinds DEF PlaceKind
  <2> QED
    BY Zenon, <2>1, <2>2, PlaceOf DEF ArePlaces
<1> QED
  BY Zenon, <1>4, <1>5

\* The same after a step.
LEMMA EnRouteNext == TypeOK' => EnRoutePlaces'
BY EnRouteIs, PTL
=============================================================================
