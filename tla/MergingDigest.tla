---------------------------- MODULE MergingDigest ----------------------------
(***************************************************************************)
(* The t-digest of a histogram: samples go to a buffer, mergeAllTemps merges *)
(* the buffer into the list of centroids in place, using the start of the    *)
(* buffer for the centroids it would overwrite, and Quantile and CDF read    *)
(* the list.  A local server encodes its digest, and a global one decodes    *)
(* and merges what it is sent.                                               *)
(*                                                                         *)
(* Arithmetic is exact: a centroid, like any number here, is the fraction    *)
(* s / w; for a centroid w is its weight.  Weight 0 gives the infinities.    *)
(* Samples are finite and weights positive.                                  *)
(***************************************************************************)
EXTENDS Integers, FiniteSetsExt, SequencesExt, TLC

CONSTANTS Values,       \* the values sampled
          Weights,      \* 1 / sampleRate
          Compression,  \* 2, 3 or 4
          TempCap,      \* estimateTempBuffer
          MaxSamples    \* bound on the samples taken

VARIABLES dig,     \* the digests: "local", and "global" of the upstream server
          wire,    \* encoded digests on their way, at most one
          sampled, \* number of samples taken
          truth    \* history: what each digest, and the wire, stands for

vars == <<dig, wire, sampled, truth>>

-----------------------------------------------------------------------------
(* Fractions. *)

PosInf == [s |-> 1, w |-> 0]
NegInf == [s |-> -1, w |-> 0]

\* The order of two fractions; of centroids, centroidList.Less.
Less(a, b) == a.s * b.w < b.s * a.w

Lowest(a, b) == IF Less(b, a) THEN b ELSE a
Highest(a, b) == IF Less(a, b) THEN b ELSE a
Equal(a, b) == ~Less(a, b) /\ ~Less(b, a)

RECURSIVE GCD(_, _)
GCD(m, n) == IF n = 0 THEN m ELSE GCD(n, m % n)

Frac(n, d) == LET g == GCD(IF n < 0 THEN -n ELSE n, d) IN [s |-> n \div g, w |-> d \div g]
Plus(a, b) == Frac(a.s * b.w + b.s * a.w, a.w * b.w)
Minus(a, b) == Frac(a.s * b.w - b.s * a.w, a.w * b.w)
Times(a, b) == Frac(a.s * b.s, a.w * b.w)
Over(a, b) == Frac(a.s * b.w, a.w * b.s)

Weight(cs) == FoldLeft(LAMBDA n, c : n + c.w, 0, cs)

-----------------------------------------------------------------------------
(* Merging. *)

NewMerging ==
  [main |-> <<>>, mainWeight |-> 0, temp |-> <<>>, tempWeight |-> 0, min |-> PosInf, max |-> NegInf]

\* The cosine of the angle between two indices of distance 1; for 4, near enough to tell
\* fractions of small weights apart.
CosStep == [c \in 2..4 |-> IF c = 2 THEN [s |-> 0, w |-> 1]
                           ELSE IF c = 3 THEN [s |-> 1, w |-> 2] ELSE [s |-> 12, w |-> 17]][Compression]

\* indexEstimate(b / total) - indexEstimate(a / total) > 1, where indexEstimate is an arcsine:
\* compared through the cosine of the difference of the two angles.
TooWide(a, b, total) ==
  LET rhs == CosStep.s * total * total - CosStep.w * (2 * a - total) * (2 * b - total)
  IN  rhs > 0 /\ 16 * CosStep.w * CosStep.w * a * (total - a) * b * (total - b) < rhs * rhs

\* The next centroid becomes a centroid of the list, or part of the last one.  m.last is the
\* weight before the last centroid; the first m.len cells of m.list are in use.
mergeOne(m, c, total) ==
  IF TooWide(m.last, m.merged + c.w, total) \/ m.len = 0
    THEN [m EXCEPT !.list = IF m.len < Len(@) THEN [@ EXCEPT ![m.len + 1] = c] ELSE Append(@, c),
                   !.len = @ + 1, !.last = m.merged, !.merged = @ + c.w]
    ELSE [m EXCEPT !.list[m.len] = [s |-> @.s + c.s, w |-> @.w + c.w], !.merged = @ + c.w]

\* Where mergeAllTemps is in its loop: m.list is the memory of mainCentroids, of which the
\* centroids from p on have not been looked at; buf is that of tempCentroids, of which those
\* from t on have not, and those from lo to hi are mains that were swapped out.
Start(td, order) ==
  [m |-> [list |-> td.main, len |-> 0, merged |-> 0, last |-> 0],
   p |-> 1, buf |-> order, t |-> 1, lo |-> 1, hi |-> 0]

\* Mutant of Advance: a main that came from the swap makes no room for the next one.
AdvanceNoCopy(st, n, total) ==
  LET nextTemp == IF st.t <= Len(st.buf) THEN st.buf[st.t] ELSE PosInf
      nextMain == IF st.lo <= st.hi THEN st.buf[st.lo]
                  ELSE IF st.p <= n THEN st.m.list[st.p] ELSE PosInf
  IN  IF Less(nextMain, nextTemp)
        THEN [st EXCEPT !.p = IF st.p <= n THEN @ + 1 ELSE @,
                        !.buf = IF st.p <= n /\ st.lo <= st.hi
                                  THEN [@ EXCEPT ![st.lo] = st.m.list[st.p]] ELSE @,
                        !.lo = IF st.p <= n THEN @ ELSE @ + 1,
                        !.m = mergeOne(@, nextMain, total)]
        ELSE [st EXCEPT !.p = IF st.p <= n THEN @ + 1 ELSE @,
                        !.buf = IF st.p <= n THEN [@ EXCEPT ![st.hi + 1] = st.m.list[st.p]] ELSE @,
                        !.hi = IF st.p <= n THEN @ + 1 ELSE @,
                        !.t = @ + 1,
                        !.m = mergeOne(@, nextTemp, total)]

\* One iteration.  While there are mains that have not been looked at, the one that the merged
\* list may overwrite is moved to the end of the swapped ones.
Advance(st, n, total) ==
  LET nextTemp == IF st.t <= Len(st.buf) THEN st.buf[st.t] ELSE PosInf
      nextMain == IF st.lo <= st.hi THEN st.buf[st.lo]
                  ELSE IF st.p <= n THEN st.m.list[st.p] ELSE PosInf
  IN  IF Less(nextMain, nextTemp)
        THEN [st EXCEPT !.p = IF st.p <= n THEN @ + 1 ELSE @,
                        !.buf = IF st.p <= n /\ st.lo <= st.hi
                                  THEN [i \in DOMAIN @ |-> IF i \in st.lo .. st.hi - 1 THEN @[i + 1]
                                                           ELSE IF i = st.hi THEN st.m.list[st.p] ELSE @[i]]
                                  ELSE @,
                        !.lo = IF st.p <= n THEN @ ELSE @ + 1,
                        !.m = mergeOne(@, nextMain, total)]
        ELSE [st EXCEPT !.p = IF st.p <= n THEN @ + 1 ELSE @,
                        !.buf = IF st.p <= n THEN [@ EXCEPT ![st.hi + 1] = st.m.list[st.p]] ELSE @,
                        !.hi = IF st.p <= n THEN @ + 1 ELSE @,
                        !.t = @ + 1,
                        !.m = mergeOne(@, nextTemp, total)]

RECURSIVE Loop(_, _, _)
Loop(st, n, total) ==
  IF st.p <= n \/ st.lo <= st.hi \/ st.t <= Len(st.buf) THEN Loop(Advance(st, n, total), n, total) ELSE st

\* The digest after the loop.
InPlace(td, order) ==
  LET total == td.mainWeight + td.tempWeight
      m == Loop(Start(td, order), Len(td.main), total).m
  IN  [td EXCEPT !.main = SubSeq(m.list, 1, m.len), !.mainWeight = total, !.temp = <<>>, !.tempWeight = 0]

\* What sort.Sort, which is not stable, may return.
RECURSIVE Sorts(_)
Sorts(cs) ==
  IF cs = <<>> THEN {<<>>}
  ELSE UNION {{<<cs[i]>> \o rest : rest \in Sorts(RemoveAt(cs, i))} :
                i \in {j \in DOMAIN cs : \A k \in DOMAIN cs : ~Less(cs[k], cs[j])}}

\* mergeAllTemps and the operations below are sets of results, one for each order that sorting
\* and rand.Perm may leave.
mergeAllTemps(td) == IF td.temp = <<>> THEN {td} ELSE {InPlace(td, order) : order \in Sorts(td.temp)}

\* Add of the mean and the weight of c.
Add(td, c) ==
  {[x EXCEPT !.min = Lowest(@, c), !.max = Highest(@, c),
             !.temp = Append(@, c), !.tempWeight = @ + c.w] :
     x \in IF Len(td.temp) = TempCap THEN mergeAllTemps(td) ELSE {td}}

AddAll(td, cs) == FoldLeft(LAMBDA tds, c : UNION {Add(x, c) : x \in tds}, {td}, cs)

Merge(td, other) ==
  UNION {AddAll(td, [i \in DOMAIN p |-> other.main[p[i]]] \o other.temp) : p \in Permutations(DOMAIN other.main)}

Encoded(td) == [main |-> td.main, min |-> td.min, max |-> td.max]

GobEncode(td) == {Encoded(x) : x \in mergeAllTemps(td)}

GobDecode(e) ==
  [main |-> e.main, mainWeight |-> Weight(e.main), temp |-> <<>>, tempWeight |-> 0,
   min |-> e.min, max |-> e.max]

Count(td) == td.mainWeight + td.tempWeight

-----------------------------------------------------------------------------
(* Reading a digest whose buffer is empty. *)

NaN == [s |-> 0, w |-> 0]

centroidUpperBound(td, i) ==
  IF i # Len(td.main) THEN Over(Plus(td.main[i + 1], td.main[i]), [s |-> 2, w |-> 1]) ELSE td.max

LowerBound(td, i) == IF i = 1 THEN td.min ELSE centroidUpperBound(td, i - 1)
WeightBefore(td, i) == [s |-> Weight(SubSeq(td.main, 1, i - 1)), w |-> 1]
WeightOf(td, i) == [s |-> td.main[i].w, w |-> 1]

Quantile(td, quantile) ==
  LET q == Times(quantile, [s |-> td.mainWeight, w |-> 1])
      Inside == {i \in DOMAIN td.main : ~Less(Plus(WeightBefore(td, i), WeightOf(td, i)), q)}
      i == Min(Inside)
      lower == LowerBound(td, i)
  IN  IF Inside = {} THEN NaN
      ELSE Plus(lower, Times(Over(Minus(q, WeightBefore(td, i)), WeightOf(td, i)),
                             Minus(centroidUpperBound(td, i), lower)))

CDF(td, value) ==
  LET Inside == {i \in DOMAIN td.main : Less(value, centroidUpperBound(td, i))}
      i == Min(Inside)
      lower == LowerBound(td, i)
      below == Over(Times(WeightOf(td, i), Minus(value, lower)), Minus(centroidUpperBound(td, i), lower))
  IN  IF td.main = <<>> THEN NaN
      ELSE IF ~Less(td.min, value) THEN [s |-> 0, w |-> 1]
      ELSE IF ~Less(value, td.max) THEN [s |-> 1, w |-> 1]
      ELSE IF Inside = {} THEN NaN
      ELSE Over(Plus(WeightBefore(td, i), below), [s |-> td.mainWeight, w |-> 1])

-----------------------------------------------------------------------------
(* A local server, its forwards and the server it forwards to. *)

Nothing == [w |-> 0, lo |-> PosInf, hi |-> NegInf]
Both(a, b) == [w |-> a.w + b.w, lo |-> Lowest(a.lo, b.lo), hi |-> Highest(a.hi, b.hi)]

Init ==
  /\ dig = [d \in {"local", "global"} |-> NewMerging]
  /\ wire = {}
  /\ sampled = 0
  /\ truth = [d \in {"local", "global", "wire"} |-> Nothing]

\* Histo.Sample.
Sample(v, weight) ==
  LET c == [s |-> v * weight, w |-> weight]
  IN  /\ sampled < MaxSamples
      /\ sampled' = sampled + 1
      /\ \E x \in Add(dig["local"], c) : dig' = [dig EXCEPT !["local"] = x]
      /\ truth' = [truth EXCEPT !["local"] = Both(@, [w |-> weight, lo |-> c, hi |-> c])]
      /\ UNCHANGED wire

\* Quantile, CDF and GobEncode all begin by merging the buffer.
Query(d) ==
  /\ \E x \in mergeAllTemps(dig[d]) : dig' = [dig EXCEPT ![d] = x]
  /\ UNCHANGED <<wire, sampled, truth>>

\* Histo.Export; the worker has a new histogram for the next interval.
Export ==
  /\ wire = {} /\ Count(dig["local"]) > 0
  /\ \E e \in GobEncode(dig["local"]) : wire' = {e}
  /\ dig' = [dig EXCEPT !["local"] = NewMerging]
  /\ truth' = [truth EXCEPT !["wire"] = truth["local"], !["local"] = Nothing]
  /\ UNCHANGED sampled

\* Histo.Combine.
Combine ==
  /\ \E e \in wire : \E x \in Merge(dig["global"], GobDecode(e)) : dig' = [dig EXCEPT !["global"] = x]
  /\ wire' = {}
  /\ truth' = [truth EXCEPT !["global"] = Both(@, truth["wire"]), !["wire"] = Nothing]
  /\ UNCHANGED sampled

Next ==
  \/ \E v \in Values, weight \in Weights : Sample(v, weight)
  \/ \E d \in DOMAIN dig : Query(d)
  \/ Export
  \/ Combine

Spec == Init /\ [][Next]_vars

-----------------------------------------------------------------------------
\* "do its weights add up?" (validateMergingDigest): buffering, merging, encoding and merging into
\* another digest lose no weight and count none twice, and the two running totals agree with
\* the lists.
WeightsAddUp ==
  /\ \A d \in DOMAIN dig :
       /\ Count(dig[d]) = truth[d].w
       /\ dig[d].mainWeight = Weight(dig[d].main) /\ dig[d].tempWeight = Weight(dig[d].temp)
  /\ \A e \in wire : Weight(e.main) = truth["wire"].w

\* CDF and Quantile walk the list from the least to the greatest mean: it is in that order, and
\* lies between the extremes, after any number of merges.
ListSorted ==
  \A d \in DOMAIN dig :
    LET td == dig[d] IN
    \A i \in DOMAIN td.main :
      /\ ~Less(td.main[i], td.min) /\ ~Less(td.max, td.main[i])
      /\ \A j \in 1 .. i - 1 : ~Less(td.main[i], td.main[j])

\* What merging into a buffer of its own would give: from the least to the greatest mean, samples
\* before centroids of the same mean.
Buffered(td, order) ==
  LET total == td.mainWeight + td.tempWeight
      all == [k \in 1 .. Len(td.main) + Len(order) |->
                CHOOSE c \in ToSet(td.main) \cup ToSet(order) :
                  \/ \E i \in DOMAIN td.main :
                       c = td.main[i] /\ k = i + Cardinality({j \in DOMAIN order : ~Less(c, order[j])})
                  \/ \E j \in DOMAIN order :
                       c = order[j] /\ k = j + Cardinality({i \in DOMAIN td.main : Less(td.main[i], c)})]
      m == FoldLeft(LAMBDA x, c : mergeOne(x, c, total), [list |-> <<>>, len |-> 0, merged |-> 0, last |-> 0], all)
  IN  [td EXCEPT !.main = m.list, !.mainWeight = total, !.temp = <<>>, !.tempWeight = 0]

\* "since we will be merging in-place into td.mainCentroids": no centroid is overwritten before it
\* was read, so that the result is the one of a merge into a separate buffer.
MergesAsBuffered ==
  \A d \in DOMAIN dig : \A order \in Sorts(dig[d].temp) : InPlace(dig[d], order) = Buffered(dig[d], order)

\* Min and Max are those of the samples, and once digests were merged, which passes on means
\* only, never outside them.
ExtremesHold ==
  /\ \A d \in DOMAIN dig : ~Less(dig[d].min, truth[d].lo) /\ ~Less(truth[d].hi, dig[d].max)
  /\ \A d \in {"local"} : Equal(dig[d].min, truth[d].lo) /\ Equal(dig[d].max, truth[d].hi)
  /\ \A e \in wire : Equal(e.min, truth["wire"].lo) /\ Equal(e.max, truth["wire"].hi)

Quarters == {[s |-> k, w |-> 4] : k \in 0..4}

\* "Returns a value such that the fraction of values in td below that value is approximately equal
\* to quantile": to the digest's own CDF the value is the one where the fraction passes the
\* quantile.  Neither loop runs off the list ("should never be reached").
QuantileInvertsCDF ==
  \A d \in DOMAIN dig :
    LET td == dig[d] IN
    td.temp = <<>> /\ td.main # <<>> =>
      \A q \in Quarters :
        LET v == Quantile(td, q) IN
        /\ v # NaN /\ ~Less(v, td.min) /\ ~Less(td.max, v)
        /\ \A x \in {[s |-> n, w |-> 2] : n \in 2 * Min(Values) .. 2 * Max(Values)} :
             /\ CDF(td, x) # NaN
             /\ Less(x, v) => ~Less(q, CDF(td, x))
             /\ Less(v, x) => ~Less(CDF(td, x), q)
=============================================================================
