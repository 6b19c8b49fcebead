------------------------------- MODULE Parser -------------------------------
(***************************************************************************)
(* The parsers of samplers/parser.go as operators on packets that are cut   *)
(* at their pipes: a packet is what comes before the optional sections and  *)
(* the sequence of those sections, each of a kind and with a value.  A tag  *)
(* of a metric is a number, in the order in which tags are sorted.  A       *)
(* section whose value is no number where one is needed has a kind of its   *)
(* own, as has one that no parser knows: both are refused.                  *)
(***************************************************************************)
EXTENDS Integers, Sequences, FiniteSets, SequencesExt

\* veneurglobalonly and veneurlocalonly among the tags, in their order.
globalonly == 5
localonly == 6

Ok(ret) == [err |-> FALSE, ret |-> ret]
Fail == [err |-> TRUE]

\* One section after the other, up to the first that is refused.
Sections(Step(_, _), start, sections) ==
  FoldLeft(LAMBDA acc, s : IF acc.err \/ s.kind = "empty" THEN Fail ELSE Step(acc.ret, s), start, sections)

Update(f, k, v) == [x \in DOMAIN f \cup {k} |-> IF x = k THEN v ELSE f[x]]

-----------------------------------------------------------------------------
(* Tags and scope *)


\* The tags sorted, and the first of them that sets a scope taken out.
SplitScope(tags) ==
  LET sorted == SortSeq(tags, <)
      at == {i \in DOMAIN sorted : sorted[i] \in {globalonly, localonly}}
      i == CHOOSE k \in at : \A l \in at : k <= l
  IN  IF at = {} THEN [scope |-> "mixed", tags |-> sorted]
      ELSE [scope |-> IF sorted[i] = localonly THEN "local" ELSE "global",
            tags |-> SubSeq(sorted, 1, i - 1) \o SubSeq(sorted, i + 1, Len(sorted))]

\* The hash is one of the name, the type and the joined tags, in that order.
Hash(name, type, tags) == <<name, type, tags>>

\* ParseTagSliceToMap: of two tags with one key the later counts.
ParseTagSliceToMap(tags) ==
  [k \in {tags[i].key : i \in DOMAIN tags} |->
     tags[CHOOSE i \in DOMAIN tags : tags[i].key = k /\ \A j \in DOMAIN tags : tags[j].key = k => j <= i].value]

-----------------------------------------------------------------------------
(* ParseMetric *)

TypeOf == [c |-> "counter", g |-> "gauge", h |-> "histogram", m |-> "timer", s |-> "set"]

\* A sample rate, in tenths, or the tags; each at most once.
MetricSection(ret, s) ==
  CASE s.kind = "@" /\ "@" \notin ret.found /\ s.value \in 1..10 ->
         Ok([ret EXCEPT !.rate = s.value, !.found = @ \cup {"@"}])
    [] s.kind = "#" /\ "#" \notin ret.found ->
         LET t == SplitScope(s.value)
         IN  Ok([ret EXCEPT !.tags = t.tags, !.scope = t.scope, !.found = @ \cup {"#"},
                            !.digest = Hash(ret.name, ret.type, t.tags)])
    [] OTHER -> Fail

\* A packet is [colon, name, value, type, sections]; type is nil without a pipe.
ParseMetric(p) ==
  IF ~p.colon \/ p.name = "" \/ p.type \notin DOMAIN TypeOf \/ (p.type # "s" /\ p.value # "number") THEN Fail
  ELSE Sections(MetricSection,
                Ok([name |-> p.name, type |-> TypeOf[p.type], value |-> p.value, rate |-> 10, scope |-> "mixed",
                    tags |-> <<>>, digest |-> Hash(p.name, TypeOf[p.type], <<>>), found |-> {}]),
                p.sections)

\* ParseMetricSSF on a sample [name, type, value, rate, tags]: the tags are a map, so that with
\* both scopes the one that is met last counts, and both tags are taken out.
ParseMetricSSF(sample) ==
  IF sample.type \notin {"counter", "gauge", "histogram", "set", "status"} THEN {Fail}
  ELSE LET tags == SetToSortSeq(sample.tags \ {globalonly, localonly}, <)
           scopes == (IF localonly \in sample.tags THEN {"local"} ELSE {})
                       \cup (IF globalonly \in sample.tags THEN {"global"} ELSE {})
       IN  {Ok([name |-> sample.name, type |-> sample.type, value |-> sample.value, rate |-> sample.rate, scope |-> sc,
                tags |-> tags, digest |-> Hash(sample.name, sample.type, tags)]) :
              sc \in IF scopes = {} THEN {"mixed"} ELSE scopes}

-----------------------------------------------------------------------------
(* ParseEvent *)

\* Text is a sequence of characters, among them a line break "nl" and its escaped form "esc" of
\* two bytes.
Bytes(text) == Len(text) + Len(SelectSeq(text, LAMBDA ch : ch = "esc"))
Unescape(text) == [i \in DOMAIN text |-> IF text[i] = "esc" THEN "nl" ELSE text[i]]

\* The special tags of protocol/dogstatsd by the kind of section they stand for.
TagKey == [h |-> "vdogstatsd_hostname", k |-> "vdogstatsd_ak", p |-> "vdogstatsd_pri", s |-> "vdogstatsd_st",
           t |-> "vdogstatsd_at"]

Acceptable(s) ==
  CASE s.kind = "p" -> s.value \in {"normal", "low"}
    [] s.kind = "t" -> s.value \in {"error", "warning", "info", "success"}
    [] OTHER -> s.kind \in {"d", "h", "k", "s", "#"}

\* Each kind of section at most once; the tags of # are added to those the others have set.
EventSection(ret, s) ==
  IF s.kind \in ret.found \/ ~Acceptable(s) THEN Fail
  ELSE LET r == [ret EXCEPT !.found = @ \cup {s.kind}]
           mapped == ParseTagSliceToMap(s.value)
       IN  Ok(CASE s.kind = "d" -> [r EXCEPT !.timestamp = s.value]
                [] s.kind = "#" -> [r EXCEPT !.tags = [k \in DOMAIN @ \cup DOMAIN mapped |->
                                                         IF k \in DOMAIN mapped THEN mapped[k] ELSE @[k]]]
                [] OTHER -> [r EXCEPT !.tags = Update(@, TagKey[s.kind], s.value)])

\* A packet is [titleLength, textLength, title, text, sections]; the lengths must be positive
\* and those of what follows.  What is missing or no integer has the length -1.
ParseEvent(p) ==
  IF p.titleLength <= 0 \/ p.textLength <= 0 \/ Bytes(p.title) # p.titleLength \/ Bytes(p.text) # p.textLength THEN Fail
  ELSE Sections(EventSection,
                Ok([name |-> p.title, message |-> Unescape(p.text), timestamp |-> "now",
                    tags |-> [k \in {"vdogstatsd_ev"} |-> ""], found |-> {}]),
                p.sections)

-----------------------------------------------------------------------------
(* ParseServiceCheck *)

\* Each kind at most once, and nothing after the message.
CheckSection(ret, s) ==
  IF "m" \in ret.found \/ s.kind \in ret.found \/ s.kind \notin {"d", "h", "m", "#"} THEN Fail
  ELSE LET r == [ret EXCEPT !.found = @ \cup {s.kind}]
       IN  Ok(CASE s.kind = "d" -> [r EXCEPT !.timestamp = s.value]
                [] s.kind = "h" -> [r EXCEPT !.hostName = s.value]
                [] s.kind = "m" -> [r EXCEPT !.message = Unescape(s.value)]
                [] OTHER -> [r EXCEPT !.tags = SplitScope(s.value).tags, !.scope = SplitScope(s.value).scope])

\* A packet is [name, status, sections].
ParseServiceCheck(p) ==
  IF p.name = "" \/ p.status \notin {"0", "1", "2", "3"} THEN Fail
  ELSE LET parsed == Sections(CheckSection,
                              Ok([name |-> p.name, value |-> p.status, timestamp |-> "now", hostName |-> "",
                                  message |-> <<>>, scope |-> "mixed", tags |-> <<>>, digest |-> <<>>, found |-> {}]),
                              p.sections)
       IN  IF parsed.err THEN Fail
           ELSE Ok([parsed.ret EXCEPT !.digest = Hash(p.name, "status", parsed.ret.tags)])
=============================================================================
