------------------------------- MODULE Tracing -------------------------------
(***************************************************************************)
(* Traces across processes that use package trace: spans are started as     *)
(* roots or below others, carried to another process in the headers of a    *)
(* request or as bytes, continued there, marked and finished, each finish   *)
(* handing a record to the client.                                          *)
(***************************************************************************)
EXTENDS Integers, Sequences, FiniteSets, FiniteSetsExt

CONSTANTS Procs,       \* processes
          Resources,   \* resources, one of which each request handler asks for
          Requests,    \* headers a request has before a trace is injected
          Explicit,    \* subset of BOOLEAN: whether times are given explicitly
          Marks,       \* the calls made on a span: a subset of {"name", "tag", "error"}
          MaxSpans, MaxCarriers, MaxRecords \* bounds

\* HeaderFormats: the order in which pairs of headers are tried.
HeaderFormats == <<"envoy", "opentracing", "ruby", "veneur">>

VARIABLES spans,    \* every *Trace made, in the order of their ids, which are 1, 2, ...
          carriers, \* [format, from, before, headers, resource]: what Inject has written
          recorded, \* what has been handed to the client
          clock

vars == <<spans, carriers, recorded, clock>>

Init == spans = <<>> /\ carriers = <<>> /\ recorded = <<>> /\ clock = 1

-----------------------------------------------------------------------------
(* Starting spans *)

\* rand.Int63: an id that no other span has, and not 0.
Int63 == Len(spans) + 1

New(p, trace, parent, resource, start) ==
  [proc |-> p, trace |-> trace, id |-> Int63, parent |-> parent, resource |-> resource, error |-> FALSE, tags |-> {},
   end |-> 0, start |-> start]

Start(span) == /\ Len(spans) < MaxSpans /\ spans' = Append(spans, span) /\ UNCHANGED <<carriers, recorded, clock>>

\* StartTrace by StartSpan without a reference; an explicit start is not looked at.
StartRoot(p, resource) == Start(New(p, Int63, 0, resource, "now"))

\* What StartSpan knows of its parent from a context: all three of its fields, or zero.
Parent(ctx) == [trace |-> ctx.trace, id |-> ctx.id, resource |-> ctx.resource]
NoParent == [trace |-> 0, id |-> 0, resource |-> ""]

\* StartChildSpan and SetParent.
StartChild(p, parent, explicit) ==
  Start(New(p, parent.trace, parent.id, parent.resource, IF explicit THEN "given" ELSE "now"))

\* StartSpan with references to contexts: spans of this process, or 0 for one of another
\* implementation, which is skipped; the last usable one counts.
StartSpan(p, refs, explicit) ==
  LET usable == {i \in DOMAIN refs : refs[i] # 0}
  IN  /\ \A i \in usable : spans[refs[i]].proc = p
      /\ StartChild(p, IF usable = {} THEN NoParent ELSE Parent(spans[refs[Max(usable)]]), explicit)

-----------------------------------------------------------------------------
(* Marking and finishing them *)

SetOperationName(s, resource) == /\ spans' = [spans EXCEPT ![s].resource = resource] /\ UNCHANGED <<carriers, recorded, clock>>

SetTag(s) == spans' = [spans EXCEPT ![s].tags = @ \cup {"tag"}] /\ UNCHANGED <<carriers, recorded, clock>>

\* Trace.Error.
Error(s) ==
  /\ spans' = [spans EXCEPT ![s].error = TRUE, ![s].tags = @ \cup {"error.msg", "error.type", "error.stack"}]
  /\ UNCHANGED <<carriers, recorded, clock>>

finish(span) == IF span.end = 0 THEN [span EXCEPT !.end = clock] ELSE span

SSFSpan(span) ==
  [trace |-> span.trace, id |-> span.id, parent |-> span.parent, error |-> span.error, tags |-> {}, sent |-> FALSE,
   end |-> span.end]

\* ClientRecord ends the span and hands its SSF form to the client.
ClientRecord(s) ==
  /\ Len(recorded) < MaxRecords
  /\ spans' = [spans EXCEPT ![s] = finish(@)] /\ clock' = clock + 1
  /\ recorded' = Append(recorded, SSFSpan(finish(spans[s])))
  /\ UNCHANGED carriers

\* Finish and FinishWithOptions: the options, an explicit time among them, are not looked at.
Finish(s) == ClientRecord(s)

\* The client writes a record out some time later, in any order; the record's map of tags is
\* still the span's own.
Send(i) ==
  /\ ~recorded[i].sent
  /\ recorded' = [recorded EXCEPT ![i].sent = TRUE, ![i].tags = spans[recorded[i].id].tags]
  /\ UNCHANGED <<spans, carriers, clock>>

-----------------------------------------------------------------------------
(* Carrying them over *)

\* Inject in one of its two forms; text goes into headers that may hold others already.
Inject(s, format, headers) ==
  /\ Len(carriers) < MaxCarriers
  /\ carriers' = Append(carriers,
       [format |-> format, from |-> s, before |-> headers, resource |-> spans[s].resource,
        headers |-> [headers EXCEPT !["veneur"] = [trace |-> spans[s].trace, span |-> spans[s].id]]])
  /\ UNCHANGED <<spans, recorded, clock>>

Usable(h) == {i \in DOMAIN HeaderFormats : h[HeaderFormats[i]].trace # 0 /\ h[HeaderFormats[i]].span # 0}

\* Mutant of Extract: one header of a pair is enough.
ExtractEither(c) ==
  IF c.format = "binary" THEN [err |-> FALSE, trace |-> c.headers["veneur"].trace, id |-> c.headers["veneur"].span, resource |-> c.resource]
  ELSE LET some == {i \in DOMAIN HeaderFormats : c.headers[HeaderFormats[i]] # [trace |-> 0, span |-> 0]}
       IN  IF some = {} THEN [err |-> TRUE, trace |-> 0, id |-> 0, resource |-> ""]
           ELSE [err |-> FALSE, trace |-> c.headers[HeaderFormats[Min(some)]].trace, id |-> c.headers[HeaderFormats[Min(some)]].span,
                 resource |-> c.resource]

\* Extract: the bytes hold the ids; of headers the first pair that is complete counts, or else
\* whatever the last format has.
Extract(c) ==
  IF c.format = "binary" THEN [err |-> FALSE, trace |-> c.headers["veneur"].trace, id |-> c.headers["veneur"].span, resource |-> c.resource]
  ELSE LET i == IF Usable(c.headers) = {} THEN Len(HeaderFormats) ELSE Min(Usable(c.headers))
           pair == c.headers[HeaderFormats[i]]
       IN  [err |-> pair = [trace |-> 0, span |-> 0], trace |-> pair.trace, id |-> pair.span, resource |-> c.resource]

\* ExtractRequestChild continues the trace under the handler's own resource; without one it
\* returns an error, and the handlers start a trace of their own.
ExtractRequestChild(p, c, resource) ==
  LET ctx == Extract(c)
  IN  /\ c.format = "text"
      /\ IF ctx.err THEN StartRoot(p, resource) ELSE StartChild(p, [ctx EXCEPT !.resource = resource], FALSE)

\* A context extracted from bytes, given to StartSpan.
ExtractBinary(p, c, explicit) == c.format = "binary" /\ StartChild(p, Parent(Extract(c)), explicit)

-----------------------------------------------------------------------------

\* A request that no one has injected a trace into.
Plain(h) == [format |-> "text", from |-> 0, before |-> h, headers |-> h, resource |-> ""]
Received == {carriers[i] : i \in DOMAIN carriers} \cup {Plain(h) : h \in Requests}

Next ==
  \/ \E p \in Procs, e \in Explicit :
       \/ \E r \in Resources : StartRoot(p, r)
       \/ \E n \in 1..2 : \E refs \in [1..n -> 0..Len(spans)] : StartSpan(p, refs, e)
       \/ \E c \in Received : ExtractBinary(p, c, e)
  \/ \E p \in Procs, c \in Received, r \in Resources : ExtractRequestChild(p, c, r)
  \/ \E i \in DOMAIN recorded : Send(i)
  \/ \E s \in DOMAIN spans :
       \/ "tag" \in Marks /\ SetTag(s)
       \/ "error" \in Marks /\ Error(s)
       \/ "name" \in Marks /\ \E r \in Resources : SetOperationName(s, r)
       \/ Finish(s)
       \/ \E f \in {"text", "binary"}, h \in Requests : Inject(s, f, h)

Spec == Init /\ [][Next]_vars

-----------------------------------------------------------------------------
(* Properties *)

ForeignPairs == {h[HeaderFormats[i]] : h \in Requests, i \in DOMAIN HeaderFormats}

\* Spans form trees, one to a trace: a span is the root of its trace, or lies below an earlier
\* span of the same trace or below the very pair of ids that a request came with; or, with
\* only references to contexts of another implementation, it has no trace at all.
TraceTree ==
  \A s \in DOMAIN spans :
    LET sp == spans[s]
    IN  \/ sp.trace = sp.id /\ sp.parent = 0
        \/ sp.parent \in 1..s - 1 /\ spans[sp.parent].trace = sp.trace
        \/ [trace |-> sp.trace, span |-> sp.parent] \in ForeignPairs \ {[trace |-> 0, span |-> 0]}
        \/ sp.trace = 0 /\ sp.parent = 0

\* A trace that was injected is found again by the other side, with its resource, unless the
\* request already had a complete pair in a format that is tried before.
RoundTrip ==
  \A i \in DOMAIN carriers :
    LET c == carriers[i] ctx == Extract(c)
    IN  c.format = "binary" \/ Usable(c.before) \ {Len(HeaderFormats)} = {} =>
          /\ ~ctx.err /\ ctx.trace = spans[c.from].trace /\ ctx.id = spans[c.from].id
          /\ ctx.resource = c.resource

\* However often a span is finished, all its records end at the same time, that of the first,
\* and have the same place in the trace.
EndsOnce ==
  \A i, j \in DOMAIN recorded : recorded[i].id = recorded[j].id =>
    /\ recorded[i].end = recorded[j].end /\ recorded[i].trace = recorded[j].trace /\ recorded[i].parent = recorded[j].parent

\* A record that goes out as an error says which in the three tags, although its tags are read
\* at another time than the mark.
ErrorsDescribed ==
  \A i \in DOMAIN recorded :
    recorded[i].sent /\ recorded[i].error => {"error.msg", "error.type", "error.stack"} \subseteq recorded[i].tags
=============================================================================
