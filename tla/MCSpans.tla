------------------------------- MODULE MCSpans -------------------------------
(***************************************************************************)
(* Small instances of what happens to spans before a sink has them: the      *)
(* tracing library (Tracing), veneur-emit (EmitMetric), the client           *)
(* (TraceClient) and its streams (StreamBackend), and the span workers of    *)
(* the server (SpanPipeline).  A behaviour runs one part; the variables of   *)
(* the others are left alone, TraceClient's as they are at the start.        *)
(***************************************************************************)
EXTENDS TraceClient, TLC

CONSTANTS Parts, id1, id2   \* Parts: the parts that a run explores

VARIABLES part,   \* the part that runs; it never changes
          \* SpanPipeline
          arrived, pipeReader, stopped, pipeSpanChan, dropped, tag, work, outer, inner, finished,
          received, timeouts, errors, times, capCount, hits, repReceived, repWorker, flushes,
          \* StreamBackend
          conn, bufConn, buf, streamPc, wait, elapsed, next, made, wire, open, streamReader, answer,
          flushed, wrote, taken, got,
          \* Tracing
          spans, carriers, recorded, traceClock,
          \* EmitMetric
          opts, emitPc, span, env, emitSent, exit, emitClock

Unused == "unused"

\* TraceClient: two spans, and buffered clients with the flush goroutine, one of them with two
\* backends and the other with the statistics goroutine.
MCSpanSet == {id1, id2}
MCBuffered ==
  LET o == ("bufferSize" :> 1) @@ ("flush" :> 1) @@ ("capacity" :> 1)
  IN  {o @@ ("parallel" :> 2), o @@ ("parallel" :> 1) @@ ("report" :> 1)}

\* id1 and id2 are the span workers of the pipeline, the spans of the client, which are
\* interchangeable where both wait, and the processes of a trace.
MCSymmetry == Permutations({id1, id2})

-----------------------------------------------------------------------------
(* SpanPipeline. *)

Pipe == INSTANCE SpanPipeline WITH
  Spans <- {"a", "b", "bad"}, Bad <- {"bad"}, Internal <- {}, Tagged <- {"a"}, Invalid <- {"b"},
  Service <- ("a" :> "x") @@ ("b" :> "y") @@ ("bad" :> "y"), Readers <- {"udp", "unix"},
  Format <- ("udp" :> "packet") @@ ("unix" :> "framed"), Workers <- {id1, id2}, Sinks <- {"k1", "k2"},
  Hanging <- {"k1"}, ChanCap <- 1, MaxFlushes <- 1, reader <- pipeReader, spanChan <- pipeSpanChan

pipeVars == <<arrived, pipeReader, stopped, pipeSpanChan, dropped, tag, work, outer, inner, finished,
  received, timeouts, errors, times, capCount, hits, repReceived, repWorker, flushes>>
PipeIdle ==
  arrived = Unused /\ pipeReader = Unused /\ stopped = Unused /\ pipeSpanChan = Unused /\
  dropped = Unused /\ tag = Unused /\ work = Unused /\ outer = Unused /\ inner = Unused /\ finished = Unused /\
  received = Unused /\ timeouts = Unused /\ errors = Unused /\ times = Unused /\ capCount = Unused /\
  hits = Unused /\ repReceived = Unused /\ repWorker = Unused /\ flushes = Unused

-----------------------------------------------------------------------------
(* StreamBackend. *)

Stream == INSTANCE StreamBackend WITH
  Spans <- <<"a", "b", "c">>, Size <- ("a" :> 1) @@ ("b" :> 4) @@ ("c" :> 1), Unmarshalable <- {"c"},
  MaxSSFPacketLength <- 2, BufferSize <- 0, Foreign <- {<<>>}, Backoff <- 2, MaxBackoff <- 2,
  ConnectTimeout <- 3, MaxConns <- 3, pc <- streamPc, reader <- streamReader

\* Streams of other clients: with lengths that are wrong, bodies that do not parse, and versions
\* that do not exist.
Units == {Stream!Version(0), Stream!Version(1), Stream!Length(0), Stream!Length(1), Stream!Length(9),
          Stream!Body("a", 1), Stream!Body("x", 1)}
Streams == UNION {[1 .. n -> Units] : n \in 0 .. 3}
  \cup {<<Stream!Version(0), Stream!Length(1), u, Stream!Version(0), Stream!Length(1),
          Stream!Body("a", 1)>> : u \in Units}

Strange == INSTANCE StreamBackend WITH
  Spans <- <<"a", "b", "c">>, Size <- ("a" :> 1) @@ ("b" :> 0) @@ ("c" :> 2), Unmarshalable <- {},
  MaxSSFPacketLength <- 2, BufferSize <- 0, Foreign <- Streams, Backoff <- 2, MaxBackoff <- 1,
  ConnectTimeout <- 2, MaxConns <- 0, pc <- streamPc, reader <- streamReader

streamVars == <<conn, bufConn, buf, streamPc, wait, elapsed, next, made, wire, open, streamReader,
  answer, flushed, wrote, taken, got>>
StreamIdle ==
  conn = Unused /\ bufConn = Unused /\ buf = Unused /\ streamPc = Unused /\ wait = Unused /\
  elapsed = Unused /\ next = Unused /\ made = Unused /\ wire = Unused /\ open = Unused /\ streamReader = Unused /\
  answer = Unused /\ flushed = Unused /\ wrote = Unused /\ taken = Unused /\ got = Unused

-----------------------------------------------------------------------------
(* Tracing. *)

\* Requests without headers, with half a pair of one format, with a whole pair of Envoy's, and
\* with half of the last.
NoIds == [f \in {"envoy", "opentracing", "ruby", "veneur"} |-> [trace |-> 0, span |-> 0]]

Trace == INSTANCE Tracing WITH
  Procs <- {id1, id2}, Resources <- {"r", "t"},
  Requests <- {NoIds, [NoIds EXCEPT !["ruby"].trace = 101], [NoIds EXCEPT !["envoy"] = [trace |-> 102, span |-> 103]]},
  Explicit <- {FALSE}, Marks <- {"name"}, MaxSpans <- 3, MaxCarriers <- 1, MaxRecords <- 0,
  clock <- traceClock
Finish == INSTANCE Tracing WITH
  Procs <- {id1, id2}, Resources <- {"r"}, Requests <- {NoIds, [NoIds EXCEPT !["veneur"].trace = 104]},
  Explicit <- {FALSE, TRUE}, Marks <- {"tag", "error"}, MaxSpans <- 1, MaxCarriers <- 0,
  MaxRecords <- 3, clock <- traceClock

traceVars == <<spans, carriers, recorded, traceClock>>
TraceIdle ==
  spans = Unused /\ carriers = Unused /\ recorded = Unused /\ traceClock = Unused

-----------------------------------------------------------------------------
(* EmitMetric. *)

O == [ssf |-> TRUE, udp |-> FALSE, traceID |-> 0, parentID |-> 0, command |-> TRUE, badTag |-> FALSE, times |-> "none", flags |-> {}]
Options ==
  {O, [O EXCEPT !.traceID = 90, !.parentID = 91], [O EXCEPT !.times = "one"], [O EXCEPT !.times = "both"], [O EXCEPT !.badTag = TRUE, !.traceID = 90],
   [O EXCEPT !.command = FALSE, !.flags = {"count", "timing"}], [O EXCEPT !.ssf = FALSE, !.udp = TRUE, !.flags = {"gauge"}],
   [O EXCEPT !.ssf = FALSE, !.command = FALSE]}

Emit == INSTANCE EmitMetric WITH
  Calls <- {"a", "b", "c"}, Within <- ("a" :> "shell") @@ ("b" :> "a") @@ ("c" :> "b"), Losses <- TRUE,
  pc <- emitPc, sent <- emitSent, clock <- emitClock

emitVars == <<opts, emitPc, span, env, emitSent, exit, emitClock>>
EmitIdle ==
  opts = Unused /\ emitPc = Unused /\ span = Unused /\ env = Unused /\ emitSent = Unused /\
  exit = Unused /\ emitClock = Unused

-----------------------------------------------------------------------------
(* One part runs, and the variables of the others are left alone. *)

PartInit ==
  /\ part \in Parts
  /\ Init
  /\ IF part = "pipeline" THEN Pipe!Init ELSE PipeIdle
  /\ IF part = "unbuffered" THEN Stream!Init ELSE IF part = "foreign" THEN Strange!Init ELSE StreamIdle
  /\ IF part = "traces" THEN Trace!Init ELSE IF part = "finishes" THEN Finish!Init ELSE TraceIdle
  /\ IF part = "emit" THEN Emit!Init ELSE EmitIdle

PartNext ==
  /\ UNCHANGED part
  /\ \/ part = "client" /\ Next /\ UNCHANGED <<pipeVars, streamVars, traceVars, emitVars>>
     \/ part = "pipeline" /\ Pipe!Next /\ UNCHANGED <<vars, streamVars, traceVars, emitVars>>
     \/ part = "unbuffered" /\ Stream!Next /\ UNCHANGED <<vars, pipeVars, traceVars, emitVars>>
     \/ part = "foreign" /\ Strange!Next /\ UNCHANGED <<vars, pipeVars, traceVars, emitVars>>
     \/ part = "traces" /\ Trace!Next /\ UNCHANGED <<vars, pipeVars, streamVars, emitVars>>
     \/ part = "finishes" /\ Finish!Next /\ UNCHANGED <<vars, pipeVars, streamVars, emitVars>>
     \/ part = "emit" /\ Emit!Next /\ UNCHANGED <<vars, pipeVars, streamVars, traceVars>>

allVars == <<part, vars, pipeVars, streamVars, traceVars, emitVars>>

PartSpec == PartInit /\ [][PartNext]_allVars

-----------------------------------------------------------------------------
(* Properties. *)

\* The type invariants of SpanPipeline and TraceClient: the channels never hold more than their
\* capacity, and the goroutines that work on a span are in states that fit together.
TypesHold == (part = "pipeline" => Pipe!TypeOK) /\ TypeOK

\* SpanWorker.Work leaves a span only when every sink has been given it and has answered or been
\* given up on, and every sink got it with the common tag filled in but never overwritten.
EverySinkServed == part = "pipeline" => Pipe!EverySinkServed

\* A span that was read is in exactly one place: with its reader, in SpanChan, with a worker, or
\* finished; nothing is lost when the channel is full, except internal spans.
OnePlace == part = "pipeline" => Pipe!OnePlace

\* The goroutines that a late or missing answer of a sink leaves behind are as many as the
\* timeouts reported for the sink.
LeaksCounted == part = "pipeline" => Pipe!LeaksCounted

\* Received spans, timed ingestions and full-channel hits are reported exactly once, however
\* flushTraces interleaves with readers and sinks.
Conserved == part = "pipeline" => Pipe!Conserved

\* While a connection is in use, what was written on it is exactly the frames of the spans
\* SendSync took on it, a frame never following a torn one, and the reader passes on just those.
UnbufferedFramed == part = "unbuffered" => Stream!WellFramed /\ Stream!ReadsWhatWasSent

\* StreamBackend's connect gives up by its timeout, whatever the backoff.
ConnectBounded == part = "unbuffered" => Stream!ConnectBounded

\* On a stream another client wrote, ReadSSF passes on exactly the spans of the frames before the
\* first framing error, skipping bodies that do not parse.
ReadsForeign == part = "foreign" => Strange!ReadsForeign

\* Spans form trees, one to a trace: a span is the root of its trace, or lies below an earlier
\* span of the same trace or below the very pair of ids that a request came with.
TraceTree == part = "traces" => Trace!TraceTree

\* A trace that was injected is found again by the other side, with its resource, unless the
\* request already had a complete pair in a format that is tried before.
RoundTrip == part = "traces" => Trace!RoundTrip

\* However often a span is finished, all its records end at the same time, that of the first, and
\* have the same place in the trace.
EndsOnce == part = "finishes" => Finish!EndsOnce

\* A record that goes out as an error says which in the three tags, although its tags are read at
\* another time than the mark.
ErrorsDescribed == part = "finishes" => Finish!ErrorsDescribed

\* veneur-emit, "construct a tree": a call without ids of its own that runs inside a traced
\* command has its span in that trace, below the span of the call that timed the command.
TreeOfCalls == part = "emit" => Emit!TreeOfCalls

\* A call of veneur-emit over SSF that exits with 0 has sent its span once, with every metric it
\* was asked for; one that fails before has sent nothing.
ExitTells == part = "emit" => Emit!ExitTells

\* The measured times of a command's span enclose those of the commands timed inside it.
TimesNest == part = "emit" => Emit!TimesNest

-----------------------------------------------------------------------------
(* What the run states: the promises above, by component. *)

\* The span workers lose no span and skip no sink, although sinks hang, and the statistics of a
\* flush count every span, timeout and abandoned goroutine once.
SpansServed == TypesHold /\ EverySinkServed /\ OnePlace /\ LeaksCounted /\ Conserved


\* The framed protocol at both ends: a torn frame is never followed by another on its connection,
\* and a reader passes on the spans of the frames before the first framing error and no other.
StreamFramed == UnbufferedFramed /\ ConnectBounded /\ ReadsForeign

\* The tracing library: spans form one tree for each trace, across processes too, and all records
\* of a span agree on its end and its errors.
TracesConsistent == TraceTree /\ RoundTrip /\ EndsOnce /\ ErrorsDescribed

\* Nested calls of veneur-emit: their spans and times nest as the calls do, and the exit code says
\* whether the span was sent.
CallsNest == TreeOfCalls /\ ExitTells /\ TimesNest
=============================================================================
