----------------------------- MODULE TraceClient -----------------------------
(***************************************************************************)
(* trace.Client: Record puts spans on a bounded queue (or straight on a     *)
(* span channel), backend goroutines take them off and send them, Flush     *)
(* asks every flushable backend to empty its buffer, and Close cancels the  *)
(* goroutines.                                                              *)
(*                                                                         *)
(* What SendSync and FlushSync do with the network is module StreamBackend; *)
(* here they succeed or fail.  A span is the model value passed to Record.  *)
(***************************************************************************)
EXTENDS Integers, Sequences, FiniteSets

CONSTANTS Spans,       \* each recorded at most once
          Waiting,     \* the spans recorded with a done channel
          Samples,     \* the spans that carry a batch for metrics.Report and its relatives
          Empty,       \* the batches with no sample in them
          Flushers,    \* callers of Flush, one call each
          Ticker,      \* the flusher that the FlushInterval goroutine is
          OptionSets,  \* the lists of ClientParams tried: functions from option to value
          Kinds,       \* the constructors and addresses tried
          DefaultCapacity, DefaultParallelism,
          ChanCap,     \* capacity of the span channel of NewChannelClient
          MaxBackends, \* bound on the value of ParallelBackends
          MaxTicks,    \* bound on the ticks of FlushInterval
          MaxReports   \* bound on the ticks of ReportStatistics

VARIABLES cl,         \* the client's parameters, once constructed
          life,       \* "none", "refused" (the constructor failed), "running", "neutral"
          cancelled,  \* the context was cancelled by Close
          records,    \* cl.records
          spanChan,   \* the channel of a channel client
          be,         \* where each backend goroutine is, and the span or flusher it serves
          buffer,     \* the spans in each backend's buffer
          result,     \* what became of each Record call
          fl,         \* each FlushAsync goroutine
          stat,       \* the four statistics of the client
          reported,   \* history: their values sent to statsd, summed
          ticks, reports,
          sent,       \* history: spans handed to the network or the span channel
          lost        \* history: spans a failed send or flush has dropped

clientVars == <<cl, life, cancelled>>
queueVars == <<records, spanChan, result>>
backendVars == <<be, buffer, sent, lost>>
statVars == <<stat, reported, reports>>
vars == <<clientVars, queueVars, backendVars, fl, ticks, statVars>>

None == "none"
NoClient == [kind |-> "none"]
Counters == {"failedFlushes", "successfulFlushes", "failedRecords", "successfulRecords"}
Bump(c) == stat' = [stat EXCEPT ![c] = @ + 1]

IdleFlush == [pc |-> "idle", i |-> 0, errs |-> 0, snap |-> {}, res |-> "pending"]

Init ==
  /\ cl = NoClient /\ life = "none" /\ cancelled = FALSE
  /\ records = <<>> /\ spanChan = <<>>
  /\ be = <<>> /\ buffer = <<>>
  /\ result = [s \in Spans |-> "new"]
  /\ fl = [f \in Flushers |-> IdleFlush]
  /\ stat = [c \in Counters |-> 0] /\ reported = [c \in Counters |-> 0]
  /\ ticks = 0 /\ reports = 0
  /\ sent = {} /\ lost = {}

-----------------------------------------------------------------------------
(* Construction. *)

NetworkOnly == {"bufferSize", "flush", "backoff", "maxBackoff", "connectTimeout", "parallel"}

Networked(k) == k \in {"udp", "unix", "tcp"}
Flushable(k) == k \in {"unix", "backend"}

Option(o, name, default) == IF name \in DOMAIN o THEN o[name] ELSE default

\* The client a constructor builds from its options, or the error it returns.
Construct(k, o) ==
  IF \/ ~Networked(k) /\ DOMAIN o \cap NetworkOnly # {}
     \/ k = "tcp" /\ Option(o, "parallel", DefaultParallelism) > 0
  THEN NoClient
  ELSE [kind |-> k,
        cap |-> CASE k = "channel" -> 0
                  [] k = "backend" -> Option(o, "capacity", 1)
                  [] OTHER -> Option(o, "capacity", DefaultCapacity),
        backends |-> CASE k = "channel" -> 0
                       [] k = "backend" -> 1
                       [] OTHER -> Option(o, "parallel", DefaultParallelism),
        buffered |-> k = "backend" \/ (k = "unix" /\ Option(o, "bufferSize", 0) > 0),
        flush |-> "flush" \in DOMAIN o,
        report |-> "report" \in DOMAIN o]

New(k, o) ==
  /\ life = "none"
  /\ LET c == Construct(k, o) IN
       /\ cl' = c
       /\ life' = IF c = NoClient THEN "refused" ELSE "running"
       /\ be' = IF c = NoClient THEN <<>>
                ELSE [b \in 1 .. c.backends |-> [pc |-> "select", for |-> None]]
       /\ buffer' = [b \in DOMAIN be' |-> {}]
  /\ UNCHANGED <<cancelled, queueVars, sent, lost, fl, ticks, statVars>>

Backends == DOMAIN be

-----------------------------------------------------------------------------
(* Record. *)

HasQueue == life = "running" /\ cl.kind # "channel"
Parked(b) == be[b].pc = "parked"

\* cl.records <- op succeeds on a buffered channel with room, and on an unbuffered one
\* (Capacity(0)) only while a backend waits in its select.
QueueRoom == HasQueue /\ Len(records) < cl.cap
HandOff == HasQueue /\ cl.cap = 0 /\ \E b \in Backends : Parked(b)
ChanRoom == life = "running" /\ cl.kind = "channel" /\ Len(spanChan) < ChanCap

Accept(s, answer) ==
  /\ result' = [result EXCEPT ![s] = answer]
  /\ Bump("successfulRecords")

Record(s) ==
  /\ life \in {"running", "neutral"} /\ result[s] = "new"
  /\ \/ /\ QueueRoom
        /\ records' = Append(records, s) /\ Accept(s, "accepted")
        /\ UNCHANGED <<spanChan, be>>
     \/ /\ HandOff
        /\ \E b \in Backends : /\ Parked(b)
                               /\ be' = [be EXCEPT ![b] = [pc |-> "sending", for |-> s]]
        /\ Accept(s, "accepted")
        /\ UNCHANGED <<records, spanChan>>
     \/ \* the caller's done channel is answered by a goroutine of its own
        /\ ChanRoom
        /\ spanChan' = Append(spanChan, s)
        /\ Accept(s, IF s \in Waiting THEN "ok" ELSE "accepted")
        /\ UNCHANGED <<records, be>>
     \/ /\ ~QueueRoom /\ ~HandOff /\ ~ChanRoom
        /\ result' = [result EXCEPT ![s] = "refused"]
        /\ Bump("failedRecords")
        /\ UNCHANGED <<records, spanChan, be>>
  /\ UNCHANGED <<clientVars, buffer, sent, lost, fl, ticks, reported, reports>>

\* metrics.Report, ReportBatch, ReportOne: an empty batch is refused and counted nowhere.
ReportAsync(s) ==
  \/ s \in Samples \ Empty /\ Record(s)
  \/ /\ s \in Empty /\ result[s] = "new" /\ life # "none"
     /\ result' = [result EXCEPT ![s] = "NoMetrics"]
     /\ UNCHANGED <<clientVars, records, spanChan, backendVars, fl, ticks, statVars>>

\* The receiver of the span channel (a SpanWorker) takes the oldest span.
Receive ==
  /\ spanChan # <<>>
  /\ sent' = sent \cup {Head(spanChan)}
  /\ spanChan' = Tail(spanChan)
  /\ UNCHANGED <<clientVars, records, result, be, buffer, lost, fl, ticks, statVars>>

-----------------------------------------------------------------------------
(* runFlushableBackend. *)

Goto(b, pc, for) == be' = [be EXCEPT ![b] = [pc |-> pc, for |-> for]]

\* No case of the select is ready: the goroutine waits.
Park(b) ==
  /\ be[b].pc = "select" /\ records = <<>> /\ ~cancelled
  /\ Goto(b, "parked", None)
  /\ UNCHANGED <<clientVars, queueVars, buffer, sent, lost, fl, ticks, statVars>>

Take(b) ==
  /\ be[b].pc \in {"select", "parked"} /\ records # <<>>
  /\ Goto(b, "sending", Head(records))
  /\ records' = Tail(records)
  /\ UNCHANGED <<clientVars, spanChan, result, buffer, sent, lost, fl, ticks, statVars>>

\* op.result <- err, received by the caller of Record.
Answer(b, s, ok) ==
  result' = IF s \in Waiting THEN [result EXCEPT ![s] = IF ok THEN "ok" ELSE "err"]
            ELSE result

\* backend.SendSync: into the buffer or out.  An error may cost the connection, and with it
\* the buffer.
SendSync(b) ==
  LET s == be[b].for IN
    /\ be[b].pc = "sending"
    /\ \/ /\ buffer' = IF cl.buffered THEN [buffer EXCEPT ![b] = @ \cup {s}] ELSE buffer
          /\ sent' = IF cl.buffered THEN sent ELSE sent \cup {s}
          /\ lost' = lost
          /\ Answer(b, s, TRUE)
       \/ /\ \E drop \in {{}, buffer[b]} :
               /\ buffer' = [buffer EXCEPT ![b] = @ \ drop]
               /\ lost' = lost \cup {s} \cup drop
          /\ sent' = sent
          /\ Answer(b, s, FALSE)
    /\ Goto(b, "select", None)
    /\ UNCHANGED <<clientVars, records, spanChan, fl, ticks, statVars>>

\* backend.FlushSync for flusher f; its error goes to oneCh.
FlushSync(b) ==
  LET f == be[b].for IN
    /\ be[b].pc = "flushing"
    /\ buffer' = [buffer EXCEPT ![b] = {}]
    /\ \/ /\ sent' = sent \cup buffer[b] /\ lost' = lost
          /\ fl' = [fl EXCEPT ![f].pc = "loop", ![f].i = @ + 1]
       \/ /\ lost' = lost \cup buffer[b] /\ sent' = sent
          /\ fl' = [fl EXCEPT ![f].pc = "loop", ![f].i = @ + 1, ![f].errs = @ + 1]
    /\ Goto(b, "select", None)
    /\ UNCHANGED <<clientVars, queueVars, ticks, statVars>>

\* <-ctx.Done(): the goroutine returns, and its deferred Close drops the buffer.
Done(b) ==
  /\ be[b].pc \in {"select", "parked"} /\ cancelled
  /\ Goto(b, "closed", None)
  /\ lost' = lost \cup buffer[b]
  /\ buffer' = [buffer EXCEPT ![b] = {}]
  /\ UNCHANGED <<clientVars, queueVars, sent, fl, ticks, statVars>>

Backend(b) == Park(b) \/ Take(b) \/ SendSync(b) \/ FlushSync(b) \/ Done(b)

-----------------------------------------------------------------------------
(* FlushAsync and Flush. *)

\* The backends a flush visits; NeutralizeClient leaves none.
Targets == IF life = "running" /\ Flushable(cl.kind) THEN Backends ELSE {}

Flush(f) ==
  /\ life \in {"running", "neutral"}
  /\ \/ f # Ticker /\ fl[f].pc = "idle" /\ ticks' = ticks
     \/ \* FlushInterval's goroutine: one synchronous Flush per tick
        /\ f = Ticker /\ cl.flush /\ fl[f].pc \in {"idle", "done"}
        /\ ticks < MaxTicks /\ ticks' = ticks + 1
  /\ fl' = [fl EXCEPT ![f] = [IdleFlush EXCEPT !.pc = "loop", !.i = 1,
                                 !.snap = UNION {buffer[b] : b \in Targets}]]
  /\ UNCHANGED <<clientVars, queueVars, backendVars, statVars>>

\* <-ctx.Done() in FlushInterval's goroutine.
StopTicker ==
  /\ cancelled /\ fl[Ticker].pc \in {"idle", "done"} /\ cl.flush
  /\ fl' = [fl EXCEPT ![Ticker].pc = "stopped"]
  /\ UNCHANGED <<clientVars, queueVars, backendVars, ticks, statVars>>

\* fb.notify <- oneCh: only a backend that waits in its select receives.
Notify(f) ==
  /\ fl[f].pc = "loop" /\ fl[f].i \in Targets /\ Parked(fl[f].i)
  /\ fl' = [fl EXCEPT ![f].pc = "wait"]
  /\ Goto(fl[f].i, "flushing", f)
  /\ UNCHANGED <<clientVars, queueVars, buffer, sent, lost, ticks, statVars>>


\* The default branch: ErrWouldBlock.
WouldBlock(f) ==
  /\ fl[f].pc = "loop" /\ fl[f].i \in Targets /\ ~Parked(fl[f].i)
  /\ fl' = [fl EXCEPT ![f].i = @ + 1, ![f].errs = @ + 1]
  /\ UNCHANGED <<clientVars, queueVars, backendVars, ticks, statVars>>

\* All backends were visited: the errors, or nil, go to the caller's channel.
Report(f) ==
  /\ fl[f].pc = "loop" /\ fl[f].i \notin Targets
  /\ fl' = [fl EXCEPT ![f].pc = "done", ![f].res = IF fl[f].errs > 0 THEN "FlushError" ELSE "nil"]
  /\ Bump(IF fl[f].errs > 0 THEN "failedFlushes" ELSE "successfulFlushes")
  /\ UNCHANGED <<clientVars, queueVars, backendVars, ticks, reported, reports>>

FlushAsync(f) == Notify(f) \/ WouldBlock(f) \/ Report(f)

-----------------------------------------------------------------------------
(* SendClientStatistics, Close and NeutralizeClient. *)

\* The four counters are swapped with 0 one by one; no step reads two of them.
SendClientStatistics ==
  /\ reported' = [c \in Counters |-> reported[c] + stat[c]]
  /\ stat' = [c \in Counters |-> 0]

\* A tick of the statistics goroutine.
ReportStatistics ==
  /\ life = "running" /\ cl.report /\ ~cancelled /\ reports < MaxReports
  /\ reports' = reports + 1
  /\ SendClientStatistics
  /\ UNCHANGED <<clientVars, queueVars, backendVars, fl, ticks>>

Close ==
  /\ life = "running" /\ ~cancelled
  /\ cancelled' = TRUE
  /\ UNCHANGED <<cl, life, queueVars, backendVars, fl, ticks, statVars>>

\* It replaces fields that Flush reads, so it is called while no flush runs.
NeutralizeClient ==
  /\ life = "running" /\ \A f \in Flushers : fl[f].pc \notin {"loop", "wait"}
  /\ cancelled' = TRUE /\ life' = "neutral"
  /\ UNCHANGED <<cl, queueVars, backendVars, fl, ticks, statVars>>

Next ==
  \/ \E k \in Kinds, o \in OptionSets : New(k, o)
  \/ \E s \in Spans \ Samples : Record(s)
  \/ \E s \in Samples : ReportAsync(s)
  \/ Receive
  \/ \E b \in Backends : Backend(b)
  \/ \E f \in Flushers : Flush(f) \/ FlushAsync(f)
  \/ StopTicker
  \/ ReportStatistics \/ Close \/ NeutralizeClient

Fairness ==
  /\ \A b \in 1 .. MaxBackends : WF_vars(b \in Backends /\ Backend(b))
  /\ \A f \in Flushers : WF_vars(FlushAsync(f))
  /\ WF_vars(Receive)

Spec == Init /\ [][Next]_vars /\ Fairness

-----------------------------------------------------------------------------
(* Properties. *)

\* Type invariant: the queues never hold more than their capacity, and a backend goroutine
\* serves a span or a flusher exactly while it is sending or flushing.
TypeOK ==
  /\ life \in {"none", "refused", "running", "neutral"} /\ cancelled \in BOOLEAN
  /\ records \in Seq(Spans) /\ spanChan \in Seq(Spans)
  /\ life = "running" => Len(records) <= cl.cap
  /\ Len(spanChan) <= ChanCap
  /\ \A b \in Backends :
       \/ be[b].pc \in {"select", "parked", "closed"} /\ be[b].for = None
       \/ be[b].pc = "sending" /\ be[b].for \in Spans
       \/ be[b].pc = "flushing" /\ be[b].for \in Flushers /\ fl[be[b].for].pc = "wait"
  /\ DOMAIN buffer = Backends /\ \A b \in Backends : buffer[b] \subseteq Spans
  /\ result \in [Spans -> {"new", "refused", "NoMetrics", "accepted", "ok", "err"}]
  /\ \A f \in Flushers : fl[f].pc \in {"idle", "loop", "wait", "done", "stopped"}
  /\ stat \in [Counters -> Nat] /\ reported \in [Counters -> Nat]
  /\ sent \subseteq Spans /\ lost \subseteq Spans

\* Where a span is: how often it is queued, held by a backend, buffered, sent or lost.
Places(s) ==
  Len(SelectSeq(records \o spanChan, LAMBDA x : x = s))
    + Cardinality({b \in Backends : be[b].pc = "sending" /\ be[b].for = s})
    + Cardinality({b \in Backends : s \in buffer[b]})
    + (IF s \in sent THEN 1 ELSE 0) + (IF s \in lost THEN 1 ELSE 0)

\* A span Record accepted is in exactly one place, however the backends race for the queue
\* and whatever the connections do, and one it refused is nowhere; a caller that was told
\* of an error has lost its span, and one that was told nil has it past the backend.
Whereabouts ==
  \A s \in Spans :
    /\ Places(s) = (IF result[s] \in {"new", "refused", "NoMetrics"} THEN 0 ELSE 1)
    /\ result[s] = "err" => s \in lost
    /\ result[s] = "ok" => \A b \in Backends : be[b].pc = "sending" => be[b].for # s

\* Once Flush has returned nil, no span that a backend had serialized when Flush was called
\* is still in a buffer.
FlushHonest ==
  \A f \in Flushers : fl[f].res = "nil" =>
    \A b \in Backends : buffer[b] \cap fl[f].snap = {}

\* Every Record and Flush that ended is counted once, as failed or as successful, and what
\* SendClientStatistics has reported plus what the counters hold is that count.
StatsConserved ==
  LET total == [c \in Counters |-> stat[c] + reported[c]]
      running(f) == fl[f].pc \in {"loop", "wait"}
  IN /\ total["failedRecords"] = Cardinality({s \in Spans : result[s] = "refused"})
     /\ total["successfulRecords"] =
          Cardinality({s \in Spans : result[s] \in {"accepted", "ok", "err"}})
     /\ total["failedFlushes"] + total["successfulFlushes"] =
          Cardinality({f \in Flushers \ {Ticker} : fl[f].res # "pending"})
            + ticks - (IF running(Ticker) THEN 1 ELSE 0)

\* Holds again and again for every Flush, also when the client is closed while it runs: a
\* backend answers each notification it received.
FlushEnded(f) == fl[f].pc \notin {"loop", "wait"}

\* Holds again and again for every span whose caller waits: while the client is open and has a
\* backend, the result of an accepted span reaches its done channel.
AnsweredOrClosed(s) == result[s] = "accepted" /\ cl.backends > 0 => cancelled
=============================================================================
