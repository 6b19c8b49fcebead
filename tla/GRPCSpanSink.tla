---------------------------- MODULE GRPCSpanSink ----------------------------
(***************************************************************************)
(* GRPCSpanSink: span workers send spans over a connection that changes     *)
(* state, a goroutine that watches those changes rearms the marker that     *)
(* keeps errors from being logged over and over, and flushes report and     *)
(* reset the counts of spans sent and dropped.                              *)
(***************************************************************************)
EXTENDS Integers, Sequences, FiniteSets

CONSTANTS Spans,      \* each is ingested by a goroutine of its own
          Invalid,    \* spans that are no valid trace spans
          MaxChanges, \* bound on the changes of the connection's state
          MaxFlushes  \* bound on the flushes

States == {"Ready", "Connecting", "TransientFailure"}

VARIABLES conn,      \* the state of the connection
          changes,   \* how often it has changed
          watcher,   \* the goroutine of Start: [pc, seen]
          marker,    \* loggedSinceTransition
          ingest,    \* where each span's Ingest is: [pc, state, at], the last two from GetState
          logged,    \* for every error logged, the state GetState saw and the number of changes then
          sentCount, dropCount,
          reported,  \* sums of what Flush has reported
          flushes

vars == <<conn, changes, watcher, marker, ingest, logged, sentCount, dropCount, reported, flushes>>

\* NewGRPCSpanSink dials without waiting, and Start starts the watcher.
Init ==
  /\ conn = "Connecting" /\ changes = 0
  /\ watcher = [pc |-> "get", seen |-> "Connecting"] /\ marker = 0
  /\ ingest = [s \in Spans |-> [pc |-> "new", state |-> "", at |-> 0]]
  /\ logged = <<>> /\ sentCount = 0 /\ dropCount = 0
  /\ reported = [sent |-> 0, dropped |-> 0] /\ flushes = 0

\* The connection, which is gRPC's, goes to another state.
Change ==
  /\ changes < MaxChanges /\ changes' = changes + 1
  /\ conn' \in States \ {conn}
  /\ UNCHANGED <<watcher, marker, ingest, logged, sentCount, dropCount, reported, flushes>>

-----------------------------------------------------------------------------
(* The goroutine of Start *)

\* grpcConn.GetState(), the argument of WaitForStateChange.
WatchGet ==
  /\ watcher.pc = "get" /\ watcher' = [pc |-> "wait", seen |-> conn]
  /\ UNCHANGED <<conn, changes, marker, ingest, logged, sentCount, dropCount, reported, flushes>>

\* It returns once the state is another one than it was given.
WatchWait ==
  /\ watcher.pc = "wait" /\ conn # watcher.seen
  /\ watcher' = [watcher EXCEPT !.pc = "store"]
  /\ UNCHANGED <<conn, changes, marker, ingest, logged, sentCount, dropCount, reported, flushes>>

WatchStore ==
  /\ watcher.pc = "store" /\ watcher' = [watcher EXCEPT !.pc = "get"] /\ marker' = 0
  /\ UNCHANGED <<conn, changes, ingest, logged, sentCount, dropCount, reported, flushes>>

Watch == WatchGet \/ WatchWait \/ WatchStore

-----------------------------------------------------------------------------
(* Ingest *)

At(s, pc) == ingest[s].pc = pc
Goto(s, pc) == ingest' = [ingest EXCEPT ![s].pc = pc]

\* ValidateTrace, then the call, which can fail in any state and succeeds only when ready.
SendSpan(s) ==
  /\ At(s, "new")
  /\ IF s \in Invalid THEN Goto(s, "refused")
     ELSE \/ Goto(s, "failed")
          \/ conn = "Ready" /\ Goto(s, "ok")
  /\ UNCHANGED <<conn, changes, watcher, marker, logged, sentCount, dropCount, reported, flushes>>

\* The atomic additions.
CountSpan(s) ==
  /\ \/ At(s, "ok") /\ Goto(s, "sent") /\ sentCount' = sentCount + 1 /\ UNCHANGED dropCount
     \/ At(s, "failed") /\ Goto(s, "state") /\ dropCount' = dropCount + 1 /\ UNCHANGED sentCount
  /\ UNCHANGED <<conn, changes, watcher, marker, logged, reported, flushes>>

GetState(s) ==
  /\ At(s, "state") /\ ingest' = [ingest EXCEPT ![s] = [pc |-> "log", state |-> conn, at |-> changes]]
  /\ UNCHANGED <<conn, changes, watcher, marker, logged, sentCount, dropCount, reported, flushes>>

\* In the ready state every error is logged and the marker is left alone; in the others, if
\* the marker can be set.
LogError(s) ==
  /\ At(s, "log") /\ Goto(s, "dropped")
  /\ IF ingest[s].state = "Ready" THEN UNCHANGED marker ELSE marker' = 1
  /\ logged' = IF ingest[s].state = "Ready" \/ marker = 0 THEN Append(logged, ingest[s])
               ELSE logged
  /\ UNCHANGED <<conn, changes, watcher, sentCount, dropCount, reported, flushes>>

Ingest(s) == SendSpan(s) \/ CountSpan(s) \/ GetState(s) \/ LogError(s)

\* Flush swaps both counts for 0; spans may be counted between the two swaps, which then are
\* in the next report, so that one step stands for both.
Flush ==
  /\ flushes < MaxFlushes /\ flushes' = flushes + 1
  /\ reported' = [sent |-> reported.sent + sentCount, dropped |-> reported.dropped + dropCount]
  /\ sentCount' = 0 /\ dropCount' = 0
  /\ UNCHANGED <<conn, changes, watcher, marker, ingest, logged>>

Next == Change \/ Watch \/ Flush \/ \E s \in Spans : Ingest(s)

\* The goroutine of Start runs, and calls end: SendSpan fails without a connection.
Spec == Init /\ [][Next]_vars /\ WF_vars(Watch) /\ \A s \in Spans : WF_vars(Ingest(s))

-----------------------------------------------------------------------------
(* Properties *)

\* Every span is counted exactly once, as sent or as dropped, in a report or in a count still
\* to be reported.
SpansCounted ==
  /\ reported.sent + sentCount = Cardinality({s \in Spans : At(s, "sent")})
  /\ reported.dropped + dropCount = Cardinality({s \in Spans : ingest[s].pc \in {"state", "log", "dropped"}})

NotReady == SelectSeq(logged, LAMBDA e : e.state # "Ready")

\* However the watcher, the workers and the connection interleave, the errors logged outside
\* the ready state are never more than one and one more for each change of state.
LogsBounded == Len(NotReady) <= 1 + changes

\* Holds again and again, so that the marker is not left alone for ever: the watcher waits on the
\* state the connection is in.
WatcherCurrent == watcher.pc = "wait" /\ watcher.seen = conn
=============================================================================
