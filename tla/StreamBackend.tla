---------------------------- MODULE StreamBackend ----------------------------
(***************************************************************************)
(* A trace client's streamBackend writing framed SSF spans to a veneur      *)
(* server over a chain of connections (trace/backend.go, protocol/wire.go), *)
(* and the server goroutines that read them (ReadSSFStreamSocket).          *)
(*                                                                         *)
(* The byte stream is kept: a frame is a version, a length and as many body *)
(* units as the length says, and a write may leave any prefix of its bytes  *)
(* on the wire before it fails.  The 4 bytes of a length are one unit.      *)
(* Time is counted in units, and only connect lets it pass.                 *)
(***************************************************************************)
EXTENDS Integers, Sequences, SequencesExt, Folds

CONSTANTS Spans,        \* what SendSync is called with, each once and in this order
          Size,         \* length of a span's protobuf
          Unmarshalable, \* spans that proto cannot marshal
          MaxSSFPacketLength,
          BufferSize,   \* of the bufio.Writer; 0 means unbuffered
          Foreign,      \* streams that other clients may send on connection 0
          Backoff, MaxBackoff, ConnectTimeout,
          MaxConns      \* bound on the connections made

VARIABLES conn,      \* ds.conn: the number of the connection, 0 for nil
          bufConn,   \* the connection ds.buffer writes to, 0 while there is no buffer
          buf,       \* the bytes in ds.buffer
          pc,        \* "idle", or the call that connect was made for
          wait, elapsed,
          next,      \* index of the next span to send
          made,      \* connections made
          wire,      \* bytes written on each connection and not yet read
          open,      \* the client's side of each connection is open
          reader,    \* ReadSSFStreamSocket of each connection: "reading", "hangup", "error"
          answer,    \* the result of each SendSync: "nil", "err"
          flushed,   \* history: the last call was a FlushSync that returned nil
          wrote,     \* history: all bytes written on each connection
          taken,     \* history: spans whose SendSync returned nil on each connection
          got        \* history: spans each reader has passed to handleSSF

clientVars == <<conn, bufConn, buf, next, made, open, answer, flushed, wrote, taken>>
connectVars == <<pc, wait, elapsed>>
serverVars == <<reader, got>>
vars == <<clientVars, connectVars, wire, serverVars>>

Conns == 0 .. MaxConns

Init ==
  /\ conn = 0 /\ bufConn = 0 /\ buf = <<>>
  /\ pc = "idle" /\ wait = 0 /\ elapsed = 0
  /\ next = 1 /\ made = 0
  /\ \E f \in Foreign : wire = [c \in Conns |-> IF c = 0 THEN f ELSE <<>>] /\ wrote = wire
  /\ open = [c \in Conns |-> FALSE]
  /\ reader = [c \in Conns |-> IF c = 0 THEN "reading" ELSE "none"]
  /\ answer = <<>> /\ flushed = FALSE
  /\ taken = [c \in Conns |-> <<>>] /\ got = [c \in Conns |-> <<>>]

-----------------------------------------------------------------------------
(* Frames. *)

Version(v) == [kind |-> "version", val |-> v]
Length(n) == [kind |-> "length", val |-> n]
Body(s, i) == [kind |-> "body", val |-> s, pos |-> i]

Payload(s) == [i \in 1 .. Size[s] |-> Body(s, i)]

\* The three writes of WriteSSF.
Writes(s) == <<<<Version(0)>>, <<Length(Size[s])>>, Payload(s)>>

FrameOf(s) == FlattenSeq(Writes(s))
Frames(ss) == FlattenSeq([i \in DOMAIN ss |-> FrameOf(ss[i])])

-----------------------------------------------------------------------------
(* bufio.Writer. *)

\* Write(p) with b in the buffer: what goes out to the connection and what stays.  Bytes
\* that do not fit fill the buffer up and push it out; if it is empty they go out directly.
BufWrite(b, p) ==
  LET room == BufferSize - Len(b)
      rest == SubSeq(p, room + 1, Len(p))
  IN CASE Len(p) <= room -> [out |-> <<>>, buf |-> b \o p]
       [] Len(p) > room /\ b = <<>> -> [out |-> p, buf |-> <<>>]
       [] Len(p) > room /\ b # <<>> ->
            IF Len(rest) <= BufferSize
            THEN [out |-> b \o SubSeq(p, 1, room), buf |-> rest]
            ELSE [out |-> b \o p, buf |-> <<>>]

\* WriteSSF's writes in order, through the buffer.
BufWrites(b, ps) ==
  FoldLeft(LAMBDA acc, p : LET w == BufWrite(acc.buf, p)
                           IN [out |-> acc.out \o w.out, buf |-> w.buf],
           [out |-> <<>>, buf |-> b], ps)

\* The connection takes the first n bytes of p.
Put(n, p) ==
  /\ wire' = [wire EXCEPT ![conn] = @ \o SubSeq(p, 1, n)]
  /\ wrote' = [wrote EXCEPT ![conn] = @ \o SubSeq(p, 1, n)]

\* A write to the connection fails at any byte, and at the first once the peer has closed it.
Failures(p) == IF reader[conn] = "reading" THEN 0 .. Len(p) - 1 ELSE {0} \cap (0 .. Len(p) - 1)
Succeeds(p) == reader[conn] = "reading" \/ p = <<>>

-----------------------------------------------------------------------------
(* connect. *)

Connect(call) ==
  /\ pc = "idle" /\ conn = 0
  /\ pc' = call /\ wait' = 0 /\ elapsed' = 0

\* The dial succeeds: connection() sets up a new buffer and drops the old one.
Dialed ==
  /\ pc # "idle" /\ conn = 0 /\ made < MaxConns
  /\ made' = made + 1
  /\ conn' = made + 1
  /\ buf' = <<>>
  /\ bufConn' = IF BufferSize > 0 THEN made + 1 ELSE bufConn
  /\ open' = [open EXCEPT ![made + 1] = TRUE]
  /\ reader' = [reader EXCEPT ![made + 1] = "reading"]
  /\ UNCHANGED <<connectVars, next, answer, flushed, wrote, taken, wire, got>>

\* A dial is refused; time.After(wait) fires before the context's deadline.
DialFailed ==
  /\ pc # "idle" /\ conn = 0
  /\ elapsed + wait <= ConnectTimeout
  /\ elapsed' = elapsed + wait
  /\ wait' = IF Backoff > MaxBackoff THEN MaxBackoff ELSE wait + Backoff
  /\ UNCHANGED <<pc, clientVars, wire, serverVars>>

\* The deadline comes first, during a dial or a wait: SendSync or FlushSync returns ctx.Err().
TimedOut ==
  /\ pc # "idle" /\ conn = 0
  /\ elapsed' = ConnectTimeout
  /\ IF pc = "send" THEN answer' = Append(answer, "err") /\ next' = next + 1
                    ELSE UNCHANGED <<answer, next>>
  /\ flushed' = FALSE
  /\ pc' = "idle" /\ wait' = 0
  /\ UNCHANGED <<conn, bufConn, buf, made, open, wrote, taken, wire, serverVars>>

-----------------------------------------------------------------------------
(* SendSync and FlushSync. *)

More == next <= Len(Spans)

StartSend ==
  /\ More /\ Connect("send")
  /\ UNCHANGED <<clientVars, wire, serverVars>>

Ready(call) == conn # 0 /\ pc \in {"idle", call}

Returns(ok) ==
  /\ answer' = Append(answer, IF ok THEN "nil" ELSE "err")
  /\ next' = next + 1
  /\ pc' = "idle" /\ wait' = 0 /\ elapsed' = 0
  /\ flushed' = FALSE

HangUp == conn' = 0 /\ open' = [open EXCEPT ![conn] = FALSE]

Output(s) == IF BufferSize = 0 THEN [out |-> FrameOf(s), buf |-> <<>>]
                               ELSE BufWrites(buf, Writes(s))

SendSucceeds ==
  /\ More /\ Ready("send")
  /\ LET s == Spans[next]  w == Output(s) IN
       /\ s \notin Unmarshalable
       /\ Succeeds(w.out)
       /\ Put(Len(w.out), w.out)
       /\ buf' = w.buf
       /\ taken' = [taken EXCEPT ![conn] = Append(@, s)]
  /\ Returns(TRUE)
  /\ UNCHANGED <<conn, bufConn, made, open, serverVars>>

\* Marshalling fails before anything is written: not a framing error.
MarshalFails ==
  /\ More /\ Ready("send") /\ Spans[next] \in Unmarshalable
  /\ Returns(FALSE)
  /\ UNCHANGED <<conn, bufConn, buf, made, open, wrote, taken, wire, serverVars>>

\* Mutant of WriteFails: the poisoned connection is kept.
WriteFailsKeep ==
  /\ More /\ Ready("send")
  /\ LET s == Spans[next]  w == Output(s) IN
       /\ s \notin Unmarshalable
       /\ \E n \in Failures(w.out) : Put(n, w.out)
  /\ Returns(FALSE)
  /\ UNCHANGED <<conn, open, bufConn, buf, made, taken, serverVars>>

\* A write fails half way: the framing error closes the connection and loses the buffer.
WriteFails ==
  /\ More /\ Ready("send")
  /\ LET s == Spans[next]  w == Output(s) IN
       /\ s \notin Unmarshalable
       /\ \E n \in Failures(w.out) : Put(n, w.out)
  /\ HangUp /\ Returns(FALSE)
  /\ UNCHANGED <<bufConn, buf, made, taken, serverVars>>

StartFlush ==
  /\ bufConn # 0 /\ Connect("flush")
  /\ UNCHANGED <<clientVars, wire, serverVars>>

FlushEnds(ok) == pc' = "idle" /\ wait' = 0 /\ elapsed' = 0 /\ flushed' = ok

\* Mutant of FlushSync: the buffer is dropped without being written.
FlushSyncDrop ==
  /\ bufConn # 0 /\ Ready("flush")
  /\ buf' = <<>>
  /\ FlushEnds(TRUE)
  /\ UNCHANGED <<conn, bufConn, next, made, open, answer, wrote, taken, wire, serverVars>>

FlushSync ==
  /\ bufConn # 0 /\ Ready("flush")
  /\ \/ /\ Succeeds(buf)
        /\ Put(Len(buf), buf) /\ buf' = <<>>
        /\ FlushEnds(TRUE)
        /\ UNCHANGED <<conn, open>>
     \/ /\ \E n \in Failures(buf) : Put(n, buf)
        /\ HangUp /\ FlushEnds(FALSE) /\ buf' = buf
  /\ UNCHANGED <<bufConn, next, made, answer, taken, serverVars>>

-----------------------------------------------------------------------------
(* The server: ReadSSFStreamSocket calling ReadSSF. *)

Ends(c, how) ==
  /\ reader' = [reader EXCEPT ![c] = how]
  /\ wire' = [wire EXCEPT ![c] = <<>>]
  /\ UNCHANGED <<clientVars, connectVars, got>>

\* EOF before the first byte of a message.
ReadEOF(c) ==
  /\ reader[c] = "reading" /\ wire[c] = <<>> /\ ~open[c] /\ c <= made
  /\ Ends(c, "hangup")

\* The reads of a frame that are complete: the version, the length and the body.
HasVersion(w) == w # <<>>
GoodVersion(w) == HasVersion(w) /\ w[1] = Version(0)
HasLength(w) == Len(w) >= 2
GoodLength(w) == HasLength(w) /\ w[2].kind = "length" /\ w[2].val <= MaxSSFPacketLength
HasBody(w) == GoodLength(w) /\ Len(w) >= 2 + w[2].val

\* A version or length that cannot be, or a stream that ends inside a frame.
IsFramingError(c) ==
  LET w == wire[c] IN
    /\ HasVersion(w)
    /\ \/ ~GoodVersion(w)
       \/ GoodVersion(w) /\ HasLength(w) /\ ~GoodLength(w)
       \/ GoodVersion(w) /\ ~open[c] /\ ~HasBody(w)

FramingError(c) ==
  /\ reader[c] = "reading" /\ IsFramingError(c)
  /\ Ends(c, "error")

\* ParseSSF accepts the body when it is the protobuf of one span.
Parse(body) ==
  {s \in ToSet(Spans) : body = Payload(s)}

\* A whole frame: a body that does not parse is reported and skipped.
ReadFrame(c) ==
  LET w == wire[c] IN
    /\ reader[c] = "reading" /\ GoodVersion(w) /\ HasBody(w)
    /\ wire' = [wire EXCEPT ![c] = SubSeq(w, 3 + w[2].val, Len(w))]
    /\ LET body == SubSeq(w, 3, 2 + w[2].val) IN
         \/ Parse(body) = {} /\ got' = got
         \/ \E s \in Parse(body) : got' = [got EXCEPT ![c] = Append(@, s)]
    /\ UNCHANGED <<clientVars, connectVars, reader>>

ReadSSFStreamSocket(c) == ReadEOF(c) \/ FramingError(c) \/ ReadFrame(c)

\* The client's backend goroutine is stopped.
Close ==
  /\ pc = "idle" /\ conn # 0 /\ ~More
  /\ HangUp /\ flushed' = FALSE
  /\ UNCHANGED <<bufConn, buf, next, made, answer, wrote, taken, connectVars, wire, serverVars>>

SendSync == StartSend \/ SendSucceeds \/ MarshalFails \/ WriteFails
Dial == Dialed \/ DialFailed \/ TimedOut

Next ==
  \/ SendSync \/ Dial \/ StartFlush \/ FlushSync \/ Close
  \/ \E c \in Conns : ReadSSFStreamSocket(c)

Spec == Init /\ [][Next]_vars /\ \A c \in Conns : WF_vars(ReadSSFStreamSocket(c))

-----------------------------------------------------------------------------
(* Properties. *)

\* Type invariant.
TypeOK ==
  /\ conn \in Conns /\ bufConn \in Conns /\ made \in Conns
  /\ pc \in {"idle", "send", "flush"}
  /\ wait \in Nat /\ elapsed \in Nat
  /\ Len(answer) = next - 1 /\ next <= Len(Spans) + 1
  /\ Len(buf) <= BufferSize
  /\ \A c \in Conns : reader[c] \in {"none", "reading", "hangup", "error"}

\* While a connection is in use, what was written on it and what waits in its buffer is
\* exactly the frames of the spans SendSync took on it: a frame never follows a torn one.
WellFramed == conn # 0 => wrote[conn] \o buf = Frames(taken[conn])

\* A FlushSync that returned nil has put every span taken on this connection on the wire.
FlushComplete == flushed => conn # 0 /\ wrote[conn] = Frames(taken[conn])

\* What a reader passes on is what the client sent on that connection, in order and without
\* gaps or repeats; it may include the span whose write failed after its last byte.
ReadsWhatWasSent ==
  \A c \in Conns \ {0} : IsPrefix(Frames(got[c]), wrote[c])

\* The frames of a stream up to its first framing error.
Whole(w) ==
  LET starts[i \in 0 .. Len(w)] ==   \* where the i-th frame starts; 0 if there is none
        IF i = 0 THEN 1
        ELSE LET p == starts[i - 1]  v == SubSeq(w, p, Len(w)) IN
               IF p = 0 \/ ~GoodVersion(v) \/ ~HasBody(v) THEN 0 ELSE p + 2 + v[2].val
      n == CHOOSE i \in 0 .. Len(w) : starts[i] # 0 /\ (i = Len(w) \/ starts[i + 1] = 0)
  IN [i \in 1 .. n |-> SubSeq(w, starts[i - 1] + 2, starts[i] - 1)]

\* On a stream another client wrote, the reader passes on exactly the spans of the frames
\* before the first framing error, skipping bodies that do not parse.
ReadsForeign ==
  reader[0] \in {"hangup", "error"} =>
    Frames(got[0]) = FlattenSeq([i \in DOMAIN Whole(wrote[0]) |->
       IF Parse(Whole(wrote[0])[i]) = {} THEN <<>>
       ELSE FrameOf(CHOOSE s \in Parse(Whole(wrote[0])[i]) : TRUE)])

\* connect gives up by its timeout.
ConnectBounded == elapsed <= ConnectTimeout

\* Holds again and again of a connection of the client: the reader has read every whole frame
\* that was written, unless it runs into an error.
CaughtUp(c) == reader[c] = "error" \/ Len(got[c]) = Len(Whole(wrote[c]))
=============================================================================
