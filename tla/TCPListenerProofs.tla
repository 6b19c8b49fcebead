-------------------------- MODULE TCPListenerProofs --------------------------
(***************************************************************************)
(* Statsd over TCP, for any clients, whatever they send and however they    *)
(* end, with and without TLS, Sentry and failures of Accept.                *)
(***************************************************************************)
EXTENDS TCPListener, TLAPS

Packets == [line : Nat, whole : BOOLEAN, ok : BOOLEAN]

Reasons == {"none", "handshake", "long", "bad", "eof", "reset", "timeout"}

Shape ==
  /\ conn \in [Clients -> {"new", "backlog", "handshake", "scanning", "closed"}]
  /\ sent \in [Clients -> Nat] /\ half \in [Clients -> BOOLEAN]
  /\ handled \in [Clients -> Seq(Packets)] /\ why \in [Clients -> Reasons]

\* The listener is closed by a shutdown only, so Accept fails for a reason of its own or while
\* shutting down, and only the former is fatal.
Errors ==
  /\ ~listening => shutdown
  /\ acceptor = "error" => sysError \/ shutdown
  /\ acceptor = "fatal" => sysError
  /\ dead => sysError /\ (Sentry => reported)

Pieces(c) == sent[c] + (IF half[c] THEN 1 ELSE 0)

\* Every packet but the last is a whole line that was accepted.
Ordered(c) ==
  \A n \in 1..Len(handled[c]) :
    /\ handled[c][n].line = n
    /\ n < Len(handled[c]) => handled[c][n].ok /\ handled[c][n].whole /\ Script[c][n] = "good"

\* While a connection is scanned this holds of its last packet too; nothing is handled before,
\* and nothing is sent any more once it is closed.
Lines(c) ==
  /\ Ordered(c)
  /\ conn[c] \in {"new", "backlog", "handshake"} => handled[c] = <<>>
  /\ conn[c] # "closed" => why[c] # "eof" /\ Len(handled[c]) <= sent[c]
  /\ conn[c] = "scanning" =>
       \A n \in 1..Len(handled[c]) : handled[c][n].ok /\ handled[c][n].whole /\ Script[c][n] = "good"
  /\ Len(handled[c]) <= Pieces(c)
  /\ why[c] = "eof" => Len(handled[c]) = Pieces(c)

IInv == Shape /\ Errors /\ \A c \in Clients : Lines(c)

LEMMA InitInv == Init => IInv
<1> SUFFICES ASSUME Init PROVE IInv
  OBVIOUS
<1>1. Shape
  <2>1. <<>> \in Seq(Packets)
    OBVIOUS
  <2>2. handled \in [Clients -> Seq(Packets)]
    BY <2>1 DEF Init
  <2> QED BY <2>2 DEF Init, Shape, Reasons
<1>2. Errors
  BY DEF Init, Errors
<1>3. ASSUME NEW c \in Clients PROVE Lines(c)
  <2>1. handled[c] = <<>> /\ conn[c] = "new" /\ sent[c] = 0 /\ half[c] = FALSE /\ why[c] = "none"
    BY DEF Init
  <2> QED BY <2>1 DEF Lines, Ordered, Pieces
<1> QED BY <1>1, <1>2, <1>3 DEF IInv

\* A step that leaves a connection alone.
LEMMA LinesKept ==
  ASSUME NEW c \in Clients, Lines(c),
         conn'[c] = conn[c], sent'[c] = sent[c], half'[c] = half[c], handled'[c] = handled[c], why'[c] = why[c]
  PROVE  Lines(c)'
BY DEF Lines, Ordered, Pieces

\* A step that only moves a connection on, before it is scanned.
LEMMA LinesMoved ==
  ASSUME NEW c \in Clients, Lines(c), conn[c] \in {"new", "backlog", "handshake"},
         conn'[c] \in {"backlog", "handshake", "scanning"},
         sent'[c] = sent[c], half'[c] = half[c], handled'[c] = handled[c], why'[c] = why[c]
  PROVE  Lines(c)'
BY DEF Lines, Ordered, Pieces

\* A step that closes a connection, for a reason other than the client's end, with what it has.
LEMMA LinesClosed ==
  ASSUME NEW c \in Clients, Shape, Lines(c), conn[c] # "closed", conn'[c] = "closed", why'[c] # "eof",
         sent'[c] = sent[c], half'[c] = half[c], handled'[c] = handled[c]
  PROVE  Lines(c)'
BY DEF Shape, Lines, Ordered, Pieces

\* The next piece is sent.
LEMMA LinesSent ==
  ASSUME NEW c \in Clients, Shape, Lines(c), conn[c] # "closed", conn'[c] = conn[c],
         half'[c] = ~half[c], sent'[c] = (IF half[c] THEN sent[c] + 1 ELSE sent[c]),
         handled'[c] = handled[c], why'[c] = why[c]
  PROVE  Lines(c)'
BY DEF Shape, Lines, Ordered, Pieces

\* One packet more is handled, number Len + 1 and the last if it was not a good whole line.
LEMMA LinesHandled ==
  ASSUME NEW c \in Clients, Shape, Lines(c), conn[c] = "scanning", NEW p \in Packets,
         handled'[c] = Append(handled[c], p), p.line = Len(handled[c]) + 1,
         sent'[c] = sent[c], half'[c] = half[c], Len(handled[c]) + 1 <= Pieces(c),
         \/ /\ conn'[c] = "scanning" /\ why'[c] = why[c] /\ Len(handled[c]) < sent[c]
            /\ p.ok /\ p.whole /\ Script[c][p.line] = "good"
         \/ /\ conn'[c] = "closed" /\ (why'[c] = "eof" => Len(handled[c]) + 1 = Pieces(c))
  PROVE  Lines(c)'
<1> DEFINE h == handled[c]
<1>1. h \in Seq(Packets) /\ Len(h) \in Nat /\ sent[c] \in Nat /\ half[c] \in BOOLEAN
  BY DEF Shape
<1>2. /\ Len(handled'[c]) = Len(h) + 1
      /\ \A n \in 1..Len(h) : handled'[c][n] = h[n]
      /\ handled'[c][Len(h) + 1] = p
  BY <1>1
<1>3. \A n \in 1..Len(h) : h[n].line = n /\ h[n].ok /\ h[n].whole /\ Script[c][n] = "good"
  BY DEF Lines, Ordered
<1>4. Ordered(c)'
  <2> SUFFICES ASSUME NEW n \in 1..Len(handled'[c])
               PROVE  /\ handled'[c][n].line = n
                      /\ n < Len(handled'[c]) => handled'[c][n].ok /\ handled'[c][n].whole /\ Script[c][n] = "good"
    BY DEF Ordered
  <2>1. CASE n = Len(h) + 1
    BY <2>1, <1>1, <1>2
  <2>2. CASE n \in 1..Len(h)
    BY <2>2, <1>1, <1>2, <1>3
  <2> QED BY <2>1, <2>2, <1>1, <1>2
<1>5. Pieces(c)' = Pieces(c)
  BY DEF Pieces
<1>6. conn'[c] = "scanning" =>
        \A n \in 1..Len(handled'[c]) : handled'[c][n].ok /\ handled'[c][n].whole /\ Script[c][n] = "good"
  <2> SUFFICES ASSUME conn'[c] = "scanning", NEW n \in 1..Len(handled'[c])
               PROVE  handled'[c][n].ok /\ handled'[c][n].whole /\ Script[c][n] = "good"
    OBVIOUS
  <2>1. CASE n = Len(h) + 1
    BY <2>1, <1>2
  <2>2. CASE n \in 1..Len(h)
    BY <2>2, <1>2, <1>3
  <2> QED BY <2>1, <2>2, <1>1, <1>2
<1>7. conn'[c] # "closed" => why'[c] # "eof" /\ Len(handled'[c]) <= sent'[c]
  BY <1>1, <1>2 DEF Lines
<1>8. why'[c] = "eof" => Len(handled'[c]) = Pieces(c)'
  BY <1>2, <1>5 DEF Lines
<1> QED BY <1>1, <1>2, <1>4, <1>5, <1>6, <1>7, <1>8 DEF Lines

-----------------------------------------------------------------------------
(* The steps. *)

LEMMA ErrorsStep == ASSUME Errors, [Next]_vars PROVE Errors'
<1>1. CASE UNCHANGED server
  BY <1>1 DEF Errors, server
<1>2. CASE AcceptFails
  BY <1>2 DEF Errors, AcceptFails
<1>3. CASE AcceptError
  BY <1>3 DEF Errors, AcceptError
<1>4. CASE Fire
  BY <1>4 DEF Errors, Fire
<1>5. CASE ExitFatal
  BY <1>5 DEF Errors, ExitFatal
<1>6. CASE Shutdown
  BY <1>6 DEF Errors, Shutdown
<1>7. CASE CloseListener
  BY <1>7 DEF Errors, CloseListener
<1> QED
  BY <1>1, <1>2, <1>3, <1>4, <1>5, <1>6, <1>7
     DEF Next, vars, ReadTCPSocket, Accept, Connect, SendPiece, EndClient, handleTCPGoroutine, Handshake, ScanLine,
         ScanEOF, ScanReset, ScanTimeout, ScanRest

\* What a step of connection c may change, of all that Shape and Lines speak of.
Touches(c) ==
  /\ \A d \in Clients \ {c} : /\ conn'[d] = conn[d] /\ sent'[d] = sent[d] /\ half'[d] = half[d]
                              /\ handled'[d] = handled[d] /\ why'[d] = why[d]
  /\ Lines(c)'
  /\ Shape'

LEMMA ConnectStep ==
  ASSUME IInv, NEW c \in Clients, Connect(c) \/ Accept(c) PROVE Touches(c)
<1>1. Shape /\ Lines(c)
  BY DEF IInv
<1>2. /\ conn[c] \in {"new", "backlog", "handshake"} /\ UNCHANGED <<sent, half, handled, why>>
      /\ \E s \in {"backlog", "handshake", "scanning"} : conn' = [conn EXCEPT ![c] = s]
  BY DEF Connect, Accept, client
<1>3. conn'[c] \in {"backlog", "handshake", "scanning"}
  BY <1>1, <1>2 DEF Shape
<1>4. Lines(c)'
  BY <1>1, <1>2, <1>3, LinesMoved
<1>5. Shape'
  BY <1>1, <1>2 DEF Shape
<1> QED BY <1>1, <1>2, <1>4, <1>5 DEF Touches, Shape

LEMMA SendStep ==
  ASSUME IInv, NEW c \in Clients, SendPiece(c) PROVE Touches(c)
<1>1. Shape /\ Lines(c)
  BY DEF IInv
<1>2. /\ conn[c] # "closed" /\ UNCHANGED <<conn, handled, why>>
      /\ half' = [half EXCEPT ![c] = ~half[c]]
      /\ sent' = [sent EXCEPT ![c] = IF half[c] THEN sent[c] + 1 ELSE sent[c]]
  BY DEF SendPiece
<1>3. half'[c] = ~half[c] /\ sent'[c] = (IF half[c] THEN sent[c] + 1 ELSE sent[c])
  BY <1>1, <1>2 DEF Shape
<1>4. Lines(c)'
  BY <1>1, <1>2, <1>3, LinesSent
<1>5. Shape'
  BY <1>1, <1>2 DEF Shape
<1> QED BY <1>1, <1>2, <1>4, <1>5 DEF Touches, Shape

LEMMA HandshakeStep ==
  ASSUME IInv, NEW c \in Clients, Handshake(c) PROVE Touches(c)
<1>1. Shape /\ Lines(c)
  BY DEF IInv
<1>2. conn[c] = "handshake" /\ UNCHANGED <<sent, half, handled>>
  BY DEF Handshake, client
<1>3. CASE conn' = [conn EXCEPT ![c] = "scanning"] /\ UNCHANGED why
  <2>1. Lines(c)'
    BY <1>1, <1>2, <1>3, LinesMoved DEF Shape
  <2> QED BY <1>1, <1>2, <1>3, <2>1 DEF Touches, Shape
<1>4. CASE Return(c, "handshake")
  <2>1. conn'[c] = "closed" /\ why'[c] = "handshake"
    BY <1>1, <1>4 DEF Return, Shape
  <2>2. Lines(c)'
    BY <1>1, <1>2, <2>1, LinesClosed
  <2> QED BY <1>1, <1>2, <1>4, <2>2 DEF Touches, Shape, Return, Reasons
<1> QED BY <1>3, <1>4 DEF Handshake

LEMMA PacketFields ==
  ASSUME NEW line \in Nat, NEW whole \in BOOLEAN, NEW ok \in BOOLEAN
  PROVE  /\ Packet(line, whole, ok) \in Packets
         /\ Packet(line, whole, ok).line = line
         /\ Packet(line, whole, ok).whole = whole
         /\ Packet(line, whole, ok).ok = ok
BY DEF Packet, Packets

\* One connection's packets are appended to.
LEMMA AppendPacket ==
  ASSUME Shape, NEW c \in Clients, NEW p \in Packets, handled' = [handled EXCEPT ![c] = Append(handled[c], p)]
  PROVE  /\ handled'[c] = Append(handled[c], p) /\ handled' \in [Clients -> Seq(Packets)]
         /\ \A d \in Clients \ {c} : handled'[d] = handled[d]
<1>1. handled \in [Clients -> Seq(Packets)]
  BY DEF Shape
<1>2. Append(handled[c], p) \in Seq(Packets)
  BY <1>1
<1> QED BY <1>1, <1>2

LEMMA ScanLineStep ==
  ASSUME IInv, NEW c \in Clients, ScanLine(c) PROVE Touches(c)
<1> DEFINE n == Len(handled[c]) + 1
           p == Packet(n, TRUE, Script[c][n] = "good")
<1>1. Shape /\ Lines(c)
  BY DEF IInv
<1>2. conn[c] = "scanning" /\ Len(handled[c]) < sent[c] /\ UNCHANGED <<sent, half>>
  BY DEF ScanLine, client
<1>3. handled[c] \in Seq(Packets) /\ Len(handled[c]) \in Nat /\ sent[c] \in Nat /\ half[c] \in BOOLEAN
  BY <1>1 DEF Shape
<1>4. p \in Packets /\ p.line = n /\ p.whole = TRUE /\ p.ok = (Script[c][n] = "good")
  <2>1. n \in Nat /\ (Script[c][n] = "good") \in BOOLEAN
    BY <1>3
  <2> QED BY <2>1, PacketFields
<1> HIDE DEF p
<1>5. n <= Pieces(c)
  BY <1>2, <1>3 DEF Pieces
<1>6. CASE Script[c][n] = "long"
  <2>1. Return(c, "long") /\ UNCHANGED handled
    BY <1>6 DEF ScanLine
  <2>2. conn'[c] = "closed" /\ why'[c] = "long"
    BY <1>1, <2>1 DEF Return, Shape
  <2>3. Lines(c)'
    BY <1>1, <1>2, <2>1, <2>2, LinesClosed
  <2> QED BY <1>1, <1>2, <2>1, <2>3 DEF Touches, Shape, Return, Reasons
<1>7. CASE Script[c][n] # "long"
  <2>1. /\ handled' = [handled EXCEPT ![c] = Append(handled[c], p)]
        /\ IF Script[c][n] = "good" THEN UNCHANGED <<conn, why>> ELSE Return(c, "bad")
    BY <1>7 DEF ScanLine, p
  <2>2. handled'[c] = Append(handled[c], p) /\ handled' \in [Clients -> Seq(Packets)]
    BY <1>1, <1>4, <2>1, AppendPacket
  <2>3. CASE Script[c][n] = "good"
    <3>1. Lines(c)'
      BY <1>1, <1>2, <1>4, <1>5, <2>1, <2>2, <2>3, LinesHandled
    <3> QED BY <1>1, <1>2, <2>1, <2>2, <2>3, <3>1 DEF Touches, Shape
  <2>4. CASE Script[c][n] # "good"
    <3>1. conn'[c] = "closed" /\ why'[c] = "bad"
      BY <1>1, <2>1, <2>4 DEF Return, Shape
    <3>2. Lines(c)'
      BY <1>1, <1>2, <1>4, <1>5, <2>2, <3>1, LinesHandled
    <3> QED BY <1>1, <1>2, <2>1, <2>2, <2>4, <3>2 DEF Touches, Shape, Return, Reasons
  <2> QED BY <2>3, <2>4
<1> QED BY <1>6, <1>7

\* The end of the input: for the client's end all lines have been handled.
LEMMA ScanRestStep ==
  ASSUME IInv, NEW c \in Clients, NEW reason \in {"eof", "reset", "timeout"}, ScanRest(c, reason),
         reason = "eof" => Len(handled[c]) = sent[c]
  PROVE  Touches(c)
<1>1. Shape /\ Lines(c)
  BY DEF IInv
<1>2. conn[c] = "scanning" /\ UNCHANGED <<sent, half>> /\ Return(c, reason)
  BY DEF ScanRest, client
<1>3. handled[c] \in Seq(Packets) /\ Len(handled[c]) \in Nat /\ sent[c] \in Nat /\ half[c] \in BOOLEAN
  BY <1>1 DEF Shape
<1>4. conn'[c] = "closed" /\ why'[c] = reason
  BY <1>1, <1>2 DEF Return, Shape
<1>5. CASE half[c] /\ Len(handled[c]) = sent[c]
  <2>1. PICK ok \in BOOLEAN : handled' = [handled EXCEPT ![c] = Append(handled[c], Packet(sent[c] + 1, FALSE, ok))]
    BY <1>5 DEF ScanRest
  <2> DEFINE p == Packet(sent[c] + 1, FALSE, ok)
  <2>2. p \in Packets /\ p.line = Len(handled[c]) + 1
    <3>1. sent[c] + 1 \in Nat /\ FALSE \in BOOLEAN /\ sent[c] + 1 = Len(handled[c]) + 1
      BY <1>3, <1>5
    <3>2. p \in Packets /\ p.line = sent[c] + 1
      BY <3>1, PacketFields
    <3> QED BY <3>1, <3>2
  <2>3. handled'[c] = Append(handled[c], p) /\ handled' \in [Clients -> Seq(Packets)]
    BY <1>1, <2>1, <2>2, AppendPacket
  <2>4. Len(handled[c]) + 1 = Pieces(c)
    BY <1>3, <1>5 DEF Pieces
  <2>5. Lines(c)'
    <3>1. Len(handled[c]) + 1 <= Pieces(c)
      BY <1>3, <2>4
    <3> QED BY <1>1, <1>2, <1>4, <2>2, <2>3, <2>4, <3>1, LinesHandled
  <2> QED BY <1>1, <1>2, <2>1, <2>3, <2>5 DEF Touches, Shape, Return, Reasons
<1>6. CASE ~(half[c] /\ Len(handled[c]) = sent[c])
  <2>1. UNCHANGED handled
    BY <1>6 DEF ScanRest
  <2>2. Lines(c)'
    <3>1. CASE reason = "eof"
      <4>1. Len(handled[c]) = Pieces(c)
        BY <1>3, <1>6, <3>1 DEF Pieces
      <4> QED BY <1>1, <1>2, <1>3, <1>4, <2>1, <4>1 DEF Lines, Ordered, Pieces
    <3>2. CASE reason # "eof"
      BY <1>1, <1>2, <1>4, <2>1, <3>2, LinesClosed
    <3> QED BY <3>1, <3>2
  <2> QED BY <1>1, <1>2, <2>1, <2>2 DEF Touches, Shape, Return, Reasons
<1> QED BY <1>5, <1>6

-----------------------------------------------------------------------------

LEMMA Step == IInv /\ [Next]_vars => IInv'
<1> SUFFICES ASSUME IInv, [Next]_vars PROVE IInv'
  OBVIOUS
<1>1. Errors'
  BY ErrorsStep DEF IInv
<1>2. ASSUME NEW c \in Clients, Touches(c) PROVE Shape' /\ \A d \in Clients : Lines(d)'
  <2>1. ASSUME NEW d \in Clients, d # c PROVE Lines(d)'
    BY <1>2, <2>1, LinesKept DEF IInv, Touches
  <2> QED BY <1>2, <2>1 DEF Touches
<1>3. ASSUME UNCHANGED <<conn, sent, half, handled, why>> PROVE Shape' /\ \A d \in Clients : Lines(d)'
  <2>1. ASSUME NEW d \in Clients PROVE Lines(d)'
    BY <1>3, <2>1, LinesKept DEF IInv
  <2> QED BY <1>3, <2>1 DEF IInv, Shape
<1>4. CASE UNCHANGED <<conn, sent, half, handled, why>>
  BY <1>1, <1>3, <1>4 DEF IInv
<1>5. ASSUME NEW c \in Clients, Connect(c) \/ Accept(c) \/ SendPiece(c) \/ Handshake(c) \/ ScanLine(c) PROVE IInv'
  BY <1>1, <1>2, <1>5, ConnectStep, SendStep, HandshakeStep, ScanLineStep DEF IInv
<1>6. ASSUME NEW c \in Clients, ScanEOF(c) \/ ScanReset(c) \/ ScanTimeout(c) PROVE IInv'
  BY <1>1, <1>2, <1>6, ScanRestStep DEF IInv, ScanEOF, ScanReset, ScanTimeout
<1> QED
  BY <1>4, <1>5, <1>6
     DEF Next, vars, client, ReadTCPSocket, handleTCPGoroutine, AcceptFails, AcceptError, Fire, ExitFatal, Shutdown,
         CloseListener, EndClient

\* The packets of a connection are the lines that were sent, in order and without gaps, and
\* handleTCPGoroutine reads none after one that was refused or unfinished.
THEOREM PacketsAreLines == Spec => []LinesInOrder
<1>1. IInv => LinesInOrder
  BY DEF IInv, Lines, Ordered, Pieces, LinesInOrder
<1> QED BY <1>1, InitInv, Step, PTL DEF Spec

\* When a connection ends because the client closed its end, everything that the client had sent
\* has been handled by handleTCPGoroutine.
THEOREM NothingLeftAtEOF == Spec => []EOFComplete
<1>1. IInv => EOFComplete
  BY DEF IInv, Lines, Pieces, EOFComplete
<1> QED BY <1>1, InitInv, Step, PTL DEF Spec

\* ReadTCPSocket ends the process only for an error of Accept that closing the listener has not
\* caused, and after the log hook has told Sentry.
THEOREM FatalForCause == Spec => []DiesOfErrors
<1>1. IInv => DiesOfErrors
  BY DEF IInv, Errors, DiesOfErrors
<1> QED BY <1>1, InitInv, Step, PTL DEF Spec
=============================================================================
