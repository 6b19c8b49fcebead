---------------------------- MODULE TCPListener ----------------------------
(***************************************************************************)
(* Statsd over TCP: startStatsdTCP, ReadTCPSocket, which starts a goroutine *)
(* for every connection, and handleTCPGoroutine, which completes the TLS    *)
(* handshake and treats each line as a packet, with a read deadline.  A     *)
(* client sends its lines in two pieces each and may fall silent, close its *)
(* end or reset the connection anywhere.                                    *)
(***************************************************************************)
EXTENDS Integers, Sequences

CONSTANTS Clients,
          Script,       \* the lines of a client: "good", "bad" (it does not parse), "long"
          TLS,          \* s.tlsConfig != nil
          Sentry,       \* the log hook has a Sentry client
          SystemErrors  \* Accept may also fail on an open listener

ASSUME TCPListenerAssumption ==
  /\ Script \in [Clients -> Seq({"good", "bad", "long"})]
  /\ TLS \in BOOLEAN /\ Sentry \in BOOLEAN /\ SystemErrors \in BOOLEAN

VARIABLES shutdown,   \* the shutdown channel is closed
          listening,  \* the listener is open
          acceptor,   \* ReadTCPSocket: "accepting", "error", "fatal", "returned"
          sysError,   \* history: Accept has failed on an open listener
          reported,   \* the fatal log entry has reached Sentry
          dead,       \* the process has exited
          conn,       \* each connection: "new", "backlog", "handshake", "scanning", "closed"
          sent,       \* complete lines the client has sent
          half,       \* a piece of the next line is sent as well
          ended,      \* the client's end: "open", "eof", "reset"
          handled,    \* packets given to HandleMetricPacket: [line, whole, ok]
          why         \* history: what closed the connection

server == <<shutdown, listening, acceptor, sysError, reported, dead>>
client == <<sent, half, ended>>
vars == <<server, client, conn, handled, why>>

Init ==
  /\ shutdown = FALSE /\ listening = TRUE /\ acceptor = "accepting"
  /\ sysError = FALSE /\ reported = FALSE /\ dead = FALSE
  /\ conn = [c \in Clients |-> "new"]
  /\ sent = [c \in Clients |-> 0] /\ half = [c \in Clients |-> FALSE]
  /\ ended = [c \in Clients |-> "open"]
  /\ handled = [c \in Clients |-> <<>>] /\ why = [c \in Clients |-> "none"]

-----------------------------------------------------------------------------
(* Clients. *)

Connect(c) ==
  /\ conn[c] = "new" /\ listening
  /\ conn' = [conn EXCEPT ![c] = "backlog"]
  /\ UNCHANGED <<server, client, handled, why>>

SendPiece(c) ==
  /\ conn[c] \notin {"new", "closed"} /\ ended[c] = "open" /\ sent[c] < Len(Script[c])
  /\ half' = [half EXCEPT ![c] = ~@]
  /\ sent' = [sent EXCEPT ![c] = IF half[c] THEN @ + 1 ELSE @]
  /\ UNCHANGED <<server, ended, conn, handled, why>>

EndClient(c, how) ==
  /\ conn[c] # "new" /\ ended[c] = "open"
  /\ ended' = [ended EXCEPT ![c] = how]
  /\ UNCHANGED <<server, sent, half, conn, handled, why>>

-----------------------------------------------------------------------------
(* handleTCPGoroutine *)

\* The deferred conn.Close(), on every way out.
Return(c, reason) ==
  /\ conn' = [conn EXCEPT ![c] = "closed"]
  /\ why' = [why EXCEPT ![c] = reason]

\* tlsConn.Handshake() succeeds, or fails: a certificate, the deadline, the client's end.
Handshake(c) ==
  /\ conn[c] = "handshake"
  /\ \/ ended[c] # "reset" /\ conn' = [conn EXCEPT ![c] = "scanning"] /\ UNCHANGED why
     \/ Return(c, "handshake")
  /\ UNCHANGED <<server, client, handled>>

Packet(line, whole, ok) == [line |-> line, whole |-> whole, ok |-> ok]

\* Mutant of ScanLine: a packet that does not parse does not end the connection.
ScanLineLenient(c) ==
  /\ conn[c] = "scanning" /\ Len(handled[c]) < sent[c]
  /\ LET n == Len(handled[c]) + 1 IN
       /\ handled' = [handled EXCEPT ![c] = Append(@, Packet(n, TRUE, Script[c][n] = "good"))]
       /\ UNCHANGED <<conn, why>>
  /\ UNCHANGED <<server, client>>

\* buf.Scan() finds a line, within the limit of bufio's buffer; HandleMetricPacket takes it, and
\* the first packet that does not parse ends the connection.
ScanLine(c) ==
  /\ conn[c] = "scanning" /\ Len(handled[c]) < sent[c]
  /\ LET n == Len(handled[c]) + 1
         kind == Script[c][n]
     IN IF kind = "long"
        THEN Return(c, "long") /\ UNCHANGED handled
        ELSE /\ handled' = [handled EXCEPT ![c] = Append(@, Packet(n, TRUE, kind = "good"))]
             /\ IF kind = "good" THEN UNCHANGED <<conn, why>> ELSE Return(c, "bad")
  /\ UNCHANGED <<server, client>>

\* No more line can be read, because of reason: what bufio holds of an unfinished one is the last
\* token, which HandleMetricPacket parses or refuses.
ScanRest(c, reason) ==
  /\ conn[c] = "scanning"
  /\ IF half[c] /\ Len(handled[c]) = sent[c]
     THEN \E ok \in BOOLEAN :
            handled' = [handled EXCEPT ![c] = Append(@, Packet(sent[c] + 1, FALSE, ok))]
     ELSE UNCHANGED handled
  /\ Return(c, reason)
  /\ UNCHANGED <<server, client>>

\* Mutant of ScanEOF: the loop ends as soon as the client has closed its end.
ScanEOFEarly(c) == ended[c] = "eof" /\ ScanRest(c, "eof")

\* All lines are read and the client has closed its end.
ScanEOF(c) == ended[c] = "eof" /\ Len(handled[c]) = sent[c] /\ ScanRest(c, "eof")

\* A reset connection fails at once, and the kernel drops what was not read.
ScanReset(c) == ended[c] = "reset" /\ ScanRest(c, "reset")

\* The deadline set before the Scan passes before the line is complete.
ScanTimeout(c) == Len(handled[c]) = sent[c] /\ ScanRest(c, "timeout")

handleTCPGoroutine(c) ==
  Handshake(c) \/ ScanLine(c) \/ ScanEOF(c) \/ ScanReset(c) \/ ScanTimeout(c)

-----------------------------------------------------------------------------
(* ReadTCPSocket, the goroutine that closes the listener, and the log hook *)

Accept(c) ==
  /\ acceptor = "accepting" /\ listening /\ conn[c] = "backlog"
  /\ conn' = [conn EXCEPT ![c] = IF TLS THEN "handshake" ELSE "scanning"]
  /\ UNCHANGED <<server, client, handled, why>>

AcceptFails ==
  /\ acceptor = "accepting" /\ (~listening \/ SystemErrors)
  /\ acceptor' = "error"
  /\ sysError' = (sysError \/ listening)
  /\ UNCHANGED <<shutdown, listening, reported, dead, client, conn, handled, why>>

\* An error is ignored while shutting down, and fatal otherwise.
AcceptError ==
  /\ acceptor = "error"
  /\ acceptor' = IF shutdown THEN "returned" ELSE "fatal"
  /\ UNCHANGED <<shutdown, listening, sysError, reported, dead, client, conn, handled, why>>

\* The log hook of a fatal entry waits until Sentry has the packet.
Fire ==
  /\ acceptor = "fatal" /\ Sentry /\ ~reported
  /\ reported' = TRUE
  /\ UNCHANGED <<shutdown, listening, acceptor, sysError, dead, client, conn, handled, why>>

\* os.Exit(1) after the hooks.
ExitFatal ==
  /\ acceptor = "fatal" /\ (Sentry => reported)
  /\ dead' = TRUE
  /\ UNCHANGED <<shutdown, listening, acceptor, sysError, reported, client, conn, handled, why>>

ReadTCPSocket ==
  (\E c \in Clients : Accept(c)) \/ AcceptFails \/ AcceptError \/ Fire \/ ExitFatal

Shutdown ==
  /\ ~shutdown /\ shutdown' = TRUE
  /\ UNCHANGED <<listening, acceptor, sysError, reported, dead, client, conn, handled, why>>

\* <-s.shutdown; listener.Close().  The connections that are open stay open.
CloseListener ==
  /\ shutdown /\ listening
  /\ listening' = FALSE
  /\ UNCHANGED <<shutdown, acceptor, sysError, reported, dead, client, conn, handled, why>>

Next ==
  /\ ~dead
  /\ \/ ReadTCPSocket \/ Shutdown \/ CloseListener
     \/ \E c \in Clients :
          Connect(c) \/ SendPiece(c) \/ EndClient(c, "eof") \/ EndClient(c, "reset")
          \/ handleTCPGoroutine(c)

Fairness ==
  /\ WF_vars(~dead /\ CloseListener)
  /\ WF_vars(~dead /\ (AcceptError \/ Fire \/ ExitFatal \/ (~listening /\ AcceptFails)))
  /\ \A c \in Clients :
       /\ WF_vars(~dead /\ Accept(c))
       /\ WF_vars(~dead /\ handleTCPGoroutine(c))

Spec == Init /\ [][Next]_vars /\ Fairness

-----------------------------------------------------------------------------
(* Properties. *)

\* The packets of a connection are the lines the client has sent, in order and without gaps; only
\* the last of them may have been refused or be unfinished, since either ends the connection.
LinesInOrder ==
  \A c \in Clients :
    LET h == handled[c] IN
    /\ Len(h) <= sent[c] + (IF half[c] THEN 1 ELSE 0)
    /\ \A n \in 1..Len(h) :
         /\ h[n].line = n
         /\ n < Len(h) => h[n].ok /\ h[n].whole /\ Script[c][n] = "good"

\* A connection that ends because the client closed its end has had every line handled, the
\* unfinished last one included.
EOFComplete ==
  \A c \in Clients :
    why[c] = "eof" => Len(handled[c]) = sent[c] + (IF half[c] THEN 1 ELSE 0)

\* ReadTCPSocket kills the process only for an error that the shutdown did not cause, and not
\* before Sentry has been told.
DiesOfErrors == dead => sysError /\ (Sentry => reported)

\* "time out idle connections to prevent leaking memory/goroutines": every connection that is
\* accepted is closed again, whatever the client does.  A client connects once, so this is to say
\* that again and again none is open.
Released == []<>(dead \/ \A c \in Clients : conn[c] \notin {"handshake", "scanning"})

\* Once the server shuts down, ReadTCPSocket returns, unless an error has ended the process.
AcceptorReturns == []<>(shutdown => acceptor = "returned" \/ dead)
=============================================================================
