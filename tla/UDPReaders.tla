----------------------------- MODULE UDPReaders -----------------------------
(***************************************************************************)
(* startProcessingOnUDP, which startStatsdUDP and startSSFUDP share: a      *)
(* probe socket that fixes the port, num_readers goroutines with a socket   *)
(* each on that port, the channel on which the first of them reports the    *)
(* address, and ConsumePanic, the end of a goroutine that cannot bind.  A   *)
(* foreign process competes for ports.                                      *)
(***************************************************************************)
EXTENDS Integers, FiniteSets

CONSTANTS Readers,     \* goroutines that num_readers may ask for
          Ports,       \* ports the kernel may choose from, positive numbers
          Datagrams,   \* each is sent at most once
          SocketFails, \* NewSocket may fail for a reason of the system's
          Sentry       \* a Sentry client is configured

VARIABLES numReaders,  \* the goroutines this server runs; never changes
          addr,        \* the port to listen on, 0 for any
          starter,     \* where startProcessingOnUDP is
          sock,        \* the port each socket is bound to, 0 for none
          reader,      \* where each goroutine is
          once,        \* once.Do has run
          addrChan,    \* the port in addrChan, 0 for none
          result,      \* the port returned, 0 before
          delivered,   \* readers whose panic Sentry has received
          dead,        \* the process has terminated
          other,       \* the port a foreign process holds, 0 for none
          got          \* the socket each datagram went to, or None

vars == <<numReaders, addr, starter, sock, reader, once, addrChan, result, delivered, dead,
          other, got>>

None == "none"
Probe == "probe"
Sockets == Readers \cup {Probe}

\* reusePort := s.numReaders != 1
reusePort == Cardinality(numReaders) # 1

Init ==
  /\ numReaders \in SUBSET Readers
  /\ addr \in Ports \cup {0}
  /\ starter = "start" /\ sock = [s \in Sockets |-> 0]
  /\ reader = [i \in Readers |-> "none"]
  /\ once = FALSE /\ addrChan = 0 /\ result = 0
  /\ delivered = {} /\ dead = FALSE /\ other = 0
  /\ got = [d \in Datagrams |-> None]

\* The ports NewSocket can bind: with SO_REUSEPORT the server's sockets share a port.
Bindable ==
  {p \in Ports : (addr = 0 \/ p = addr) /\ p # other /\ (reusePort \/ \A s \in Sockets : sock[s] # p)}

NewSocketFails == SocketFails \/ Bindable = {}

-----------------------------------------------------------------------------
(* startProcessingOnUDP *)


\* When the port is shared, a first socket turns port 0 into a concrete one.
ProbeAddress ==
  /\ starter = "start"
  /\ \/ /\ ~reusePort /\ starter' = "spawn" /\ UNCHANGED <<addr, sock, dead>>
     \/ /\ reusePort
        /\ \E p \in Bindable : sock' = [sock EXCEPT ![Probe] = p] /\ addr' = p
        /\ starter' = "spawn" /\ UNCHANGED dead
     \/ /\ reusePort /\ NewSocketFails
        /\ dead' = TRUE /\ UNCHANGED <<addr, sock, starter>>
  /\ UNCHANGED <<numReaders, reader, once, addrChan, result, delivered, other, got>>

Spawn ==
  /\ starter = "spawn" /\ starter' = "waiting"
  /\ reader' = [i \in Readers |-> IF i \in numReaders THEN "binding" ELSE "none"]
  /\ UNCHANGED <<numReaders, addr, sock, once, addrChan, result, delivered, dead, other, got>>

\* return <-addrChan, and the deferred sock.Close().  The channel is closed after its one value.
Return ==
  /\ starter = "waiting" /\ addrChan # 0
  /\ starter' = "returned" /\ result' = addrChan
  /\ sock' = [sock EXCEPT ![Probe] = 0]
  /\ UNCHANGED <<numReaders, addr, reader, once, addrChan, delivered, dead, other, got>>

startProcessingOnUDP == ProbeAddress \/ Spawn \/ Return

-----------------------------------------------------------------------------
(* The reader goroutines *)

\* Each goroutine gets its own socket, or panics.
Bind(i) ==
  /\ reader[i] = "binding"
  /\ \/ /\ \E p \in Bindable : sock' = [sock EXCEPT ![i] = p]
        /\ reader' = [reader EXCEPT ![i] = "once"]
     \/ /\ NewSocketFails
        /\ reader' = [reader EXCEPT ![i] = "panic"] /\ UNCHANGED sock
  /\ UNCHANGED <<numReaders, addr, starter, once, addrChan, result, delivered, dead, other, got>>

\* once.Do: the first goroutine sends its address; then proc(sock, pool).
Announce(i) ==
  /\ reader[i] = "once"
  /\ reader' = [reader EXCEPT ![i] = "reading"]
  /\ once' = TRUE
  /\ addrChan' = IF once THEN addrChan ELSE sock[i]
  /\ UNCHANGED <<numReaders, addr, starter, sock, result, delivered, dead, other, got>>

\* ConsumePanic: the panic is captured for Sentry, if there is a client.
Capture(i) ==
  /\ reader[i] = "panic"
  /\ reader' = [reader EXCEPT ![i] = IF Sentry THEN "captured" ELSE "repanic"]
  /\ UNCHANGED <<numReaders, addr, starter, sock, once, addrChan, result, delivered, dead, other, got>>

\* The report is sent, which answers on the channel that ConsumePanic waits for.
Delivered(i) ==
  /\ reader[i] = "captured"
  /\ delivered' = delivered \cup {i}
  /\ reader' = [reader EXCEPT ![i] = "repanic"]
  /\ UNCHANGED <<numReaders, addr, starter, sock, once, addrChan, result, dead, other, got>>

\* panic(err) ends the process.
Repanic(i) ==
  /\ reader[i] = "repanic"
  /\ reader' = [reader EXCEPT ![i] = "died"]
  /\ dead' = TRUE
  /\ UNCHANGED <<numReaders, addr, starter, sock, once, addrChan, result, delivered, other, got>>

ConsumePanic(i) == Capture(i) \/ Delivered(i) \/ Repanic(i)

-----------------------------------------------------------------------------
(* The environment *)

\* A foreign process binds a free port, without SO_REUSEPORT, or gives it up.
TakePort(p) ==
  /\ other' = p
  /\ IF p = 0 THEN other # 0 ELSE other = 0 /\ \A s \in Sockets : sock[s] # p
  /\ UNCHANGED <<numReaders, addr, starter, sock, reader, once, addrChan, result, delivered, dead, got>>

\* Somebody who knows the returned address sends; the kernel picks one of its sockets.
Send(d) ==
  /\ starter = "returned" /\ got[d] = None
  /\ \E s \in Sockets : sock[s] = result /\ got' = [got EXCEPT ![d] = s]
  /\ UNCHANGED <<numReaders, addr, starter, sock, reader, once, addrChan, result, delivered, dead, other>>

Server == startProcessingOnUDP \/ \E i \in Readers : Bind(i) \/ Announce(i) \/ ConsumePanic(i)

Next ==
  /\ ~dead
  /\ \/ Server
     \/ \E p \in Ports \cup {0} : TakePort(p)
     \/ \E d \in Datagrams : Send(d)

Fairness ==
  /\ WF_vars(~dead /\ startProcessingOnUDP)
  /\ \A i \in Readers : WF_vars(~dead /\ (Bind(i) \/ Announce(i) \/ ConsumePanic(i)))

Spec == Init /\ [][Next]_vars /\ Fairness

-----------------------------------------------------------------------------
(* Properties. *)

\* Type invariant: exactly the goroutines that have got past NewSocket own a socket.
TypeOK ==
  /\ starter \in {"start", "spawn", "waiting", "returned"}
  /\ sock \in [Sockets -> Ports \cup {0}]
  /\ reader \in [Readers -> {"none", "binding", "once", "reading", "panic", "captured", "repanic", "died"}]
  /\ \A i \in Readers : sock[i] # 0 <=> reader[i] \in {"once", "reading"}
  /\ addrChan \in Ports \cup {0} /\ result \in Ports \cup {0}
  /\ other \in Ports \cup {0} /\ addr \in Ports \cup {0}
  /\ \A d \in Datagrams : got[d] \in Sockets \cup {None}

\* All readers listen on one port, the returned one once startProcessingOnUDP has returned,
\* even when the configuration asks for port 0.
OneAddress ==
  \A s, t \in Sockets :
    sock[s] # 0 => (sock[t] # 0 => sock[s] = sock[t]) /\ (result # 0 => sock[s] = result)

\* With several readers, the port that the probe has found stays the server's until it returns:
\* no foreign process can take it between the probe and the readers' sockets.
PortHeld == reusePort /\ starter # "start" /\ addr # 0 => other # addr

\* A datagram sent to the returned address waits in a reader's socket, not in the probe's,
\* which nobody reads.
ReadByReader == \A d \in Datagrams : got[d] # Probe

\* Holds in the end: startProcessingOnUDP has returned, or the process has died, if it was asked
\* for at least one reader; for num_readers = 0 it waits on addrChan for ever.
Returned == numReaders = {} \/ starter = "returned" \/ dead

\* ConsumePanic: the goroutine whose panic ends the process has reported it to Sentry.
PanicReported == Sentry => \A i \in Readers : reader[i] = "died" => i \in delivered
=============================================================================
