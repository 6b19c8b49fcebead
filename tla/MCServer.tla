------------------------------- MODULE MCServer -------------------------------
(***************************************************************************)
(* Small instances of what a server goes through from its start to its end: *)
(* reading the settings and starting up (Startup), opening UDP, TCP and Unix *)
(* listeners (UDPReaders, TCPListener, UnixListener), and metrics that leave *)
(* the fleet and the server that is shut down (Forwarding).  A behaviour     *)
(* runs one part; the variables of the others are left alone, TCPListener's  *)
(* as they are at the start.                                                 *)
(***************************************************************************)
EXTENDS TCPListener, TLC

CONSTANTS Parts   \* Parts: the parts that a run explores

VARIABLES part,   \* the part that runs; it never changes
          \* UDPReaders
          numReaders, addr, starter, sock, reader, once, addrChan, result, udpDelivered, udpDead,
          udpOther, got,
          \* UnixListener
          proc, holder, path, unixListening, unixShutdown, accept, loop, done, unixClient, served,
          \* Startup
          file, env, pc, conf, bootServer, started, bootListening, spanChan, bootReported,
          \* Forwarding
          packetChan, importChan, hand, chunk, wm, processed, imported, accepted, overwritten, samples,
          events, phase, todo, fleetOther, temp, final, forwards, posts, fleetShutdown, fleetReported,
          fleetDelivered, lost, importing

Unused == "unused"

\* TCPListener: one client with a bad line in the middle, one with an overlong one.
MCClients == {"c1", "c2"}
MCScript == ("c1" :> <<"good", "bad", "good">>) @@ ("c2" :> <<"long">>)

-----------------------------------------------------------------------------
(* UDPReaders. *)

Udp == INSTANCE UDPReaders WITH
  Readers <- {"r1", "r2", "r3"}, Ports <- {1, 2}, Datagrams <- {"d1"}, SocketFails <- TRUE,
  Sentry <- TRUE, delivered <- udpDelivered, dead <- udpDead, other <- udpOther

udpVars == <<numReaders, addr, starter, sock, reader, once, addrChan, result, udpDelivered, udpDead,
  udpOther, got>>
UdpIdle ==
  numReaders = Unused /\ addr = Unused /\ starter = Unused /\ sock = Unused /\ reader = Unused /\
  once = Unused /\ addrChan = Unused /\ result = Unused /\ udpDelivered = Unused /\ udpDead = Unused /\
  udpOther = Unused /\ got = Unused

-----------------------------------------------------------------------------
(* UnixListener. *)

Procs == {"p1", "p2", "p3"}
ErrProcs == {"p1", "p2"}

Unix == INSTANCE UnixListener WITH
  Clients <- {"c1", "c2"}, SystemErrors <- FALSE, listening <- unixListening, shutdown <- unixShutdown,
  client <- unixClient
UnixErr == INSTANCE UnixListener WITH
  Procs <- ErrProcs, Clients <- {"c1", "c2"}, SystemErrors <- TRUE, listening <- unixListening,
  shutdown <- unixShutdown, client <- unixClient

unixVars == <<proc, holder, path, unixListening, unixShutdown, accept, loop, done, unixClient, served>>
UnixIdle ==
  proc = Unused /\ holder = Unused /\ path = Unused /\ unixListening = Unused /\
  unixShutdown = Unused /\ accept = Unused /\ loop = Unused /\ done = Unused /\ unixClient = Unused /\
  served = Unused

-----------------------------------------------------------------------------
(* Startup. *)

Partial(ks, vs) == UNION {[d -> vs] : d \in SUBSET ks}
File(keys) == [keys |-> keys, unknown |-> FALSE, broken |-> FALSE]
Env(keys) == [keys |-> keys, bad |-> FALSE]
On(ks) == [k \in ks |-> 1]

\* Files and environments that set the keys under test in every combination.
MCFiles ==
  {File(f) : f \in Partial({"datadog_flush_max_per_body", "flush_max_per_body", "ssf_buffer_size", "interval"}, {0, 7})}
  \cup {[File(<<>>) EXCEPT !.broken = TRUE], [File(<<>>) EXCEPT !.unknown = TRUE], File(On({"tls_key", "aws_access_key_id"})),
        File(On({"omit_empty_hostname", "aws_access_key_id", "aws_secret_access_key", "flush_file"}))}
MCEnvs == {Env(e) : e \in Partial({"datadog_flush_max_per_body", "flush_max_per_body", "datadog_span_buffer_size"}, {5})}
  \cup {[keys |-> <<>>, bad |-> TRUE]}

\* Files that configure the sinks.
MCSinks ==
  {File(On(on \cup {"datadog_api_key", "kafka_broker"}) @@ [k \in workers |-> 2]) :
     on \in SUBSET {"ssf_listen_addresses", "datadog_api_hostname", "datadog_trace_api_address", "falconer_address",
                    "lightstep_access_token", "signalfx_api_key", "kafka_span_topic", "kafka_event_topic"},
     workers \in SUBSET {"num_span_workers"}}

Settings == INSTANCE Startup WITH
  Files <- MCFiles, Envs <- MCEnvs, OsHostname <- 9, ChanCap <- 2, MaxSamples <- 1,
  server <- bootServer, listening <- bootListening, reported <- bootReported
Boot == INSTANCE Startup WITH
  Files <- MCSinks, Envs <- {Env(<<>>)}, OsHostname <- 9, ChanCap <- 2, MaxSamples <- 4,
  server <- bootServer, listening <- bootListening, reported <- bootReported

bootVars == <<file, env, pc, conf, bootServer, started, bootListening, spanChan, bootReported>>
BootIdle ==
  file = Unused /\ env = Unused /\ pc = Unused /\ conf = Unused /\ bootServer = Unused /\
  started = Unused /\ bootListening = Unused /\ spanChan = Unused /\ bootReported = Unused

-----------------------------------------------------------------------------
(* Forwarding. *)

Timer == [key |-> [name |-> "x", type |-> "timer"], scope |-> "mixed", n |-> 1]
Counter == [key |-> [name |-> "x", type |-> "counter"], scope |-> "global", n |-> 1]
FleetDigest == [k \in {Timer.key, Counter.key} |-> 1]

Settle == INSTANCE Forwarding WITH
  Servers <- {"leaf", "root"}, NumWorkers <- 1, Names <- {"x"}, Metrics <- {Timer, Counter},
  Digest <- FleetDigest, PacketChanCap <- 1, ImportChanCap <- 1,
  Upstream <- ("leaf" :> "root") @@ ("root" :> "none"), NoServer <- "none", Events <- {}, NumSinks <- 1,
  NumPlugins <- 0, NumAggregates <- 3, NumPercentiles <- 3, MayShutdown <- {}, other <- fleetOther,
  shutdown <- fleetShutdown, reported <- fleetReported, delivered <- fleetDelivered
Halt == INSTANCE Forwarding WITH
  Servers <- {"root"}, NumWorkers <- 1, Names <- {"x"}, Metrics <- {Timer}, Digest <- FleetDigest,
  PacketChanCap <- 1, ImportChanCap <- 1, Upstream <- "root" :> "none", NoServer <- "none",
  Events <- {"e1"}, NumSinks <- 2, NumPlugins <- 1, NumAggregates <- 3, NumPercentiles <- 3,
  MayShutdown <- {"root"}, other <- fleetOther, shutdown <- fleetShutdown, reported <- fleetReported,
  delivered <- fleetDelivered

fleetVars == <<packetChan, importChan, hand, chunk, wm, processed, imported, accepted, overwritten,
  samples, events, phase, todo, fleetOther, temp, final, forwards, posts, fleetShutdown, fleetReported,
  fleetDelivered, lost, importing>>
FleetIdle ==
  packetChan = Unused /\ importChan = Unused /\ hand = Unused /\ chunk = Unused /\ wm = Unused /\
  processed = Unused /\ imported = Unused /\ accepted = Unused /\ overwritten = Unused /\ samples = Unused /\
  events = Unused /\ phase = Unused /\ todo = Unused /\ fleetOther = Unused /\ temp = Unused /\ final = Unused /\
  forwards = Unused /\ posts = Unused /\ fleetShutdown = Unused /\ fleetReported = Unused /\
  fleetDelivered = Unused /\ lost = Unused /\ importing = Unused

-----------------------------------------------------------------------------
(* One part runs, and the variables of the others are left alone. *)

PartInit ==
  /\ part \in Parts
  /\ Init
  /\ IF part = "readers" THEN Udp!Init ELSE UdpIdle
  /\ IF part = "listeners" THEN Unix!Init ELSE IF part = "listenerrors" THEN UnixErr!Init ELSE UnixIdle
  /\ IF part = "settings" THEN Settings!Init ELSE IF part = "startup" THEN Boot!Init ELSE BootIdle
  /\ IF part = "settling" THEN Settle!Init ELSE IF part = "stopping" THEN Halt!Init ELSE FleetIdle

PartNext ==
  /\ UNCHANGED part
  /\ \/ part = "tcp" /\ Next /\ UNCHANGED <<udpVars, unixVars, bootVars, fleetVars>>
     \/ part = "readers" /\ Udp!Next /\ UNCHANGED <<vars, unixVars, bootVars, fleetVars>>
     \/ part = "listeners" /\ Unix!Next /\ UNCHANGED <<vars, udpVars, bootVars, fleetVars>>
     \/ part = "listenerrors" /\ UnixErr!Next /\ UNCHANGED <<vars, udpVars, bootVars, fleetVars>>
     \/ part = "settings" /\ Settings!Next /\ UNCHANGED <<vars, udpVars, unixVars, fleetVars>>
     \/ part = "startup" /\ Boot!Next /\ UNCHANGED <<vars, udpVars, unixVars, fleetVars>>
     \/ part = "settling" /\ Settle!Next /\ UNCHANGED <<vars, udpVars, unixVars, bootVars>>
     \/ part = "stopping" /\ Halt!Next /\ UNCHANGED <<vars, udpVars, unixVars, bootVars>>

allVars == <<part, vars, udpVars, unixVars, bootVars, fleetVars>>

\* The fairness of every component, for the part that runs.
PartFairness ==
  /\ Fairness
  /\ WF_udpVars(part = "readers" /\ ~udpDead /\ Udp!startProcessingOnUDP)
  /\ \A i \in {"r1", "r2", "r3"} :
       WF_udpVars(part = "readers" /\ ~udpDead /\ (Udp!Bind(i) \/ Udp!Announce(i) \/ Udp!ConsumePanic(i)))
  /\ \A p \in Procs :
       /\ WF_unixVars(part = "listeners" /\ Unix!Serve(p))
       /\ WF_unixVars(part = "listeners" /\ Unix!AcceptOnClosed(p))
       /\ WF_unixVars(part = "listeners" /\ Unix!CloseListener(p))
  /\ \A p \in ErrProcs :
       /\ WF_unixVars(part = "listenerrors" /\ UnixErr!Serve(p))
       /\ WF_unixVars(part = "listenerrors" /\ UnixErr!AcceptOnClosed(p))
       /\ WF_unixVars(part = "listenerrors" /\ UnixErr!CloseListener(p))
  /\ WF_bootVars(part = "startup" /\ Boot!SpanWork)
  /\ \A s \in {"leaf", "root"} :
       /\ WF_fleetVars(part = "settling" /\ Settle!Work(<<s, 0>>))
       /\ WF_fleetVars(part = "settling" /\ Settle!FlushLoop(s))
       /\ WF_fleetVars(part = "settling" /\ Settle!Sink(s, 1))
  /\ WF_fleetVars(part = "settling" /\ Settle!Post)
  /\ WF_fleetVars(part = "settling" /\ \E g \in importing : Settle!Import(g))
  /\ WF_fleetVars(part = "stopping" /\ Halt!Work(<<"root", 0>>))
  /\ WF_fleetVars(part = "stopping" /\ Halt!FlushLoop("root"))
  /\ \A k \in {1, 2} : WF_fleetVars(part = "stopping" /\ Halt!Sink("root", k))
  /\ SF_fleetVars(part = "stopping" /\ Halt!FlusherExit("root") /\ UNCHANGED importing)
  /\ WF_fleetVars(part = "stopping" /\ Halt!Plugin)

PartSpec == PartInit /\ [][PartNext]_allVars /\ PartFairness

-----------------------------------------------------------------------------
(* Properties. *)

\* The type invariants of the listeners.
TypesHold ==
  /\ part = "readers" => Udp!TypeOK
  /\ part = "listeners" => Unix!TypeOK
  /\ part = "listenerrors" => UnixErr!TypeOK

\* startProcessingOnUDP: all readers listen on one port, the returned one once it has returned,
\* even when the configuration asks for port 0; and with several readers nobody else can take
\* the port between the probe and the readers' sockets.
OneAddress == part = "readers" => Udp!OneAddress /\ Udp!PortHeld

\* A datagram sent to the returned address waits in a reader's socket, not in the probe's, which
\* nobody reads.
ReadByReader == part = "readers" => Udp!ReadByReader

\* ConsumePanic: the goroutine whose panic ends the process has reported it to Sentry.
PanicReported == part = "readers" => Udp!PanicReported

\* startProcessingOnUDP returns, or the process dies, if it is asked for at least one reader.
StartReturns == []<>(part = "readers" => Udp!Returned)

\* "We have the exclusive use of the socket" (networking.go:177): while a process has an open
\* listener that its loop still serves, it holds the lock and the path leads to it and to
\* nobody else.
Exclusive == part = "listeners" => Unix!Exclusive

\* A client of the Unix socket is read by the process its connection went to, and by no other,
\* also when Accept fails for reasons of its own.
ReadOnce == (part = "listeners" => Unix!ReadOnce) /\ (part = "listenerrors" => UnixErr!ReadOnce)

\* A process that is shut down while no connection is on its way to the loop of its Unix
\* listener closes done and frees the lock, so that the next process can start.
Terminates ==
  /\ \A p \in Procs : []<>(part = "listeners" => Unix!Terminated(p))
  /\ \A p \in ErrProcs : []<>(part = "listenerrors" => UnixErr!Terminated(p))

\* With no unknown key in the file, ReadConfig gives every replacing or defaulted key the value
\* of the first that is set: itself, the key it replaces (each in the environment, then in the
\* file), the default.
SettingsResolved == part = "settings" => Settings!SettingsResolved

\* Start opens no listener before every sink has been started, in the order of the lists.
SinksBeforeTraffic == part = "startup" => Boot!SinksBeforeTraffic

\* A server with an SSF address takes all samples of its own out of SpanChan, whatever
\* num_span_workers is set to.
OwnSamplesTaken == []<>(part = "startup" => Boot!OwnSamplesOut)

\* Whatever a client got into a channel leaves the fleet: with every goroutine running, each
\* facet is in the end delivered, lost or overwritten.  A client sends each sample once, so
\* this is to say that again and again nothing is under way.
EventuallySettled == []<>(part = "settling" => Settle!Settled)

\* Closing the shutdown channel stops the ticker loop and never a flush under way: every flush
\* runs to its end, back to the ticker or, once the server has been told to shut down, out of it.
FlushCompletes == []<>(part = "stopping" => Halt!FlushOver("root"))

-----------------------------------------------------------------------------
(* What the run states: the promises above, by component. *)



\* ReadConfig and Start: settings are resolved by precedence, and sinks are up before traffic.
StartsConfigured == SettingsResolved /\ SinksBeforeTraffic

\* Nothing that starts, serves or stops a listener hangs: connections over TCP are released and
\* their acceptor returns at a shutdown, the UDP readers come up, and the Unix listener ends and
\* frees its lock; and the acceptor kills the process only for an error that no shutdown caused.
ListenersReturn == []DiesOfErrors /\ Released /\ AcceptorReturns /\ StartReturns /\ Terminates

\* Whatever got into a channel leaves it: samples leave the fleet, and the server's own samples
\* leave SpanChan.
QueuesDrain == EventuallySettled /\ OwnSamplesTaken
=============================================================================
