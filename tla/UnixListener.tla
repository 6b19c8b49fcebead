---------------------------- MODULE UnixListener ----------------------------
(***************************************************************************)
(* startSSFUnix: server processes that take turns at one UNIX socket path,  *)
(* guarded by a lock file; in each, a goroutine that accepts connections, a *)
(* loop that starts a reader for each, and a shutdown that closes the       *)
(* listener.  A process may be killed at any moment, which releases its     *)
(* lock and leaves the socket file behind.                                  *)
(***************************************************************************)
EXTENDS Integers, FiniteSets

CONSTANTS Procs,        \* each starts at most once
          Clients,      \* each connects at most once
          SystemErrors  \* AcceptUnix may also fail on an open listener

VARIABLES proc,      \* where startSSFUnix or its process is
          holder,    \* the process that holds the lock, or None
          path,      \* the process whose socket the path names, or None
          listening, \* processes whose listener is open
          shutdown,  \* processes whose shutdown channel is closed
          accept,    \* the accept goroutine: "none", "accepting", "error", a client, "ended"
          loop,      \* the goroutine that starts readers: "none", "select", "returned"
          done,      \* processes whose done channel is closed
          client,    \* each client's connection: where it is
          served     \* the process a client's reader runs in, or None

vars == <<proc, holder, path, listening, shutdown, accept, loop, done, client, served>>
goroutines == <<shutdown, accept, loop, done>>

None == "none"

Init ==
  /\ proc = [p \in Procs |-> "unstarted"]
  /\ holder = None /\ path = None
  /\ listening = {} /\ shutdown = {} /\ done = {}
  /\ accept = [p \in Procs |-> "none"] /\ loop = [p \in Procs |-> "none"]
  /\ client = [c \in Clients |-> "new"] /\ served = [c \in Clients |-> None]

Alive(p) == proc[p] \notin {"unstarted", "dead"}

-----------------------------------------------------------------------------
(* Setup, one system call at a time. *)


\* lock.TryLock(): the process panics when another one holds the lock.
TryLock(p) ==
  /\ proc[p] = "unstarted"
  /\ IF holder = None THEN proc' = [proc EXCEPT ![p] = "locked"] /\ holder' = p
                      ELSE proc' = [proc EXCEPT ![p] = "dead"] /\ UNCHANGED holder
  /\ UNCHANGED <<path, listening, goroutines, client, served>>

\* os.Remove(addr)
Remove(p) ==
  /\ proc[p] = "locked"
  /\ proc' = [proc EXCEPT ![p] = "removed"]
  /\ path' = None
  /\ UNCHANGED <<holder, listening, goroutines, client, served>>

\* net.ListenUnix, which fails if the path exists, and the start of the goroutines.
Listen(p) ==
  /\ proc[p] = "removed" /\ path = None
  /\ proc' = [proc EXCEPT ![p] = "running"]
  /\ path' = p
  /\ listening' = listening \cup {p}
  /\ accept' = [accept EXCEPT ![p] = "accepting"]
  /\ loop' = [loop EXCEPT ![p] = "select"]
  /\ UNCHANGED <<holder, shutdown, done, client, served>>

startSSFUnix(p) == TryLock(p) \/ Remove(p) \/ Listen(p)

-----------------------------------------------------------------------------
(* Serving. *)

\* A client connects to whatever listens behind the path.
Connect(c) ==
  /\ client[c] = "new" /\ path # None /\ path \in listening
  /\ client' = [client EXCEPT ![c] = path]
  /\ UNCHANGED <<proc, holder, path, listening, goroutines, served>>

\* AcceptUnix returns a connection.
Accept(p, c) ==
  /\ accept[p] = "accepting" /\ p \in listening /\ client[c] = p
  /\ accept' = [accept EXCEPT ![p] = c]
  /\ client' = [client EXCEPT ![c] = "accepted"]
  /\ UNCHANGED <<proc, holder, path, listening, shutdown, loop, done, served>>

\* conns <- conn meets the select of the loop, which starts ReadSSFStreamSocket.
HandOver(p, c) ==
  /\ accept[p] = c /\ loop[p] = "select"
  /\ accept' = [accept EXCEPT ![p] = "accepting"]
  /\ served' = [served EXCEPT ![c] = p]
  /\ UNCHANGED <<proc, holder, path, listening, shutdown, loop, done, client>>

\* AcceptUnix fails because the listener is closed, or for a reason of the system's.
AcceptFails(p) ==
  /\ accept[p] = "accepting"
  /\ p \notin listening \/ SystemErrors
  /\ accept' = [accept EXCEPT ![p] = "error"]
  /\ UNCHANGED <<proc, holder, path, listening, shutdown, loop, done, client, served>>

\* An error during shutdown ends the goroutine, which unlocks and closes done.  Unlock does
\* nothing for a lock that the process does not hold.
AcceptEnds(p) ==
  /\ accept[p] = "error" /\ p \in shutdown
  /\ accept' = [accept EXCEPT ![p] = "ended"]
  /\ holder' = IF holder = p THEN None ELSE holder
  /\ done' = done \cup {p}
  /\ UNCHANGED <<proc, path, listening, shutdown, loop, client, served>>

\* The end of process p: the kernel closes its sockets and releases its lock.
Exit(p) ==
  /\ proc' = [proc EXCEPT ![p] = "dead"]
  /\ holder' = IF holder = p THEN None ELSE holder
  /\ listening' = listening \ {p}
  /\ accept' = [accept EXCEPT ![p] = "none"] /\ loop' = [loop EXCEPT ![p] = "none"]
  /\ UNCHANGED <<path, shutdown, done, client, served>>

\* Any other error is fatal: the process exits.
AcceptFatal(p) == accept[p] = "error" /\ p \notin shutdown /\ Exit(p)

\* The process is killed or exits.
Die(p) == Alive(p) /\ Exit(p)

Shutdown(p) ==
  /\ proc[p] = "running" /\ p \notin shutdown
  /\ shutdown' = shutdown \cup {p}
  /\ UNCHANGED <<proc, holder, path, listening, accept, loop, done, client, served>>

\* Mutant of CloseListener: the loop returns and leaves the listener open.
CloseListenerForget(p) ==
  /\ loop[p] = "select" /\ p \in shutdown
  /\ loop' = [loop EXCEPT ![p] = "returned"]
  /\ UNCHANGED <<proc, holder, path, listening, shutdown, accept, done, client, served>>

\* <-s.shutdown: listener.Close() removes the socket file, then closes the socket.
CloseListener(p) ==
  /\ loop[p] = "select" /\ p \in shutdown
  /\ loop' = [loop EXCEPT ![p] = "returned"]
  /\ listening' = listening \ {p}
  /\ path' = None
  /\ UNCHANGED <<proc, holder, shutdown, accept, done, client, served>>

Serve(p) ==
  \/ \E c \in Clients : Accept(p, c) \/ HandOver(p, c)
  \/ AcceptEnds(p) \/ AcceptFatal(p) \/ CloseListener(p)

Next ==
  \/ \E p \in Procs : startSSFUnix(p) \/ Serve(p) \/ AcceptFails(p) \/ Shutdown(p) \/ Die(p)
  \/ \E c \in Clients : Connect(c)

\* An accept on a closed listener fails at once.
AcceptOnClosed(p) == p \notin listening /\ AcceptFails(p)

Fairness ==
  \A p \in Procs : WF_vars(Serve(p)) /\ WF_vars(AcceptOnClosed(p)) /\ WF_vars(CloseListener(p))

Spec == Init /\ [][Next]_vars /\ Fairness

-----------------------------------------------------------------------------
(* Properties. *)

\* Type invariant: the goroutines run exactly in processes that got as far as listening.
TypeOK ==
  /\ holder \in Procs \cup {None} /\ path \in Procs \cup {None}
  /\ listening \subseteq Procs /\ shutdown \subseteq Procs /\ done \subseteq Procs
  /\ \A p \in Procs :
       /\ accept[p] \in {"none", "accepting", "error", "ended"} \cup Clients
       /\ loop[p] \in {"none", "select", "returned"}
       /\ proc[p] = "running" <=> loop[p] # "none"

\* "We have the exclusive use of the socket" (networking.go:177): while a process has an open
\* listener that its loop still serves, it holds the lock and the path leads to it and to
\* nobody else.
Exclusive ==
  /\ Cardinality(listening) <= 1
  /\ \A p \in Procs : loop[p] = "select" => holder = p /\ path = p /\ p \in listening

\* A client is read by the process its connection went to, and by no other.
ReadOnce ==
  \A c \in Clients :
    /\ served[c] # None => client[c] = "accepted"
    /\ Cardinality({p \in Procs : accept[p] = c}) + (IF served[c] # None THEN 1 ELSE 0) <= 1

\* Holds again and again of a process that is shut down: while no connection is on its way to
\* the loop, done is closed and the lock free, so that the next process can start.
Terminated(p) == p \in shutdown => p \in done \/ proc[p] = "dead" \/ accept[p] \in Clients
=============================================================================
