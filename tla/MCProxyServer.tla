---------------------------- MODULE MCProxyServer ----------------------------
(* Small instances of ProxyServer. *)
EXTENDS ProxyServer, FiniteSetsExt

\* Hosts are numbers: metric 1 goes to the lowest member of a ring, metric 2 to the highest.
MCHash ==
  [r \in Rings \ {{}} |-> [m \in Metrics |-> IF m = 1 THEN Min(r) ELSE Max(r)]]

\* Every sendMetrics goroutine returns although the goroutines of its forwards block on the
\* unbuffered errCh before wg.Done, and Serve returns after Stop.
CallsComplete == (\A c \in Calls : []<>CallEnded(c)) /\ []<>ServeEnded

MCList == [c \in Calls |-> (1 .. c) \cap Metrics]
=============================================================================
