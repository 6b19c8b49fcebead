------------------------------ MODULE MCProxies ------------------------------
(***************************************************************************)
(* Small instances of veneur-proxy: calls over gRPC (ProxyServer), the start *)
(* and the requests over HTTP (HTTPProxy), and the discovery of pods         *)
(* (KubernetesDiscovery).  A behaviour runs one part; the variables of the   *)
(* others are left alone, ProxyServer's as they are at the start.            *)
(***************************************************************************)
EXTENDS ProxyServer, SequencesExt

CONSTANTS Parts   \* Parts: the parts that a run explores

VARIABLES part,   \* the part that runs; it never changes
          \* HTTPProxy
          conf, phase, world, changes, todo, answer, httpRing, httpPc, status, items, batches, next, wg,
          toPost, posted, rings,
          \* KubernetesDiscovery
          pods, index, ips

Unused == "unused"

-----------------------------------------------------------------------------
(* ProxyServer: hosts are numbers, and metric 1 goes to the lowest member of a ring, metric 2 to *)
(* the highest. *)

MCHash ==
  [r \in Rings \ {{}} |-> [m \in Metrics |-> IF m = 1 THEN Min(r) ELSE Max(r)]]

MCList == [c \in Calls |-> (1 .. c) \cap Metrics]

-----------------------------------------------------------------------------
(* HTTPProxy. *)

HttpHosts == {"h1", "h2"}

\* x hashes to h1 if that is a member and y to h2.
HttpHash == [r \in SUBSET HttpHosts \ {{}} |->
              ("x" :> IF "h1" \in r THEN "h1" ELSE "h2") @@ ("y" :> IF "h2" \in r THEN "h2" ELSE "h1")]

On(f, t) == ("forward" :> f) @@ ("trace" :> t)

\* Every configuration with a timeout, good or bad.
AllConfigs ==
  [service : {On(f, t) : f, t \in BOOLEAN}, address : {On(f, t) : f, t \in BOOLEAN},
   kubernetes : BOOLEAN, timeout : {"ok", "bad"}, interval : {"ok", "bad"}]

\* A service for metrics and a static address for traces.
ForwardConfigs ==
  {[service |-> On(TRUE, FALSE), address |-> On(FALSE, TRUE), kubernetes |-> FALSE, timeout |-> t,
    interval |-> "ok"] : t \in {"unset", "ok"}}

NoRequests == [r \in {} |-> "none"]
HttpRequests == {"r1", "r2"}

\* One request of every kind that is refused.
RefusedRequests == {"encoding", "deflate", "json", "empty", "blank"}

Begin == INSTANCE HTTPProxy WITH
  Hosts <- HttpHosts, Static <- "h1", Hanging <- {}, Items <- {"x", "y"}, Requests <- {},
  Path <- NoRequests, Body <- NoRequests, Content <- NoRequests, Hash <- HttpHash,
  Configs <- AllConfigs, NoDiscoverer <- FALSE, MaxChanges <- 1, ring <- httpRing, pc <- httpPc
Http == INSTANCE HTTPProxy WITH
  Hosts <- HttpHosts, Static <- "h1", Hanging <- {"h2"}, Items <- {"x", "y"}, Requests <- HttpRequests,
  Path <- ("r1" :> "import") @@ ("r2" :> "spans"), Body <- [r \in HttpRequests |-> "ok"],
  Content <- [r \in HttpRequests |-> <<"x", "y">>], Hash <- HttpHash, Configs <- ForwardConfigs,
  NoDiscoverer <- FALSE, MaxChanges <- 1, ring <- httpRing, pc <- httpPc
Refuse == INSTANCE HTTPProxy WITH
  Hosts <- HttpHosts, Static <- "h1", Hanging <- {}, Items <- {"x", "y"}, Requests <- RefusedRequests,
  Path <- [r \in RefusedRequests |-> IF r = "json" THEN "spans" ELSE "import"],
  Body <- [r \in RefusedRequests |-> r], Content <- [r \in RefusedRequests |-> <<"x">>],
  Hash <- HttpHash, Configs <- {c \in ForwardConfigs : c.timeout = "ok"}, NoDiscoverer <- TRUE,
  MaxChanges <- 0, ring <- httpRing, pc <- httpPc

httpVars == <<conf, phase, world, changes, todo, answer, httpRing, httpPc, status, items, batches, next,
  wg, toPost, posted, rings>>
HttpIdle ==
  conf = Unused /\ phase = Unused /\ world = Unused /\ changes = Unused /\ todo = Unused /\
  answer = Unused /\ httpRing = Unused /\ httpPc = Unused /\ status = Unused /\ items = Unused /\
  batches = Unused /\ next = Unused /\ wg = Unused /\ toPost = Unused /\ posted = Unused /\ rings = Unused

-----------------------------------------------------------------------------
(* KubernetesDiscovery. *)

KubePorts ==
  {[name |-> "http", protocol |-> "TCP", number |-> 80], [name |-> "grpc", protocol |-> "TCP", number |-> 90],
   [name |-> "none", protocol |-> "TCP", number |-> 0], [name |-> "statsd", protocol |-> "UDP", number |-> 70]}

\* Pods of up to two containers; port 0, pods without an address and pods that do not run occur
\* with one container.
KubePods ==
  [running : {TRUE}, ip : {TRUE}, containers : BoundedSeq(BoundedSeq({p \in KubePorts : p.number # 0}, 2), 2)]
  \cup [running : BOOLEAN, ip : BOOLEAN, containers : {<<c>> : c \in BoundedSeq(KubePorts, 2)}]

Kube == INSTANCE KubernetesDiscovery WITH
  PodChoices <- KubePods, MaxPods <- 2

kubeVars == <<pods, index, ips>>
KubeIdle ==
  pods = Unused /\ index = Unused /\ ips = Unused

-----------------------------------------------------------------------------
(* One part runs, and the variables of the others are left alone. *)

PartInit ==
  /\ part \in Parts
  /\ Init /\ (part # "calls" => ring = {})
  /\ IF part = "start" THEN Begin!Init ELSE IF part = "requests" THEN Http!Init ELSE IF part = "refused" THEN Refuse!Init ELSE HttpIdle
  /\ IF part = "kubernetes" THEN Kube!Init ELSE KubeIdle

PartNext ==
  /\ UNCHANGED part
  /\ \/ part = "calls" /\ Next /\ UNCHANGED <<httpVars, kubeVars>>
     \/ part = "start" /\ Begin!Next /\ UNCHANGED <<vars, kubeVars>>
     \/ part = "requests" /\ Http!Next /\ UNCHANGED <<vars, kubeVars>>
     \/ part = "refused" /\ Refuse!Next /\ UNCHANGED <<vars, kubeVars>>
     \/ part = "kubernetes" /\ Kube!Next /\ UNCHANGED <<vars, httpVars>>

allVars == <<part, vars, httpVars, kubeVars>>

\* The fairness of every component, for the part that runs.
PartFairness ==
  /\ WF_httpVars(part = "start" /\ Begin!Refresh)
  /\ \A r \in HttpRequests :
       /\ WF_httpVars(part = "requests" /\ Http!Proxy(r))
       /\ WF_httpVars(part = "requests" /\ Http!Answers(r))

PartSpec == PartInit /\ [][PartNext]_allVars /\ PartFairness

-----------------------------------------------------------------------------
(* Properties. *)

\* The type invariant of the HTTP proxy.
TypesHold == part = "requests" => Http!TypeOK

\* Start: "Refusing to start with zero destinations for forwarding."
ForwardStart == part = "start" => Begin!ForwardStart

\* RefreshDestinations: "We don't want to zero out the list."
KeepsLastGood ==
  [][part = "start" => \A s \in {"forward", "trace"} : httpRing[s] # {} => httpRing'[s] # {}]_allVars

\* Once the answers of the discovery stay the same, the rings become what it says.
Converges == \A s \in {"forward", "trace"} : []<>(part = "start" => Begin!Converged(s))

\* ProxyMetrics: when a request is done, each of its items has been in exactly one batch, also if
\* the ring has changed between Members and Get; each batch went to its destination as a whole
\* or not at all, and a request that was refused has sent nothing.
EachOnce == (part = "requests" => Http!EachOnce) /\ (part = "refused" => Refuse!EachOnce)

\* ProxyMetrics and ProxyTraces return, if a timeout is configured or all hosts answer.
RequestsComplete == \A r \in HttpRequests : []<>(part = "requests" => Http!Completed(r))

\* GetDestinationsForService: a pod is a destination exactly if it runs, has an address and a
\* port other than 0 to forward to; it is one once, in the order of the list, with that port.
DestinationsRight == part = "kubernetes" => Kube!DestinationsRight

-----------------------------------------------------------------------------
(* What the run states: the promises above, by component. *)


=============================================================================
