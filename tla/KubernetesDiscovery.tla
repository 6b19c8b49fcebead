------------------------ MODULE KubernetesDiscovery ------------------------
(***************************************************************************)
(* KubernetesDiscoverer.GetDestinationsForService: the loop over the pods   *)
(* that are labelled veneur-global, which finds a port in each running pod's*)
(* containers, against a declarative definition of the port it should find. *)
(***************************************************************************)
EXTENDS Integers, Sequences, SequencesExt

CONSTANTS PodChoices,  \* the pods a list may hold
          MaxPods      \* bound on the length of the list

VARIABLES pods,  \* pods.Items; a pod is [running, ip, containers], a port [name, protocol, number]
          index, \* podIndex
          ips    \* the destinations so far: <<pod index, port>>

vars == <<pods, index, ips>>

NoPort == -1   \* forwardPort == ""

Init ==
  /\ pods \in BoundedSeq(PodChoices, MaxPods)
  /\ index = 1 /\ ips = <<>>

\* The loop over a container's ports: it ends at the first one called http and takes any TCP port
\* on its way.
ScanPorts(forwardPort, ports) ==
  FoldLeft(LAMBDA acc, port :
             IF acc.stop THEN acc
             ELSE IF port.name = "http" THEN [port |-> port.number, stop |-> TRUE]
             ELSE IF port.protocol = "TCP" THEN [acc EXCEPT !.port = port.number]
             ELSE acc,
           [port |-> forwardPort, stop |-> FALSE], ports).port

forwardPort(pod) == FoldLeft(ScanPorts, NoPort, pod.containers)

\* The three ways the body of the loop continues early.
Usable(pod) == pod.running /\ forwardPort(pod) \notin {NoPort, 0} /\ pod.ip

\* One iteration of the loop over the pods.
GetDestinationsForService ==
  /\ index <= Len(pods)
  /\ ips' = IF Usable(pods[index]) THEN Append(ips, <<index, forwardPort(pods[index])>>) ELSE ips
  /\ index' = index + 1
  /\ UNCHANGED pods

Next == GetDestinationsForService

Spec == Init /\ [][Next]_vars /\ WF_vars(Next)

-----------------------------------------------------------------------------
(* Properties. *)

Http(c) == {i \in DOMAIN c : c[i].name = "http"}
Tcp(c) == {i \in DOMAIN c : c[i].protocol = "TCP"}

\* The port of a container: its first port called http, else its last TCP port.
BestPort(c) ==
  IF Http(c) # {} THEN c[CHOOSE i \in Http(c) : \A j \in Http(c) : i <= j].number
  ELSE c[CHOOSE i \in Tcp(c) : \A j \in Tcp(c) : j <= i].number

\* The last container that has one of the two decides for its pod.
Deciding(pod) ==
  {k \in DOMAIN pod.containers :
     /\ Http(pod.containers[k]) \cup Tcp(pod.containers[k]) # {}
     /\ \A l \in DOMAIN pod.containers :
          Http(pod.containers[l]) \cup Tcp(pod.containers[l]) # {} => l <= k}

\* GetDestinationsForService: a pod is a destination exactly if it runs, has an address and a
\* port other than 0 to forward to; it is one once, in the order of the list, with that port.
DestinationsRight ==
  /\ \A n \in DOMAIN ips :
       LET pod == pods[ips[n][1]] IN
       /\ pod.running /\ pod.ip /\ ips[n][2] # 0
       /\ \E k \in Deciding(pod) : ips[n][2] = BestPort(pod.containers[k])
       /\ n > 1 => ips[n - 1][1] < ips[n][1]
  /\ \A i \in 1..(index - 1) :
       /\ pods[i].running /\ pods[i].ip
       /\ \E k \in Deciding(pods[i]) : BestPort(pods[i].containers[k]) # 0
       => \E n \in DOMAIN ips : ips[n][1] = i
=============================================================================
