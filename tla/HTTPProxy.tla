----------------------------- MODULE HTTPProxy -----------------------------
(***************************************************************************)
(* veneur-proxy over HTTP: NewProxyFromConfig and Start, the goroutine that *)
(* refreshes the rings of destinations from a service discovery, and the    *)
(* requests, which split their items over a ring and post them.  A ring is  *)
(* the set of its members; Set, Members and Get of a ring are atomic, a     *)
(* request's use of several of them is not.                                 *)
(***************************************************************************)
EXTENDS Integers, Sequences, FiniteSets, SequencesExt

CONSTANTS Hosts,        \* addresses of global servers
          Static,       \* the host that forward_address and trace_address name
          Hanging,      \* hosts that may never answer a post
          Items,        \* metrics and spans
          Requests,
          Path,         \* of a request: "import" or "spans"
          Body,         \* of a request: "ok", "encoding", "deflate", "json", "empty" or "blank"
          Content,      \* the sequence of its items
          Hash,         \* consistent.Get: the member of a nonempty ring for an item
          Configs,      \* configurations, see ConfigType
          NoDiscoverer, \* NewConsul and NewKubernetesDiscoverer may fail
          MaxChanges    \* bound on the changes of what the discovery knows

Services == {"forward", "trace"}

\* service: a Consul service name is configured; address: a static address is; kubernetes: the
\* service account's directory exists; timeout: forward_timeout; interval: whether
\* consul_refresh_interval parses.
ConfigType ==
  [service : [Services -> BOOLEAN], address : [Services -> BOOLEAN], kubernetes : BOOLEAN,
   timeout : {"unset", "ok", "bad"}, interval : {"ok", "bad"}]

VARIABLES conf, phase,
          world,     \* the hosts the discovery knows for each service; {} also stands for an error
          changes,
          todo,      \* services that the current refresh has still to look at
          answer,    \* what the discovery has answered: a one-element sequence, or <<>>
          ring,      \* ForwardDestinations and TraceDestinations
          pc,        \* where each request is
          status,    \* the HTTP status a request was answered with
          items,     \* the slice the handler passes on
          batches,   \* jsonMetricsByDestination or tracesByDestination
          next,      \* index of the item to be routed
          wg,        \* posts that the request still waits for
          toPost,    \* destinations whose post has not ended
          posted,    \* history: what each host, or nobody, has received of a request
          rings      \* history: the rings a request's items were routed with

proxyVars == <<conf, phase, world, changes, todo, answer, ring>>
reqVars == <<pc, status, items, batches, next, wg, toPost, posted, rings>>
vars == <<proxyVars, reqVars>>

NoHost == "nohost"   \* Get on an empty ring returns "" and an error that is ignored
RingOf(r) == IF Path[r] = "import" THEN ring["forward"] ELSE ring["trace"]

AcceptingItems(c, s) == c.service[s] \/ c.address[s]
usingConsul(c) == \E s \in Services : c.service[s]

Init ==
  /\ conf \in Configs /\ phase = "new"
  /\ world \in [Services -> SUBSET Hosts] /\ changes = 0
  /\ todo = <<>> /\ answer = <<>> /\ ring = [s \in Services |-> {}]
  /\ pc = [r \in Requests |-> "new"] /\ status = [r \in Requests |-> 0]
  /\ items = [r \in Requests |-> <<>>] /\ batches = [r \in Requests |-> <<>>]
  /\ next = [r \in Requests |-> 1] /\ wg = [r \in Requests |-> 0]
  /\ toPost = [r \in Requests |-> {}]
  /\ posted = [r \in Requests |-> [h \in Hosts \cup {NoHost} |-> <<>>]]
  /\ rings = [r \in Requests |-> {}]

-----------------------------------------------------------------------------
(* NewProxyFromConfig and Start *)

Refused(c) ==
  \/ c.timeout = "bad"
  \/ \A s \in Services : ~AcceptingItems(c, s)
  \/ usingConsul(c) /\ c.interval = "bad"

NewProxyFromConfig ==
  /\ phase = "new"
  /\ phase' = IF Refused(conf) THEN "refused" ELSE "start"
  /\ ring' = [s \in Services |->
                IF ~conf.service[s] /\ conf.address[s] THEN {Static} ELSE {}]
  /\ UNCHANGED <<conf, world, changes, todo, answer, reqVars>>


\* The services that Start and every tick refresh, in this order.
Round == SelectSeq(<<"forward", "trace">>, LAMBDA s : conf.service[s])

\* Start sets the Discoverer, or returns without one; main then serves all the same.
Start ==
  /\ phase = "start"
  /\ \/ phase' = "starting" /\ todo' = Round
     \/ /\ NoDiscoverer /\ (conf.kubernetes \/ usingConsul(conf))
        /\ phase' = "undiscovered" /\ UNCHANGED todo
  /\ UNCHANGED <<conf, world, changes, answer, ring, reqVars>>

\* RefreshDestinations asks the discovery, without the lock.  Kubernetes has one answer for
\* every service.
GetDestinations ==
  /\ phase \in {"starting", "running"} /\ todo # <<>> /\ answer = <<>>
  /\ answer' = <<IF conf.kubernetes THEN world["forward"] ELSE world[Head(todo)]>>
  /\ UNCHANGED <<conf, phase, world, changes, todo, ring, reqVars>>

\* The ring is set, unless the discovery failed or found nothing.  During the start, both
\* services are checked by the length of ForwardDestinations.
SetDestinations ==
  /\ answer # <<>>
  /\ LET s == Head(todo) IN
       /\ ring' = IF answer[1] = {} THEN ring ELSE [ring EXCEPT ![s] = answer[1]]
       /\ phase' = IF phase = "starting" /\ ring'["forward"] = {} THEN "fatal" ELSE phase
  /\ todo' = Tail(todo) /\ answer' = <<>>
  /\ UNCHANGED <<conf, world, changes, reqVars>>

\* The refreshing goroutine starts a ticker with ConsulInterval, which is 0 and panics if no
\* Consul service is named.
StartDone ==
  /\ phase = "starting" /\ todo = <<>>
  /\ phase' = IF conf.kubernetes /\ ~usingConsul(conf) THEN "panicked" ELSE "running"
  /\ UNCHANGED <<conf, world, changes, todo, answer, ring, reqVars>>

Tick ==
  /\ phase = "running" /\ todo = <<>> /\ Round # <<>>
  /\ todo' = Round
  /\ UNCHANGED <<conf, phase, world, changes, answer, ring, reqVars>>

\* Shutdown: HTTPServe returns when the handlers have, and main with it.
Shutdown ==
  /\ phase \in {"running", "undiscovered"}
  /\ phase' = "exited"
  /\ UNCHANGED <<conf, world, changes, todo, answer, ring, reqVars>>

ChangeWorld ==
  /\ changes < MaxChanges
  /\ \E s \in Services, w \in SUBSET Hosts : w # world[s] /\ world' = [world EXCEPT ![s] = w]
  /\ changes' = changes + 1
  /\ UNCHANGED <<conf, phase, todo, answer, ring, reqVars>>

-----------------------------------------------------------------------------
(* Requests *)

Serving == phase \in {"running", "undiscovered"}

\* unmarshalMetricsFromHTTP: the status, the items, and whether the handler stops.  err is still
\* nil for an empty body, and may be nil for an unknown encoding (it is what extracting the
\* parent span returned): the handler then goes on with no items.
Unmarshal(r) ==
  CASE Body[r] = "ok" -> {[status |-> 202, items |-> Content[r], err |-> FALSE]}
    [] Body[r] = "encoding" -> {[status |-> 415, items |-> <<>>, err |-> e] : e \in BOOLEAN}
    [] Body[r] \in {"deflate", "json"} -> {[status |-> 400, items |-> <<>>, err |-> TRUE]}
    [] Body[r] \in {"empty", "blank"} -> {[status |-> 400, items |-> <<>>, err |-> FALSE]}

\* handleTraceRequest: the body is not compressed, and blank spans are spans.
handleTraceRequest(r) ==
  IF Body[r] \in {"ok", "blank"} THEN {[status |-> 202, items |-> Content[r], err |-> FALSE]}
  ELSE {[status |-> 400, items |-> <<>>, err |-> Body[r] # "empty"]}

\* handleProxy and handleSpans: answer, and pass the items to a goroutine.
Handle(r) ==
  /\ Serving /\ pc[r] = "new"
  /\ \E u \in (IF Path[r] = "import" THEN Unmarshal(r) ELSE handleTraceRequest(r)) :
       /\ status' = [status EXCEPT ![r] = u.status]
       /\ items' = [items EXCEPT ![r] = u.items]
       /\ pc' = [pc EXCEPT ![r] = IF u.err THEN "done" ELSE "members"]
  /\ UNCHANGED <<proxyVars, batches, next, wg, toPost, posted, rings>>

\* Destinations.Members(): an empty batch for each.
Members(r) ==
  /\ Serving /\ pc[r] = "members"
  /\ batches' = [batches EXCEPT ![r] = [h \in RingOf(r) |-> <<>>]]
  /\ pc' = [pc EXCEPT ![r] = "route"]
  /\ UNCHANGED <<proxyVars, status, items, next, wg, toPost, posted, rings>>

Get(members, x) == IF members = {} THEN NoHost ELSE Hash[members][x]

Extend(f, d, x) ==
  [h \in DOMAIN f \cup {d} |->
     IF h # d THEN f[h] ELSE IF d \in DOMAIN f THEN Append(f[d], x) ELSE <<x>>]


\* One iteration of the loop over the items: Get and append.
Route(r) ==
  /\ Serving /\ pc[r] = "route" /\ next[r] <= Len(items[r])
  /\ LET dest == Get(RingOf(r), items[r][next[r]]) IN
       batches' = [batches EXCEPT ![r] = Extend(@, dest, next[r])]
  /\ next' = [next EXCEPT ![r] = @ + 1]
  /\ rings' = [rings EXCEPT ![r] = @ \cup {RingOf(r)}]
  /\ UNCHANGED <<proxyVars, pc, status, items, wg, toPost, posted>>

\* wg.Add(len(jsonMetricsByDestination)) and one goroutine for each destination; ProxyTraces
\* loops over them itself.
StartPosts(r) ==
  /\ Serving /\ pc[r] = "route" /\ next[r] > Len(items[r])
  /\ toPost' = [toPost EXCEPT ![r] = DOMAIN batches[r]]
  /\ wg' = [wg EXCEPT ![r] = Cardinality(DOMAIN batches[r])]
  /\ pc' = [pc EXCEPT ![r] = "post"]
  /\ UNCHANGED <<proxyVars, status, items, batches, next, posted, rings>>

\* What is posted of a batch: the spans are pointers to the loop's variable, which is the last
\* span by now.
Posted(r, d) ==
  IF Path[r] = "import" THEN batches[r][d]
  ELSE [i \in DOMAIN batches[r][d] |-> Len(items[r])]

\* PostHelper for a batch that is not empty: it may fail, and a post that is never answered
\* ends with the timeout only.
Post(r, d) ==
  \/ d \in Hosts /\ posted' = [posted EXCEPT ![r][d] = Posted(r, d)]
  \/ (d \in Hanging => conf.timeout = "ok") /\ UNCHANGED posted

\* doPost sends nothing for an empty batch.
doPost(r, d) ==
  /\ Serving /\ Path[r] = "import" /\ pc[r] = "post" /\ d \in toPost[r]
  /\ IF batches[r][d] = <<>> THEN UNCHANGED posted ELSE Post(r, d)
  /\ toPost' = [toPost EXCEPT ![r] = @ \ {d}]
  /\ wg' = [wg EXCEPT ![r] = @ - 1]
  /\ UNCHANGED <<proxyVars, pc, status, items, batches, next, rings>>

\* ProxyTraces posts one batch after the other, in the order of the map.
PostTraces(r, d) ==
  /\ Serving /\ Path[r] = "spans" /\ pc[r] = "post" /\ d \in toPost[r]
  /\ IF batches[r][d] = <<>> THEN UNCHANGED posted ELSE Post(r, d)
  /\ toPost' = [toPost EXCEPT ![r] = @ \ {d}]
  /\ wg' = [wg EXCEPT ![r] = @ - 1]
  /\ UNCHANGED <<proxyVars, pc, status, items, batches, next, rings>>

\* wg.Wait() returns, or the loop ends.
Finish(r) ==
  /\ Serving /\ pc[r] = "post" /\ wg[r] = 0
  /\ pc' = [pc EXCEPT ![r] = "done"]
  /\ UNCHANGED <<proxyVars, status, items, batches, next, wg, toPost, posted, rings>>

Proxy(r) == Members(r) \/ Route(r) \/ StartPosts(r) \/ Finish(r)

Refresh == GetDestinations \/ SetDestinations \/ Tick

Next ==
  \/ NewProxyFromConfig \/ Start \/ StartDone \/ Refresh \/ Shutdown \/ ChangeWorld
  \/ \E r \in Requests : Handle(r) \/ Proxy(r)
  \/ \E r \in Requests, d \in Hosts \cup {NoHost} : doPost(r, d) \/ PostTraces(r, d)

\* A host that hangs need never answer.
Answers(r) ==
  \E d \in Hosts \cup {NoHost} : (d \in Hanging => conf.timeout = "ok") /\ (doPost(r, d) \/ PostTraces(r, d))

Fairness ==
  /\ WF_vars(Refresh) /\ \A r \in Requests : WF_vars(Proxy(r)) /\ WF_vars(Answers(r))

Spec == Init /\ [][Next]_vars /\ Fairness

-----------------------------------------------------------------------------
(* Properties. *)

\* Type invariant.
TypeOK ==
  /\ phase \in {"new", "refused", "start", "starting", "undiscovered", "fatal", "panicked",
                "running", "exited"}
  /\ ring \in [Services -> SUBSET Hosts]
  /\ \A r \in Requests :
       /\ wg[r] >= 0 /\ toPost[r] \subseteq DOMAIN batches[r]
       /\ pc[r] \in {"new", "members", "route", "post", "done"}

\* Where the items of a request are: in exactly one batch each, and no batch holds another's.
Held(r) == UNION {{<<d, i>> : i \in DOMAIN batches[r][d]} : d \in DOMAIN batches[r]}

\* ProxyMetrics: when a request is done, each of its items has been in exactly one batch, also if
\* the ring has changed between Members and Get; each batch went to its destination as a whole
\* or not at all, and a request that was refused has sent nothing.
EachOnce ==
  \A r \in Requests :
    /\ pc[r] = "done" /\ status[r] = 202 =>
         /\ Cardinality(Held(r)) = Len(Content[r])
         /\ {batches[r][p[1]][p[2]] : p \in Held(r)} = 1..Len(Content[r])
         /\ toPost[r] = {}
    /\ status[r] # 202 => \A h \in Hosts : posted[r][h] = <<>>
    /\ Path[r] = "import" =>
         \A h \in Hosts : posted[r][h] # <<>> => posted[r][h] = batches[r][h]

\* RefreshDestinations: "We don't want to zero out the list."
KeepsLastGood == [][\A s \in Services : ring[s] # {} => ring'[s] # {}]_vars

\* Start: "Refusing to start with zero destinations for forwarding."
ForwardStart ==
  phase \in {"running", "undiscovered"} /\ conf.service["forward"] => ring["forward"] # {}

\* Holds again and again of a proxy that refreshes: its ring is what the discovery says, unless
\* that is nothing.
Converged(s) ==
  phase = "running" /\ conf.service[s] /\ ~conf.kubernetes => ring[s] = world[s] \/ world[s] = {}

\* Holds again and again of every request: ProxyMetrics or ProxyTraces has returned, if a timeout
\* is configured or all hosts answer.
Completed(r) == pc[r] \in {"new", "done"} \/ ~Serving \/ (conf.timeout # "ok" /\ Hanging # {})
=============================================================================
