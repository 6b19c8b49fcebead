----------------------------- MODULE Accounting -----------------------------
(***************************************************************************)
(* What a fleet of veneurs promises one of the sinks at its edge: each      *)
(* facet of each accepted sample is published at most once, or dropped, and *)
(* never both.  A histogram sample has two facets, its part in the          *)
(* aggregates and its part in the percentiles; every other sample has one.  *)
(***************************************************************************)
EXTENDS Naturals

CONSTANT Token

VARIABLES open,       \* accepted, and neither published nor dropped
          published,  \* how often each token was published
          dropped

vars == <<open, published, dropped>>

Init ==
  /\ open = {}
  /\ published = [t \in Token |-> 0]
  /\ dropped = {}

\* Some new tokens are accepted.
Accept ==
  LET new == open' \ open
  IN  /\ open \subseteq open'
      /\ new \subseteq Token
      /\ \A t \in new : published[t] = 0 /\ t \notin dropped
      /\ UNCHANGED <<published, dropped>>

\* Some open tokens are settled: each is published once, or dropped.
Settle ==
  LET settled == open \ open'
      got     == settled \ dropped'
  IN  /\ open' \subseteq open
      /\ published' = [t \in Token |-> IF t \in got THEN published[t] + 1 ELSE published[t]]
      /\ dropped' = dropped \cup (settled \ got)

Next == Accept \/ Settle

Spec == Init /\ [][Next]_vars

\* What the abstract steps amount to.
ExactlyOnce ==
  /\ \A t \in Token : published[t] <= 1
  /\ \A t \in open \cup dropped : published[t] = 0
  /\ open \cap dropped = {}
=============================================================================
