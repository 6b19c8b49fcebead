---------------------------- MODULE MCForwarding ----------------------------
(* Small fleets of veneurs for TLC. *)
EXTENDS Forwarding

CONSTANTS leaf, mid, root

Series(name, type) == [name |-> name, type |-> type]
S(name, type, scope, n) == [key |-> Series(name, type), scope |-> scope, n |-> n]

MCNames == {"x"}

\* Digests that spread the types over two workers.
MCDigest == [k \in Key |-> IF k.type \in {"timer", "counter"} THEN 1 ELSE 2]

\* A histogram that is sampled at both ends and merged, and a timer that must stay.
TwoHistos == {S("x", "histogram", "mixed", 1), S("x", "histogram", "mixed", 2),
              S("x", "timer", "local", 1)}
TwoTimers == {S("x", "timer", "mixed", 1), S("x", "timer", "mixed", 2)}
\* What a single server publishes itself.
Published == {S("x", "gauge", "mixed", 1), S("x", "status", "mixed", 1)}

Single   == [s \in Servers |-> NoServer]
TwoTier  == [s \in Servers |-> IF s = leaf THEN root ELSE NoServer]
Chain    == [s \in Servers |-> CASE s = leaf -> mid [] s = mid -> root [] OTHER -> NoServer]
=============================================================================
