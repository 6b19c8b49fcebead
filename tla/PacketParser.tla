---------------------------- MODULE PacketParser ----------------------------
(***************************************************************************)
(* HandleMetricPacket's choice of a parser, over every packet of a set, and *)
(* what the parsers promise of their results.                               *)
(***************************************************************************)
EXTENDS Parser

CONSTANTS MetricPackets, EventPackets, CheckPackets

VARIABLES packet,  \* [kind, body]
          handled,
          result

vars == <<packet, handled, result>>

Tagged(kind, bodies) == {[kind |-> kind, body |-> b] : b \in bodies}

Init ==
  /\ packet \in Tagged("metric", MetricPackets) \cup Tagged("_e{", EventPackets) \cup Tagged("_sc", CheckPackets)
  /\ handled = FALSE /\ result = Fail

\* HandleMetricPacket parses by the prefix of the packet.
Parse(p) ==
  CASE p.kind = "_e{" -> ParseEvent(p.body)
    [] p.kind = "_sc" -> ParseServiceCheck(p.body)
    [] OTHER -> ParseMetric(p.body)

HandleMetricPacket == ~handled /\ handled' = TRUE /\ result' = Parse(packet) /\ UNCHANGED packet

Next == HandleMetricPacket

Spec == Init /\ [][Next]_vars

-----------------------------------------------------------------------------
(* Properties *)

Reordered(s) == {[i \in DOMAIN s |-> s[f[i]]] : f \in {g \in [DOMAIN s -> DOMAIN s] : IsInjective(g)}}

UsesSpecialKey(s) == s.kind = "#" /\ \E i \in DOMAIN s.value : s.value[i].key \in {TagKey[k] : k \in DOMAIN TagKey}

\* The order of a packet's sections does not matter: not at all for a metric, as long as no tag
\* uses one of the special keys for an event, and as long as the message stays last for a
\* service check.
SectionOrderIrrelevant ==
  handled =>
    \A sections \in Reordered(packet.body.sections) :
      \/ packet.kind = "_e{" /\ \E i \in DOMAIN sections : UsesSpecialKey(sections[i])
      \/ packet.kind = "_sc" /\ \E i \in DOMAIN sections : sections[i].kind = "m"
                             /\ packet.body.sections[Len(sections)] # sections[Len(sections)]
      \/ Parse([packet EXCEPT !.body.sections = sections]) = result

TagSections == {i \in DOMAIN packet.body.sections : packet.body.sections[i].kind = "#"}

\* A metric or check written with its tags in another order has the same key and the same
\* digest, so it is the same metric and goes to the same worker; the scope tag is no part of
\* either unless there is more than one.
TagOrderIrrelevant ==
  handled /\ packet.kind # "_e{" =>
    \A i \in TagSections : \A tags \in Reordered(packet.body.sections[i].value) :
      /\ Parse([packet EXCEPT !.body.sections[i].value = tags]) = result
      /\ ~result.err => result.ret.digest = Hash(result.ret.name, IF packet.kind = "_sc" THEN "status" ELSE result.ret.type,
                                                 result.ret.tags)

\* A packet is accepted exactly if what comes before its sections is in order, every section is
\* known and has an acceptable value, none comes twice, and a check's message comes last.
AcceptedIffWellFormed ==
  handled =>
    LET ss == packet.body.sections
        b == packet.body
        head == CASE packet.kind = "_e{" -> /\ b.titleLength > 0 /\ b.textLength > 0
                                            /\ Bytes(b.title) = b.titleLength /\ Bytes(b.text) = b.textLength
                  [] packet.kind = "_sc" -> b.name # "" /\ b.status \in {"0", "1", "2", "3"}
                  [] OTHER -> b.colon /\ b.name # "" /\ b.type \in {"c", "g", "h", "m", "s"} /\ (b.type = "s" \/ b.value = "number")
        known == CASE packet.kind = "_e{" -> {"d", "h", "k", "p", "s", "t", "#"}
                   [] packet.kind = "_sc" -> {"d", "h", "m", "#"}
                   [] OTHER -> {"@", "#"}
        once == \A i, j \in DOMAIN ss : ss[i].kind = ss[j].kind => i = j
        valued == \A i \in DOMAIN ss : /\ ss[i].kind = "@" => 0 < ss[i].value /\ ss[i].value <= 10
                                       /\ packet.kind = "_e{" => Acceptable(ss[i])
        last == packet.kind = "_sc" => \A i \in DOMAIN ss : ss[i].kind = "m" => i = Len(ss)
    IN  ~result.err <=> head /\ (\A i \in DOMAIN ss : ss[i].kind \in known) /\ once /\ valued /\ last

\* A metric sent as an SSF sample, with the same name, type and tags, has the same key, digest
\* and scope as the same metric in a DogStatsD packet, if it has at most one scope tag.
ParsersAgree ==
  handled /\ packet.kind = "metric" /\ ~result.err /\ result.ret.type # "timer" /\ Cardinality(TagSections) = 1 =>
    \A i \in TagSections :
        LET tags == packet.body.sections[i].value
            set == {tags[j] : j \in DOMAIN tags}
            ssf == ParseMetricSSF([name |-> result.ret.name, type |-> result.ret.type, value |-> result.ret.value,
                                   rate |-> result.ret.rate, tags |-> set])
        IN  Cardinality(set) = Len(tags) /\ ~({globalonly, localonly} \subseteq set) =>
              \A m \in ssf : /\ m.ret.digest = result.ret.digest /\ m.ret.scope = result.ret.scope
                             /\ m.ret.tags = result.ret.tags
=============================================================================
