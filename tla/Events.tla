------------------------------- MODULE Events -------------------------------
(***************************************************************************)
(* Events and service checks from one end to the other: veneur-emit builds  *)
(* a packet from its flags, the server parses it and keeps the event or the *)
(* last status of the check, and a flush hands them to the Datadog and      *)
(* SignalFx sinks, which turn them into their own form.                     *)
(***************************************************************************)
EXTENDS Parser

CONSTANTS Senders,   \* runs of veneur-emit
          FlagsOf,   \* the flags each was given: a partial function from their names
          Common,    \* SignalFx's common dimensions
          Excluded,  \* tags excluded from SignalFx
          NameMax,   \* EventNameMaxLength and EventDescriptionMaxLength
          MaxFlushes \* bound on the flushes

EventFlags == {"e_title", "e_text", "e_time", "e_hostname", "e_aggr_key", "e_priority", "e_source_type", "e_alert_type",
               "e_event_tags"}
CheckFlags == {"sc_name", "sc_status", "sc_time", "sc_hostname", "sc_tags", "sc_msg"}

VARIABLES pc,           \* of each sender: "new", "fatal", "sent", "refused", "accepted"
          packets,      \* what each has sent
          samples,      \* EventWorker.samples, each [from, event]
          statusChecks, \* the worker's localStatusChecks: partial function from digests
          ddEvents, sfxEvents, ddChecks, \* what the sinks have sent, in order
          flushes

vars == <<pc, packets, samples, statusChecks, ddEvents, sfxEvents, ddChecks, flushes>>
server == <<samples, statusChecks, ddEvents, sfxEvents, ddChecks, flushes>>

None == [s \in {} |-> <<>>]

Init ==
  /\ pc = [s \in Senders |-> "new"] /\ packets = None
  /\ samples = <<>> /\ statusChecks = None
  /\ ddEvents = <<>> /\ sfxEvents = <<>> /\ ddChecks = <<>> /\ flushes = 0

-----------------------------------------------------------------------------
(* veneur-emit *)

Flag(f, name, default) == IF name \in DOMAIN f THEN f[name] ELSE default
Mode(f) == Flag(f, "mode", "metric")

\* validateFlagCombinations: every flag is one of the mode's.
validateFlagCombinations(f) ==
  DOMAIN f \ {"mode"} \subseteq (CASE Mode(f) = "event" -> EventFlags [] Mode(f) = "sc" -> CheckFlags [] OTHER -> {})

Escape(text) == [i \in DOMAIN text |-> IF text[i] = "nl" THEN "esc" ELSE text[i]]

\* The sections of the flags that were passed, in the order they are written.
EmitSections(f, names) ==
  LET passed == SelectSeq(names, LAMBDA n : n[1] \in DOMAIN f)
  IN  [i \in DOMAIN passed |-> [kind |-> passed[i][2], value |-> f[passed[i][1]]]]

\* The lengths are those of the flags, before the text is escaped.
buildEventPacket(f) ==
  [titleLength |-> Bytes(f["e_title"]), textLength |-> Bytes(f["e_text"]), title |-> f["e_title"], text |-> Escape(f["e_text"]),
   sections |-> EmitSections(f, <<<<"e_time", "d">>, <<"e_hostname", "h">>, <<"e_aggr_key", "k">>, <<"e_priority", "p">>,
                                  <<"e_source_type", "s">>, <<"e_alert_type", "t">>, <<"e_event_tags", "#">>>>)]

buildSCPacket(f) ==
  [name |-> f["sc_name"], status |-> f["sc_status"],
   sections |-> EmitSections(f, <<<<"sc_time", "d">>, <<"sc_hostname", "h">>, <<"sc_tags", "#">>, <<"sc_msg", "m">>>>)]

\* main in the modes event and sc: flags of another mode, or missing ones, are fatal.
Emit(s) ==
  LET f == FlagsOf[s]
      ok == /\ validateFlagCombinations(f)
            /\ \/ Mode(f) = "event" /\ {"e_title", "e_text"} \subseteq DOMAIN f
               \/ Mode(f) = "sc" /\ {"sc_name", "sc_status"} \subseteq DOMAIN f
  IN  /\ pc[s] = "new"
      /\ pc' = [pc EXCEPT ![s] = IF ok THEN "sent" ELSE "fatal"]
      /\ packets' = IF ~ok THEN packets
                    ELSE Update(packets, s, IF Mode(f) = "event" THEN buildEventPacket(f) ELSE buildSCPacket(f))
      /\ UNCHANGED server

-----------------------------------------------------------------------------
(* The server *)

\* HandleMetricPacket: an event goes to the EventWorker, a check to the worker of its digest,
\* where the last status of that digest is kept.
Handle(s) ==
  /\ pc[s] = "sent"
  /\ IF Mode(FlagsOf[s]) = "event"
     THEN LET r == ParseEvent(packets[s])
          IN  /\ pc' = [pc EXCEPT ![s] = IF r.err THEN "refused" ELSE "accepted"]
              /\ samples' = IF r.err THEN samples ELSE Append(samples, [from |-> s, event |-> r.ret])
              /\ UNCHANGED statusChecks
     ELSE LET r == ParseServiceCheck(packets[s])
          IN  /\ pc' = [pc EXCEPT ![s] = IF r.err THEN "refused" ELSE "accepted"]
              /\ statusChecks' = IF r.err THEN statusChecks ELSE Update(statusChecks, r.ret.digest, [from |-> s, check |-> r.ret])
              /\ UNCHANGED samples
  /\ UNCHANGED <<packets, ddEvents, sfxEvents, ddChecks, flushes>>

Without(f, keys) == [k \in DOMAIN f \ keys |-> f[k]]


\* DatadogMetricSink.FlushOtherSamples: the special tags become fields.
DDEvent(e) ==
  [title |-> e.name, text |-> e.message, timestamp |-> e.timestamp,
   aggregation |-> Flag(e.tags, "vdogstatsd_ak", ""), priority |-> Flag(e.tags, "vdogstatsd_pri", "normal"),
   source |-> Flag(e.tags, "vdogstatsd_st", ""), alertType |-> Flag(e.tags, "vdogstatsd_at", "info"),
   hostname |-> Flag(e.tags, "vdogstatsd_hostname", "default"),
   tags |-> Without(e.tags, {"vdogstatsd_ev"} \cup {TagKey[k] : k \in DOMAIN TagKey})]

Short(text) == SubSeq(text, 1, IF Len(text) > NameMax THEN NameMax ELSE Len(text))

\* SignalFxSink.reportEvent: the event's tags override the host name and the common dimensions.
reportEvent(e) ==
  LET own == Without(e.tags, {"vdogstatsd_ev"})
      base == Update(Common, "host", "thishost")
      dims == [k \in DOMAIN own \cup DOMAIN base |-> IF k \in DOMAIN own THEN own[k] ELSE base[k]]
  IN  [eventType |-> Short(e.name), description |-> Short(e.message), dimensions |-> Without(dims, Excluded)]

\* finalizeMetrics on a flushed StatusCheck: its time is that of the flush, its host the sink's
\* own (these checks have no host tag).
DDServiceCheck(c) ==
  [name |-> c.name, status |-> c.value, message |-> c.message, tags |-> c.tags, timestamp |-> "now", hostname |-> "default"]

Image(Op(_), ss) == [i \in DOMAIN ss |-> [from |-> ss[i].from, out |-> Op(ss[i].event)]]

\* A flush: the EventWorker is emptied into both sinks, the worker's checks into Datadog's.
Flush ==
  /\ flushes < MaxFlushes /\ flushes' = flushes + 1
  /\ ddEvents' = ddEvents \o Image(DDEvent, samples) /\ sfxEvents' = sfxEvents \o Image(reportEvent, samples)
  /\ samples' = <<>>
  /\ LET kept == SetToSeq({statusChecks[d] : d \in DOMAIN statusChecks})
     IN  ddChecks' = ddChecks \o [i \in DOMAIN kept |-> [from |-> kept[i].from, out |-> DDServiceCheck(kept[i].check)]]
  /\ statusChecks' = None
  /\ UNCHANGED <<pc, packets>>

Next == Flush \/ \E s \in Senders : Emit(s) \/ Handle(s)

Spec == Init /\ [][Next]_vars

-----------------------------------------------------------------------------
(* Properties *)

\* What Datadog gets for an event says what the flags of veneur-emit said, with the defaults
\* where they said nothing, after two conversions through special tags and back.
EventFaithful ==
  \A i \in DOMAIN ddEvents :
    LET f == FlagsOf[ddEvents[i].from] e == ddEvents[i].out
    IN  /\ e.title = f["e_title"] /\ e.text = Unescape(f["e_text"]) /\ e.timestamp = Flag(f, "e_time", "now")
        /\ e.aggregation = Flag(f, "e_aggr_key", "") /\ e.priority = Flag(f, "e_priority", "normal")
        /\ e.source = Flag(f, "e_source_type", "") /\ e.alertType = Flag(f, "e_alert_type", "info")
        /\ e.hostname = Flag(f, "e_hostname", "default")
        /\ e.tags = ParseTagSliceToMap(Flag(f, "e_event_tags", <<>>))

\* Every event that was accepted is in the worker or has been sent, exactly once, and to both
\* sinks in the same order.
EventOnce ==
  /\ [i \in DOMAIN ddEvents |-> ddEvents[i].from] = [i \in DOMAIN sfxEvents |-> sfxEvents[i].from]
  /\ \A s \in Senders :
       Len(SelectSeq(ddEvents, LAMBDA e : e.from = s)) + Len(SelectSeq(samples, LAMBDA e : e.from = s))
         = IF pc[s] = "accepted" /\ Mode(FlagsOf[s]) = "event" THEN 1 ELSE 0

\* What veneur-emit sends as a service check with one of the four statuses is accepted.
ChecksAccepted ==
  \A s \in Senders : Mode(FlagsOf[s]) = "sc" /\ pc[s] = "refused" => FlagsOf[s]["sc_status"] \notin {"0", "1", "2", "3"}
=============================================================================
