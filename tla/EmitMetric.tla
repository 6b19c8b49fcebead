----------------------------- MODULE EmitMetric -----------------------------
(***************************************************************************)
(* veneur-emit in its mode metric. A call may time a command, which gets    *)
(* the ids of the call's span through its environment and may run calls of  *)
(* veneur-emit itself; when the command has ended the call sends its span   *)
(* over SSF, or only the metrics of it as statsd packets.                   *)
(***************************************************************************)
EXTENDS Integers, Sequences, FiniteSets, SequencesExt

CONSTANTS Calls,
          Within,  \* the call whose command runs a call, or "shell"
          Losses,  \* whether sending may fail
          Options  \* the flags a call may have: [ssf, udp, traceID, parentID, command, badTag, times, flags]

VARIABLES opts,   \* the flags of each call
          pc,     \* "new", "running" its command, "ended"
          span,   \* its span: [trace, parent, id, start, end]
          env,    \* the ids in its environment: [trace, span]
          sent,   \* what has been sent, each [call, metrics]
          exit,   \* exit status
          clock

vars == <<opts, pc, span, env, sent, exit, clock>>

NoIds == [trace |-> 0, span |-> 0]

Init ==
  /\ opts \in [Calls -> Options] /\ pc = [c \in Calls |-> "new"]
  /\ span = [c \in Calls |-> [trace |-> 0, parent |-> 0, id |-> 0, start |-> 0, end |-> 0]]
  /\ env = [c \in Calls |-> NoIds] /\ sent = <<>> /\ exit = [c \in Calls |-> 0] /\ clock = 1

-----------------------------------------------------------------------------

\* Mutant of CommandEnv: the command inherits the parent, not the span.
CommandEnvParent(c) ==
  IF span[c].trace # 0 THEN [trace |-> span[c].trace, span |-> span[c].parent] ELSE env[c]

\* The environment of a call's command: its own, overridden when the call is traced.
CommandEnv(c) ==
  IF span[c].trace # 0 THEN [trace |-> span[c].trace, span |-> span[c].id] ELSE env[c]

EnvOf(c) == IF Within[c] = "shell" THEN NoIds ELSE CommandEnv(Within[c])

\* inferTraceIDInt
inferTraceIDInt(existing, inherited) == IF existing # 0 THEN existing ELSE inherited

\* setupSpan: without a trace the span stays empty.
setupSpan(c, traceID, parentID) ==
  IF traceID = 0 THEN span[c]
  ELSE [trace |-> traceID, parent |-> parentID, id |-> Cardinality({d \in Calls : pc[d] # "new"}) + 1, start |-> 0, end |-> 0]

\* The metrics of createMetric: that of the command, then those of the flags.
Metrics(c) ==
  (IF opts[c].command THEN <<"command">> ELSE <<>>) \o SelectSeq(<<"timing", "gauge", "count">>, LAMBDA f : f \in opts[c].flags)

\* -span_starttime and -span_endtime, when both are given, replace what was measured.
Timed(c, s) == IF opts[c].times = "both" THEN [s EXCEPT !.start = 100, !.end = 100] ELSE s

\* sendSSF, whose failure is fatal, or sendStatsd to a UDP address, which stops at the first
\* failure without a word.
Send(c, status) ==
  \/ /\ opts[c].ssf
     /\ \/ sent' = Append(sent, [call |-> c, metrics |-> Metrics(c)]) /\ exit' = [exit EXCEPT ![c] = status]
        \/ Losses /\ sent' = sent /\ exit' = [exit EXCEPT ![c] = 1]
  \/ /\ ~opts[c].ssf /\ ~opts[c].udp /\ sent' = sent /\ exit' = [exit EXCEPT ![c] = 1]
  \/ /\ ~opts[c].ssf /\ opts[c].udp
     /\ \E n \in (IF Losses THEN 0 ELSE Len(Metrics(c)))..Len(Metrics(c)) : sent' = Append(sent, [call |-> c, metrics |-> SubSeq(Metrics(c), 1, n)])
     /\ exit' = [exit EXCEPT ![c] = status]

Fatal(c) == pc' = [pc EXCEPT ![c] = "ended"] /\ exit' = [exit EXCEPT ![c] = 1] /\ sent' = sent

\* main up to the command, or to the end when there is none.
Main(c) ==
  LET e == EnvOf(c) s == setupSpan(c, inferTraceIDInt(opts[c].traceID, e.trace), inferTraceIDInt(opts[c].parentID, e.span))
  IN  /\ pc[c] = "new" /\ (IF Within[c] = "shell" THEN TRUE ELSE pc[Within[c]] = "running")
      /\ env' = [env EXCEPT ![c] = e] /\ clock' = clock + 1
      /\ CASE (s.trace # 0 /\ ~opts[c].ssf) \/ opts[c].badTag -> Fatal(c) /\ span' = [span EXCEPT ![c] = s]
           [] OTHER ->
                IF opts[c].command
                THEN \/ \* the command runs
                        /\ pc' = [pc EXCEPT ![c] = "running"] /\ span' = [span EXCEPT ![c] = [s EXCEPT !.start = clock]]
                        /\ UNCHANGED <<sent, exit>>
                     \/ \* or cannot be started
                        Fatal(c) /\ span' = [span EXCEPT ![c] = s]
                ELSE /\ span' = [span EXCEPT ![c] = Timed(c, s)]
                     /\ IF opts[c].times = "one" THEN Fatal(c) ELSE pc' = [pc EXCEPT ![c] = "ended"] /\ Send(c, 0)
      /\ UNCHANGED opts

\* The command ends, as have the calls it made, which share its output; timeCommand returns its failure as an error,
\* which is fatal, and so is a missing -span_starttime or -span_endtime, found only now.
CommandEnds(c, status) ==
  /\ pc[c] = "running" /\ \A d \in Calls : Within[d] = c => pc[d] # "running"
  /\ span' = [span EXCEPT ![c] = Timed(c, [@ EXCEPT !.end = clock])] /\ clock' = clock + 1
  /\ IF status # 0 \/ opts[c].times = "one" THEN Fatal(c) ELSE pc' = [pc EXCEPT ![c] = "ended"] /\ Send(c, 0)
  /\ UNCHANGED <<opts, env>>

Next == \E c \in Calls : Main(c) \/ \E status \in {0, 7} : CommandEnds(c, status)

Spec == Init /\ [][Next]_vars

-----------------------------------------------------------------------------
(* Properties *)

Sent(c) == SelectSeq(sent, LAMBDA m : m.call = c)

\* "construct a tree": a call without ids of its own that runs inside a traced command has its
\* span in that trace, below the span of the call that timed the command.
TreeOfCalls ==
  \A c \in Calls : pc[c] # "new" /\ Within[c] # "shell" /\ opts[c].traceID = 0 /\ opts[c].parentID = 0 =>
    LET w == Within[c] IN span[c].trace = span[w].trace /\ span[c].parent = (IF span[w].trace # 0 THEN span[w].id ELSE 0)

\* A call over SSF that exits with 0 has sent its span once, with every metric it was asked for;
\* one that fails before has sent nothing.
ExitTells ==
  \A c \in Calls : pc[c] = "ended" =>
    IF exit[c] # 0 THEN Sent(c) = <<>>
    ELSE opts[c].ssf => Len(Sent(c)) = 1 /\ Sent(c)[1].metrics = Metrics(c)

\* The measured times of a command's span enclose those of the commands timed inside it.
TimesNest ==
  \A c \in Calls : Within[c] # "shell" /\ span[c].end # 0 /\ opts[c].times # "both" =>
    LET w == Within[c] IN opts[w].times = "both" \/ (span[w].start < span[c].start /\ (span[w].end # 0 => span[c].end < span[w].end))
=============================================================================
