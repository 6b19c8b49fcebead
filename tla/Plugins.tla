------------------------------- MODULE Plugins -------------------------------
(***************************************************************************)
(* The plugins of a server: S3 and the local file, in this order.  Each     *)
(* flush ends by starting a goroutine that gives its metrics to one plugin  *)
(* after the other and then reports on them.  Nothing waits for the         *)
(* goroutine, so those of several flushes may be under way at once.         *)
(***************************************************************************)
EXTENDS Integers, FiniteSets, Sequences

CONSTANTS Flushes,     \* 1..n, in the order in which they end
          Metrics,     \* finalMetrics of each: a sequence of [type, value]
          Interval,    \* interval of the configuration, in seconds
          AwsS3Bucket, \* aws_s3_bucket of the configuration
          MaxTime,     \* bound on the clock
          Writes       \* writes of a compressed flush to the file

VARIABLES now,      \* time.Now().Unix()
          pc,       \* where the goroutine of each flush is
          key,      \* the key under which a flush is being posted to S3
          posted,   \* history: when it was
          objects,  \* the objects in S3
          file,     \* the writes in the file
          written,  \* the writes of a flush that were tried
          errors,   \* the errors that each goroutine has counted, by plugin
          faults,   \* history: the plugin calls that failed to store something
          reports   \* what the goroutines have reported

vars == <<now, pc, key, posted, objects, file, written, errors, faults, reports>>

-----------------------------------------------------------------------------
(* What NewFromConfig makes of the configuration. *)

\* The literal does not set the interval; nor does that of the local file.
S3Plugin == [S3Bucket |-> AwsS3Bucket, Interval |-> 0]

\* The bucket that S3Post names: the variable of the package.
S3Bucket == "stripe-veneur"

-----------------------------------------------------------------------------
(* Encoding. *)

\* The row of a metric, its value a fraction (with 0 below, an infinity or not a number); none
\* for the types that are unknown here.
EncodeInterMetricCSV(m, interval) ==
  CASE m.type = "counter" -> <<[name |-> m.name, type |-> "rate", value |-> <<m.value, interval>>]>>
    [] m.type = "gauge" -> <<[name |-> m.name, type |-> "gauge", value |-> <<m.value, 1>>]>>
    [] OTHER -> <<>>

\* The caller drops the error of a row.
EncodeInterMetricsCSV(ms, interval) ==
  LET Rows[n \in 0 .. Len(ms)] ==
        IF n = 0 THEN <<>> ELSE Rows[n - 1] \o EncodeInterMetricCSV(ms[n], interval)
  IN  Rows[Len(ms)]

-----------------------------------------------------------------------------
Init ==
  /\ now = 0
  /\ pc = [f \in Flushes |-> "none"]
  /\ key = [f \in Flushes |-> 0] /\ posted = [f \in Flushes |-> 0]
  /\ objects = {}
  /\ file = <<>>
  /\ written = [f \in Flushes |-> 0]
  /\ errors = [f \in Flushes |-> {}]
  /\ faults = {}
  /\ reports = {}

Tick ==
  /\ now < MaxTime
  /\ now' = now + 1
  /\ UNCHANGED <<pc, key, posted, objects, file, written, errors, faults, reports>>

\* The end of Server.Flush.  A late tick may be followed at once by the next.
Flush(f) ==
  /\ pc[f] = "none" /\ \A g \in Flushes : g < f => pc[g] # "none"
  /\ pc' = [pc EXCEPT ![f] = "s3"]
  /\ UNCHANGED <<now, key, posted, objects, file, written, errors, faults, reports>>

\* The date, the host name and the second.
S3Path(f) == now

\* S3Plugin.Flush encodes the metrics and calls PutObject.
PutObject(f) ==
  /\ pc[f] = "s3"
  /\ pc' = [pc EXCEPT ![f] = "putting"]
  /\ key' = [key EXCEPT ![f] = S3Path(f)]
  /\ posted' = [posted EXCEPT ![f] = now]
  /\ UNCHANGED <<now, objects, file, written, errors, faults, reports>>

\* S3 stores the object in place of one of the same bucket and key.
PutObjectReturns(f) ==
  /\ pc[f] = "putting"
  /\ pc' = [pc EXCEPT ![f] = "file"]
  /\ objects' = {o \in objects : o.bucket # S3Bucket \/ o.key # key[f]} \cup
                  {[bucket |-> S3Bucket, key |-> key[f], flush |-> f,
                    rows |-> EncodeInterMetricsCSV(Metrics[f], S3Plugin.Interval)]}
  /\ UNCHANGED <<now, key, posted, file, written, errors, faults, reports>>

PutObjectFails(f) ==
  /\ pc[f] = "putting"
  /\ pc' = [pc EXCEPT ![f] = "file"]
  /\ errors' = [errors EXCEPT ![f] = @ \cup {"s3"}]
  /\ faults' = faults \cup {<<f, "s3">>}
  /\ UNCHANGED <<now, key, posted, objects, file, written, reports>>

\* Plugin.Flush of localfile opens the file for appending.
OpenFile(f) ==
  /\ pc[f] = "file"
  /\ pc' = [pc EXCEPT ![f] = "writing"]
  /\ UNCHANGED <<now, key, posted, objects, file, written, errors, faults, reports>>

OpenFileFails(f) ==
  /\ pc[f] = "file"
  /\ pc' = [pc EXCEPT ![f] = "reporting"]
  /\ errors' = [errors EXCEPT ![f] = @ \cup {"localfile"}]
  /\ faults' = faults \cup {<<f, "localfile">>}
  /\ UNCHANGED <<now, key, posted, objects, file, written, reports>>


\* The compressor writes its header, what it has compressed and its trailer.
Write(f) ==
  /\ pc[f] = "writing"
  /\ written' = [written EXCEPT ![f] = @ + 1]
  /\ file' = Append(file, <<f, written[f] + 1>>)
  /\ pc' = [pc EXCEPT ![f] = IF written'[f] = Writes THEN "reporting" ELSE @]
  /\ UNCHANGED <<now, key, posted, objects, errors, faults, reports>>

\* A write fails; the compressor makes no other, and the error of appendToWriter is dropped.
WriteFails(f) ==
  /\ pc[f] = "writing"
  /\ pc' = [pc EXCEPT ![f] = "reporting"]
  /\ faults' = faults \cup {<<f, "localfile">>}
  /\ UNCHANGED <<now, key, posted, objects, file, written, errors, reports>>

\* The deferred report: post_metrics_total and error_total of each plugin.
Report(f) ==
  /\ pc[f] = "reporting"
  /\ pc' = [pc EXCEPT ![f] = "done"]
  /\ reports' = reports \cup
       {[flush |-> f, plugin |-> p, posted |-> Len(Metrics[f]),
         errors |-> IF p \in errors[f] THEN 1 ELSE 0] : p \in {"s3", "localfile"}}
  /\ UNCHANGED <<now, key, posted, objects, file, written, errors, faults>>

Goroutine(f) ==
  \/ PutObject(f) \/ PutObjectReturns(f) \/ PutObjectFails(f)
  \/ OpenFile(f) \/ OpenFileFails(f) \/ Write(f) \/ WriteFails(f)
  \/ Report(f)

Next == Tick \/ \E f \in Flushes : Flush(f) \/ Goroutine(f)

Spec == Init /\ [][Next]_vars

-----------------------------------------------------------------------------
\* S3Path: a flush that S3 took is never replaced by one of another second, however the posts of
\* several flushes overlap and in whatever order they end.
Archived ==
  \A f \in Flushes :
    pc[f] \notin {"none", "s3", "putting"} /\ <<f, "s3">> \notin faults =>
      \E o \in objects : o.key = key[f] /\ (o.flush = f \/ posted[o.flush] = posted[f])

\* localfile: the writes of goroutines that overlap overwrite nothing; the file has each write of
\* each flush once and in order.
FileKeepsAll ==
  \A f \in Flushes :
    LET of == {i \in DOMAIN file : file[i][1] = f} IN
    /\ Cardinality(of) = written[f]
    /\ \A i, j \in of : i < j => file[i][2] < file[j][2]
=============================================================================
