---- MODULE StreamQuery ----
(***************************************************************************)
(* The streaming job: main and _wait_for_query on the driver's main        *)
(* thread, Spark's query thread with its checkpoint and process_microbatch *)
(* on it, and the topic they read.  The tables are abstracted to the       *)
(* records that reached Bronze and Silver (module Medallion has the        *)
(* pipeline); a poison record is one whose batch the quality gate rejects. *)
(*                                                                         *)
(* The topic has one partition: an offset stands for the vector of offsets *)
(* of all partitions, which Spark plans and commits as one.                *)
(***************************************************************************)
EXTENDS Integers, Sequences, FiniteSets

CONSTANTS
  Last,          \* records the topic ever gets: offsets 1..Last
  Window,        \* maxOffsetsPerTrigger; 0 for no limit
  Poison,        \* records that a critical quality rule rejects
  Earliest,      \* STREAM_STARTING_OFFSETS is earliest, else latest
  FailOnLoss,    \* STREAM_FAIL_ON_DATA_LOSS
  Deadlines,     \* which of --timeout-seconds, --stop-after-seconds are not 0
  MaxFaults,     \* bound: exceptions and crashes
  Retention,     \* the topic drops old records
  MayReset       \* operators run reset-streaming-state.sh

Offset == 1 .. Last
BatchId == Offset
MaxEnd(start) == IF Window = 0 THEN Last ELSE start + Window

ASSUME StreamAssumption ==
  /\ Last \in Nat \ {0} /\ Window \in Nat /\ Poison \subseteq Offset
  /\ Earliest \in BOOLEAN /\ FailOnLoss \in BOOLEAN /\ Retention \in BOOLEAN
  /\ Deadlines \subseteq {"timeout", "stop_after"}
  /\ MaxFaults \in Nat /\ MayReset \in BOOLEAN

VARIABLES
  end, low,   \* the topic holds the offsets low + 1 .. end
  \* the checkpoint directory
  initial,    \* offset the query first started from; -1 when there is none
  planned,    \* the offset log: end offset of each batch
  commits,    \* the commit log: number of batches done
  \* the lakehouse
  bronze, silver,  \* records that reached the table
  manifest,   \* per batch id, the status in the manifest of the micro-batch
  run,        \* manifest of the latest run: its status and stop_reason
  \* the driver process
  main,       \* where the main thread is
  reason,     \* stop_reason
  due,        \* deadlines that have passed
  thread,     \* where the query thread is
  stopping,   \* query.stop() has been called
  results,    \* STREAM_BATCH_RESULTS: <<batch id, status>>
  since,      \* history: batches the checkpoint had when the run started
  faults      \* exceptions and crashes so far

topic == <<end, low>>
checkpoint == <<initial, planned, commits>>
tables == <<bronze, silver, manifest>>
driver == <<main, reason, due>>
query == <<thread, stopping, results>>
vars == <<topic, checkpoint, tables, run, driver, query, since, faults>>

Stages == {"read", "bronze", "silver", "gold", "log"}

Init ==
  /\ end = 0 /\ low = 0
  /\ initial = -1 /\ planned = <<>> /\ commits = 0
  /\ bronze = {} /\ silver = {} /\ manifest = [b \in BatchId |-> "none"]
  /\ run = [status |-> "none", reason |-> "none"]
  /\ main = "down" /\ reason = "none" /\ due = {}
  /\ thread = "none" /\ stopping = FALSE /\ results = {}
  /\ since = 0 /\ faults = 0

EndOf(b) == IF b = 0 THEN initial ELSE planned[b]

\* Records that the current batch, planned and not yet committed, covers.
BatchRange == EndOf(commits) + 1 .. EndOf(commits + 1)

\* What an evaluation of batch_df finds of them: it is not cached, so that each
\* step of the handler reads the topic again.
Rows == {m \in BatchRange : m > low}

\* An evaluation raises when the topic dropped some of them.
Lost == FailOnLoss /\ Rows # BatchRange

\* query.isActive
Active == thread \in {"start", "idle", "commit"} \cup Stages /\ ~stopping

Fault == faults < MaxFaults /\ faults' = faults + 1

-----------------------------------------------------------------------------
(* The topic. *)

Produce ==
  /\ end < Last /\ end' = end + 1
  /\ UNCHANGED <<low, checkpoint, tables, run, driver, query, since, faults>>

Expire ==
  /\ Retention /\ low < end /\ low' = low + 1
  /\ UNCHANGED <<end, checkpoint, tables, run, driver, query, since, faults>>

-----------------------------------------------------------------------------
(* The query thread. *)

\* Mutant: startingOffsets is always latest.
StartThreadLatest ==
  /\ thread = "start" /\ ~stopping
  /\ initial' = IF initial # -1 THEN initial ELSE end
  /\ thread' = IF Len(planned) > commits THEN "read" ELSE "idle"
  /\ UNCHANGED <<topic, planned, commits, tables, run, driver, stopping, results, since, faults>>

\* A new query fixes where it starts; another one delivers the batch that its
\* checkpoint planned and did not commit, or waits for records.
StartThread ==
  /\ thread = "start" /\ ~stopping
  /\ initial' = IF initial # -1 THEN initial ELSE IF Earliest THEN low ELSE end
  /\ thread' = IF Len(planned) > commits THEN "read" ELSE "idle"
  /\ UNCHANGED <<topic, planned, commits, tables, run, driver, stopping, results, since, faults>>

PlanBatch ==
  LET start == EndOf(commits) IN
  /\ thread = "idle" /\ ~stopping
  /\ end > start
  /\ planned' = Append(planned, IF end <= MaxEnd(start) THEN end ELSE MaxEnd(start))
  /\ thread' = "read"
  /\ UNCHANGED <<topic, initial, commits, tables, run, driver, stopping, results, since, faults>>

\* Mutant: a batch that Bronze has already is taken for done.
ReadBatchSkipLanded ==
  /\ thread = "read" /\ ~Lost
  /\ thread' = IF Rows \subseteq bronze THEN "commit" ELSE "bronze"
  /\ results' = IF Rows \subseteq bronze THEN results \cup {<<commits + 1, "skipped">>} ELSE results
  /\ UNCHANGED <<topic, checkpoint, tables, run, driver, stopping, since, faults>>

\* batch_df.count(): with failOnDataLoss off, what the topic dropped is skipped.
ReadBatch ==
  /\ thread = "read" /\ ~Lost
  /\ thread' = IF Rows = {} THEN "commit" ELSE "bronze"
  /\ results' = IF Rows = {} THEN results \cup {<<commits + 1, "skipped">>} ELSE results
  /\ UNCHANGED <<topic, checkpoint, tables, run, driver, stopping, since, faults>>

\* Mutant: process_bronze_batch is called with append_bronze=False.
AppendBronzeNot ==
  /\ thread = "bronze" /\ thread' = "silver" /\ ~Lost
  /\ UNCHANGED <<topic, checkpoint, bronze, silver, manifest, run, driver, stopping, results, since, faults>>

AppendBronze ==
  /\ thread = "bronze" /\ thread' = "silver" /\ ~Lost
  /\ bronze' = bronze \cup Rows
  /\ UNCHANGED <<topic, checkpoint, silver, manifest, run, driver, stopping, results, since, faults>>

PublishSilver ==
  /\ thread = "silver" /\ thread' = "gold" /\ ~Lost
  /\ Rows \cap Poison = {}
  /\ silver' = silver \cup Rows
  /\ UNCHANGED <<topic, checkpoint, bronze, manifest, run, driver, stopping, results, since, faults>>

\* Gold is refreshed, and the micro-batch recorded as succeeded.
RecordBatch ==
  /\ thread = "gold" /\ thread' = "log"
  /\ manifest' = [manifest EXCEPT ![commits + 1] = "succeeded"]
  /\ results' = results \cup {<<commits + 1, "succeeded">>}
  /\ UNCHANGED <<topic, checkpoint, bronze, silver, run, driver, stopping, since, faults>>

\* The progress line is written, and process_microbatch returns.
WriteProgress ==
  /\ thread = "log" /\ thread' = "commit"
  /\ UNCHANGED <<topic, checkpoint, tables, run, driver, stopping, results, since, faults>>

\* Mutant: the handler does not raise.
FailBatchSwallowed ==
  /\ thread \in {"bronze", "silver", "gold", "log"}
  /\ \/ thread = "silver" /\ Rows \cap Poison # {} /\ UNCHANGED faults
     \/ thread \in {"bronze", "silver"} /\ Lost /\ UNCHANGED faults
     \/ stopping /\ thread # "log" /\ UNCHANGED faults
     \/ Fault
  /\ manifest' = [manifest EXCEPT ![commits + 1] = "failed"]
  /\ results' = results \cup {<<commits + 1, "failed">>}
  /\ thread' = "commit"
  /\ UNCHANGED <<topic, checkpoint, bronze, silver, run, driver, stopping, since>>

(***************************************************************************)
(* The quality gate, a record that the topic dropped since the count, a    *)
(* job that query.stop() cancelled, or anything else raises inside the     *)
(* handler of process_microbatch.  A batch that fails after it was         *)
(* recorded as succeeded is recorded a second time.                        *)
(***************************************************************************)
FailBatch ==
  /\ thread \in {"bronze", "silver", "gold", "log"}
  /\ \/ thread = "silver" /\ Rows \cap Poison # {} /\ UNCHANGED faults
     \/ thread \in {"bronze", "silver"} /\ Lost /\ UNCHANGED faults
     \/ stopping /\ thread # "log" /\ UNCHANGED faults
     \/ Fault
  /\ manifest' = [manifest EXCEPT ![commits + 1] = "failed"]
  /\ results' = results \cup {<<commits + 1, "failed">>}
  /\ thread' = IF stopping THEN "stopped" ELSE "failed"
  /\ UNCHANGED <<topic, checkpoint, bronze, silver, run, driver, stopping, since>>

\* Raised before the handler, by lost records or by anything else: no trace.
FailUnrecorded ==
  /\ thread \in {"start", "idle", "read", "bronze", "commit"} /\ ~stopping
  /\ \/ thread \in {"read", "bronze"} /\ Lost /\ UNCHANGED faults
     \/ Fault
  /\ thread' = "failed"
  /\ UNCHANGED <<topic, checkpoint, tables, run, driver, stopping, results, since>>

CommitBatch ==
  /\ thread = "commit"
  /\ commits' = commits + 1
  /\ thread' = IF stopping THEN "stopped" ELSE "idle"
  /\ UNCHANGED <<topic, initial, planned, tables, run, driver, stopping, results, since, faults>>

\* The interrupt of query.stop() ends the thread, before a commit too.
HaltThread ==
  /\ stopping /\ thread \in {"start", "idle", "read", "bronze", "commit"}
  /\ thread' = "stopped"
  /\ UNCHANGED <<topic, checkpoint, tables, run, driver, stopping, results, since, faults>>

-----------------------------------------------------------------------------
(* The main thread. *)

StartRun ==
  /\ main = "down" /\ main' = "load"
  /\ since' = commits
  /\ UNCHANGED <<topic, checkpoint, tables, run, reason, due, query, faults>>

StartQuery ==
  /\ main = "load" /\ main' = "check"
  /\ thread' = "start"
  /\ UNCHANGED <<topic, checkpoint, tables, run, reason, due, stopping, results, since, faults>>

PassDeadline ==
  /\ main \in {"check", "await", "deadline"}
  /\ \E d \in Deadlines \ due : due' = due \cup {d}
  /\ UNCHANGED <<topic, checkpoint, tables, run, main, reason, query, since, faults>>

\* while query.isActive, and the break when nothing is left to wait for.
CheckQuery ==
  /\ main = "check"
  /\ IF Active /\ due = {}
     THEN main' = "await" /\ UNCHANGED reason
     ELSE main' = "stop" /\ reason' = "completed"
  /\ UNCHANGED <<topic, checkpoint, tables, run, due, query, since, faults>>

\* query.awaitTermination returns after its time, or raises what ended the query.
AwaitQuery ==
  /\ main = "await"
  /\ main' = IF thread = "failed" THEN "failed" ELSE "deadline"
  /\ UNCHANGED <<topic, checkpoint, tables, run, reason, due, query, since, faults>>

\* Mutant: the query is waited for, and not told to stop.
StopQueryForgotten(why) ==
  /\ main' = "stopping" /\ reason' = why /\ UNCHANGED stopping

\* query.stop(), which blocks until the query thread has ended.
StopQuery(why) ==
  /\ main' = "stopping" /\ reason' = why /\ stopping' = TRUE

CheckDeadline ==
  /\ main = "deadline"
  /\ IF due # {} /\ Active
     THEN StopQuery(IF "timeout" \in due THEN "timeout" ELSE "stop_after")
     ELSE main' = "check" /\ UNCHANGED <<reason, stopping>>
  /\ UNCHANGED <<topic, checkpoint, tables, run, due, thread, results, since, faults>>

\* Mutant: main goes on to its summary with the query still running.
LeaveLoopNoStop ==
  /\ main = "stop" /\ main' = "record"
  /\ UNCHANGED <<topic, checkpoint, tables, run, reason, due, query, since, faults>>

\* Back in main: the query is stopped if it is still active.
LeaveLoop ==
  /\ main = "stop"
  /\ IF Active THEN StopQuery(reason) ELSE main' = "record" /\ UNCHANGED <<reason, stopping>>
  /\ UNCHANGED <<topic, checkpoint, tables, run, due, thread, results, since, faults>>

Stopped ==
  /\ main = "stopping" /\ thread \in {"stopped", "failed"}
  /\ main' = "record"
  /\ UNCHANGED <<topic, checkpoint, tables, run, reason, due, query, since, faults>>

RecordRun ==
  /\ main = "record" /\ main' = "progress"
  /\ run' = [status |-> "succeeded", reason |-> reason]
  /\ UNCHANGED <<topic, checkpoint, tables, reason, due, query, since, faults>>

\* The line streaming_run_complete, inside the same try.
LogRun ==
  /\ main = "progress" /\ main' = "exit"
  /\ UNCHANGED <<topic, checkpoint, tables, run, reason, due, query, since, faults>>

RecordFailedRun ==
  /\ main = "failed" /\ main' = "exit"
  /\ run' = [status |-> "failed", reason |-> "none"]
  /\ UNCHANGED <<topic, checkpoint, tables, reason, due, query, since, faults>>

\* Anything that main calls raises: the query is left running, and a run that was
\* recorded as succeeded is recorded again, as failed.
FailMain ==
  /\ main \in {"load", "check", "await", "deadline", "stop", "stopping", "record",
               "progress"}
  /\ Fault /\ main' = "failed"
  /\ UNCHANGED <<topic, checkpoint, tables, run, reason, due, query, since>>

Exit ==
  /\ main' = "down" /\ reason' = "none" /\ due' = {}
  /\ thread' = "none" /\ stopping' = FALSE /\ results' = {}
  /\ since' = 0
  /\ UNCHANGED <<topic, checkpoint, tables, run>>

\* spark.stop(), whatever the query does.
StopSpark == main = "exit" /\ Exit /\ UNCHANGED faults

Crash == main # "down" /\ Fault /\ Exit

\* reset-streaming-state.sh, with the driver down.
Reset ==
  /\ MayReset /\ main = "down"
  /\ initial' = -1 /\ planned' = <<>> /\ commits' = 0
  /\ UNCHANGED <<topic, tables, run, driver, query, since, faults>>

Thread ==
  \/ StartThread \/ PlanBatch \/ ReadBatch \/ AppendBronze \/ PublishSilver
  \/ RecordBatch \/ WriteProgress \/ CommitBatch \/ HaltThread

Main ==
  \/ StartQuery \/ CheckQuery \/ AwaitQuery \/ CheckDeadline \/ LeaveLoop
  \/ Stopped \/ RecordRun \/ LogRun \/ RecordFailedRun \/ StopSpark

Next ==
  \/ Produce \/ Expire \/ Reset
  \/ Thread \/ FailBatch \/ FailUnrecorded
  \/ StartRun \/ Main \/ PassDeadline \/ FailMain \/ Crash

Spec == Init /\ [][Next]_vars

(***************************************************************************)
(* Both threads are scheduled; time passes; the driver is started again.   *)
(* The unit template says Restart=always, which supervises the driver only *)
(* when STREAM_RUN_IN_FOREGROUND=1: WF(StartRun) assumes that setting.     *)
(* The thread has to respond to a poison record, a cancelled job and a     *)
(* lost record, but nothing has to fault.                                  *)
(***************************************************************************)
FairSpec ==
  /\ Spec
  /\ WF_vars(Thread \/ ((FailBatch \/ FailUnrecorded) /\ UNCHANGED faults))
  /\ WF_vars(Main) /\ WF_vars(StartRun) /\ WF_vars(PassDeadline)

-----------------------------------------------------------------------------

TypeOK ==
  /\ end \in 0 .. Last /\ low \in 0 .. end
  /\ initial \in -1 .. Last /\ planned \in Seq(Offset) /\ commits \in 0 .. Len(planned)
  /\ bronze \subseteq Offset /\ silver \subseteq bronze
  /\ manifest \in [BatchId -> {"none", "failed", "succeeded"}]
  /\ run.status \in {"none", "failed", "succeeded"}
  /\ main \in {"down", "load", "check", "await", "deadline", "stop", "stopping",
               "record", "progress", "failed", "exit"}
  /\ reason \in {"none", "completed", "timeout", "stop_after"} /\ due \subseteq Deadlines
  /\ thread \in Stages \cup {"none", "start", "idle", "commit", "failed", "stopped"}
  /\ stopping \in BOOLEAN
  /\ results \subseteq BatchId \X {"skipped", "failed", "succeeded"}
  /\ since \in 0 .. Last /\ faults \in 0 .. MaxFaults

\* Every record that the checkpoint has passed is in Silver, or, if the topic
\* may lose records unnoticed, was dropped by it: a crash, a stop or a rejected
\* batch never makes the query step over a record (process_microbatch raises).
NothingSkipped ==
  \A m \in initial + 1 .. EndOf(commits) : m \in silver \/ (~FailOnLoss /\ m <= low)

\* A batch that the checkpoint has as done has a manifest that says so, unless
\* the topic had dropped all of it; a later failure of a redelivery cannot have
\* overwritten it.
CommittedIsRecorded ==
  \A b \in 1 .. commits :
    manifest[b] = "succeeded" \/ \A m \in EndOf(b - 1) + 1 .. EndOf(b) : m <= low

\* A run is recorded as succeeded only when its query has ended (by a failure too,
\* when nobody was waiting for it), and the micro-batches counted as done are those
\* the checkpoint took in this run, and at most one more that it has yet to
\* redeliver: what the main thread summarises no longer changes under it.
SummaryTruth ==
  [][run' # run /\ run'.status = "succeeded" =>
       LET done == {r[1] : r \in {x \in results : x[2] # "failed"}} IN
       /\ thread \in {"stopped", "failed"}
       /\ since + 1 .. commits \subseteq done /\ done \subseteq since + 1 .. commits + 1]_vars

Reader == INSTANCE LogReader WITH
  position <- IF initial = -1 THEN -1 ELSE EndOf(commits), applied <- silver

\* The query is an at-least-once reader of the topic (while its checkpoint is kept).
ReadsLog == Reader!Spec

\* docs/architecture.md, bounded streaming execution: a run with a deadline ends.
BoundedRun == main = "load" ~> main = "down"

\* No record that a quality rule rejects can come in one micro-batch with m, or
\* before it.
Clear(m) == \A p \in Poison : Window # 0 /\ p >= m + Window

\* Every record clear of the rejected ones gets to Silver in the end: a record
\* that is redelivered for ever holds up its own micro-batch and those behind it,
\* and nothing else, through faults, restarts and resets.
EventuallyPublished ==
  \A m \in {k \in Offset : Clear(k)} : (m <= end) ~> (m \in silver)
====
