---- MODULE Medallion ----
(***************************************************************************)
(* The Bronze -> Silver -> Gold pipeline that the batch backfill job and   *)
(* the Kafka streaming job share (process_bronze_batch and the functions   *)
(* it calls), over the physical Iceberg tables.                            *)
(*                                                                         *)
(* A job is a Spark driver: it runs one batch at a time, through a fixed   *)
(* order of steps.  Every read of a table and every commit to one is a     *)
(* step of its own, so another job, an exception or a crash can fall       *)
(* between any two of them.  Iceberg commits are atomic and a fast append  *)
(* or a partition delete never conflicts with another commit; there is no  *)
(* lock between jobs.                                                      *)
(***************************************************************************)
EXTENDS Naturals

CONSTANTS
  Row,       \* raw source records, each with all its payload columns
  Hash,      \* record_hash values
  Key,       \* dedupe_key values
  Date,      \* event_date partitions
  Batch,     \* run ids: a month range of the backfill, or a micro-batch
  NoBatch,   \* not a batch
  Job,       \* jobs that write the lakehouse
  BatchJob,  \* those that run the historical backfill; the others stream
  HashOf,    \* record_hash of a row
  KeyOf,     \* dedupe_key of a row
  Valid,     \* rows whose event_time and event_type are not null
  DateOf,    \* event_date of a key, which its event_time determines
  Bad,       \* keys with an unknown event_type, or a purchase with no valid price
  RowsOf,    \* rows a batch reads from its files or its Kafka offsets
  SliceOf,   \* rows whose source_month is in the batch's month range
  BatchOf,   \* batches a job may be asked to run, in any order and again
  ModeOf,    \* a job's Gold refresh mode
  NInc,      \* number of incremental Gold tables: tables 1..NInc
  NAdv,      \* number of advanced (history-wide) ones: the next NAdv
  Feeds      \* keys of the events that a Gold table aggregates

CONSTANTS    \* the environment
  DqFailOnError,  \* DQ_FAIL_ON_ERROR
  Overlap,        \* jobs are run at the same time
  Faults,         \* exceptions and crashes happen
  MayReset        \* operators pass --reset-tables

Table == 1 .. NInc + NAdv
Modes == {"none", "affected_dates", "full"}

ASSUME MedallionAssumption ==
  /\ HashOf \in [Row -> Hash] /\ KeyOf \in [Row -> Key] /\ Valid \subseteq Row
  /\ \A r, s \in Row : HashOf[r] = HashOf[s] =>
        KeyOf[r] = KeyOf[s] /\ (r \in Valid <=> s \in Valid)
  /\ DateOf \in [Key -> Date] /\ Bad \subseteq Key
  /\ RowsOf \in [Batch -> SUBSET Row] /\ SliceOf \in [Batch -> SUBSET Row]
  /\ BatchOf \in [Job -> SUBSET Batch] /\ NoBatch \notin Batch
  /\ ModeOf \in [Job -> Modes] /\ BatchJob \subseteq Job
  /\ \A j \in BatchJob : ModeOf[j] = "full"
  /\ NInc \in Nat \ {0} /\ NAdv \in Nat /\ Feeds \in [Table -> SUBSET Key]
  /\ DqFailOnError \in BOOLEAN /\ Overlap \in BOOLEAN
  /\ Faults \in BOOLEAN /\ MayReset \in BOOLEAN

VARIABLES
  bronze,    \* <<row, job>>: a copy of the row that the job appended
  silver,    \* <<key, job>>: a Silver row with that dedupe_key
  gold,      \* per table, <<silver row, job>>: the job's published aggregate counts the row
  manifest,  \* per batch, the status in the manifest file of its run id
  owed       \* history: <<table, date>> changed in Silver or deleted, not refreshed since

VARIABLES    \* per job, what its driver process holds
  pc,        \* the step it is at
  batch,     \* the batch it runs
  resume,    \* --resume-from silver
  rows,      \* the input rows (bronze_batch)
  fresh,     \* rows the Bronze snapshot lacked
  inserted,  \* keys the Silver snapshot lacked (inserted_silver_rows)
  snapshot,  \* Silver as the Gold refresh reads it
  table      \* the Gold table a refresh or a drop is at

tables == <<bronze, silver, gold>>
driver == <<batch, resume, rows, fresh, inserted, snapshot, table>>
vars == <<tables, manifest, owed, pc, driver>>

Status == {"none", "failed", "succeeded", "resumed"}
PC == {"idle", "drop_gold", "drop_silver", "drop_bronze", "open",
       "insert_bronze", "append_bronze", "insert_silver", "append_silver",
       "refresh_gold", "delete_gold", "append_gold", "record_run"}

Init ==
  /\ bronze = {} /\ silver = {} /\ owed = {}
  /\ gold = [t \in Table |-> {}]
  /\ manifest = [b \in Batch |-> "none"]
  /\ pc = [j \in Job |-> "idle"]
  /\ batch = [j \in Job |-> NoBatch] /\ resume = [j \in Job |-> FALSE]
  /\ rows = [j \in Job |-> {}] /\ fresh = [j \in Job |-> {}]
  /\ inserted = [j \in Job |-> {}] /\ snapshot = [j \in Job |-> {}]
  /\ table = [j \in Job |-> 0]

-----------------------------------------------------------------------------

BronzeHashes == {HashOf[c[1]] : c \in bronze}
Dates(keys) == {DateOf[k] : k \in keys}

\* Null event_time or event_type is filtered out; one row per dedupe_key is kept.
SilverCandidates(rs) == {KeyOf[r] : r \in rs \cap Valid}

\* Mutant: the anti-join is left out.
NoAntiJoin(candidates) == candidates

\* Left-anti join with the keys in the partitions of the candidates' dates.
NewSilverKeys(candidates) ==
  candidates \ {c[1] : c \in {x \in silver : DateOf[x[1]] \in Dates(candidates)}}

\* Mutant: the gate closes only when every row of the batch is bad.
RejectedWhenAllBad(keys) == DqFailOnError /\ keys # {} /\ keys \subseteq Bad

RejectedByDq(keys) == DqFailOnError /\ keys \cap Bad # {}

AllIdle == \A j \in Job : pc[j] = "idle"
Resetting(j) == pc[j] \in {"drop_gold", "drop_silver", "drop_bronze"}

\* Mutant: one table too many.
LastTablePastEnd(j) == IF ModeOf[j] = "full" THEN NInc + NAdv + 1 ELSE NInc

LastTable(j) == IF ModeOf[j] = "full" THEN NInc + NAdv ELSE NInc

\* Dates a refresh of the table deletes and recomputes: an advanced table has all.
Scope(j, t) == IF t <= NInc THEN Dates(inserted[j]) ELSE Date

\* Silver rows of the dates that the table aggregates.
Contributing(rs, t, dates) ==
  {s \in rs : DateOf[s[1]] \in dates /\ s[1] \in Feeds[t]}

-----------------------------------------------------------------------------

Goto(j, from, to) ==
  /\ pc[j] = from
  /\ pc' = [pc EXCEPT ![j] = to]

\* The driver ends, and what it held is gone.
EndRun(j) ==
  /\ pc' = [pc EXCEPT ![j] = "idle"]
  /\ batch' = [batch EXCEPT ![j] = NoBatch] /\ resume' = [resume EXCEPT ![j] = FALSE]
  /\ rows' = [rows EXCEPT ![j] = {}] /\ fresh' = [fresh EXCEPT ![j] = {}]
  /\ inserted' = [inserted EXCEPT ![j] = {}] /\ snapshot' = [snapshot EXCEPT ![j] = {}]
  /\ table' = [table EXCEPT ![j] = 0]

\* Mutant: a failed run is recorded like one that went through.
RecordSucceeded(j, status) == manifest' = [manifest EXCEPT ![batch[j]] = "succeeded"]

\* record_stage_event: the manifest file of the run id is written over.
Record(j, status) == manifest' = [manifest EXCEPT ![batch[j]] = status]

(***************************************************************************)
(* Start of a run: of a backfill over a month range, or the delivery (or   *)
(* redelivery) of a micro-batch.  --resume-from silver and --reset-tables  *)
(* are options of the backfill only.  A reset is only taken while nothing  *)
(* else runs.                                                              *)
(***************************************************************************)
StartRun(j, b, res, reset) ==
  /\ b \in BatchOf[j]
  /\ Overlap \/ AllIdle
  /\ \A i \in Job : ~Resetting(i)
  /\ res => j \in BatchJob
  /\ reset => j \in BatchJob /\ MayReset /\ AllIdle
  /\ Goto(j, "idle", IF reset THEN "drop_gold" ELSE "open")
  /\ batch' = [batch EXCEPT ![j] = b]
  /\ resume' = [resume EXCEPT ![j] = res]
  /\ table' = [table EXCEPT ![j] = IF reset THEN NInc + NAdv ELSE 0]
  /\ UNCHANGED <<tables, manifest, owed, rows, fresh, inserted, snapshot>>

\* Mutant: the reset leaves the first Gold table in place.
DropGoldButFirst(j) ==
  /\ Goto(j, "drop_gold", IF table[j] <= 2 THEN "drop_silver" ELSE "drop_gold")
  /\ gold' = [gold EXCEPT ![table[j]] = {}]
  /\ owed' = owed \cup ({table[j]} \X Date)
  /\ table' = [table EXCEPT ![j] = table[j] - 1]
  /\ UNCHANGED <<bronze, silver, manifest, batch, resume, rows, fresh, inserted, snapshot>>

\* Mutant: the reset leaves Silver in place.
DropGoldThenBronze(j) ==
  /\ Goto(j, "drop_gold", IF table[j] = 1 THEN "drop_bronze" ELSE "drop_gold")
  /\ gold' = [gold EXCEPT ![table[j]] = {}]
  /\ owed' = owed \cup ({table[j]} \X Date)
  /\ table' = [table EXCEPT ![j] = table[j] - 1]
  /\ UNCHANGED <<bronze, silver, manifest, batch, resume, rows, fresh, inserted, snapshot>>

\* Gold tables are dropped first, the last advanced one first of all.
DropGold(j) ==
  LET t == table[j] IN
  /\ Goto(j, "drop_gold", IF t = 1 THEN "drop_silver" ELSE "drop_gold")
  /\ gold' = [gold EXCEPT ![t] = {}]
  /\ owed' = owed \cup ({t} \X Date)
  /\ table' = [table EXCEPT ![j] = t - 1]
  /\ UNCHANGED <<bronze, silver, manifest, batch, resume, rows, fresh, inserted, snapshot>>

DropSilver(j) ==
  /\ Goto(j, "drop_silver", "drop_bronze")
  /\ silver' = {} /\ owed' = {}
  /\ UNCHANGED <<bronze, gold, manifest, driver>>

DropBronze(j) ==
  /\ Goto(j, "drop_bronze", "open")
  /\ bronze' = {}
  /\ UNCHANGED <<silver, gold, manifest, owed, driver>>

\* Mutant: every run starts at Silver, as if Bronze were there.
OpenInputAtSilver(j) ==
  /\ Goto(j, "open", "insert_silver")
  /\ rows' = [rows EXCEPT ![j] = RowsOf[batch[j]]]
  /\ UNCHANGED <<tables, manifest, owed, batch, resume, fresh, inserted, snapshot, table>>

\* The input: files or Kafka offsets, or with --resume-from silver the
\* Bronze rows of the month range, in which case the Bronze stage is skipped.
OpenInput(j) ==
  /\ Goto(j, "open", IF resume[j] THEN "insert_silver" ELSE "insert_bronze")
  /\ rows' = [rows EXCEPT ![j] =
       IF resume[j]
       THEN {r \in SliceOf[batch[j]] : \E i \in Job : <<r, i>> \in bronze}
       ELSE RowsOf[batch[j]]]
  /\ UNCHANGED <<tables, manifest, owed, batch, resume, fresh, inserted, snapshot, table>>

-----------------------------------------------------------------------------

\* Mutant: the batch is appended whole.
InsertAllBronzeRows(j) ==
  /\ Goto(j, "insert_bronze", "append_bronze")
  /\ fresh' = [fresh EXCEPT ![j] = rows[j]]
  /\ UNCHANGED <<tables, manifest, owed, batch, resume, rows, inserted, snapshot, table>>

\* Rows whose record_hash the Bronze snapshot lacks, with no dedup inside the batch.
InsertNewBronzeRows(j) ==
  /\ Goto(j, "insert_bronze", "append_bronze")
  /\ fresh' = [fresh EXCEPT ![j] = {r \in rows[j] : HashOf[r] \notin BronzeHashes}]
  /\ UNCHANGED <<tables, manifest, owed, batch, resume, rows, inserted, snapshot, table>>

AppendBronze(j) ==
  /\ Goto(j, "append_bronze", "insert_silver")
  /\ bronze' = bronze \cup (fresh[j] \X {j})
  /\ UNCHANGED <<silver, gold, manifest, owed, driver>>

(***************************************************************************)
(* Silver derives from the full input of the run, whatever Bronze already  *)
(* had.  The anti-join, the quality gate and the affected dates are all    *)
(* evaluated on one snapshot of Silver, before the append commits.         *)
(***************************************************************************)
InsertNewSilverRows(j) ==
  LET new == NewSilverKeys(SilverCandidates(rows[j])) IN
  /\ ~RejectedByDq(new)
  /\ Goto(j, "insert_silver", "append_silver")
  /\ inserted' = [inserted EXCEPT ![j] = new]
  /\ UNCHANGED <<tables, manifest, owed, batch, resume, rows, fresh, snapshot, table>>

\* A critical quality rule fails: the run ends with nothing appended to Silver.
RejectSilver(j) ==
  /\ pc[j] = "insert_silver"
  /\ RejectedByDq(NewSilverKeys(SilverCandidates(rows[j])))
  /\ Record(j, "failed")
  /\ EndRun(j)
  /\ UNCHANGED <<tables, owed>>

AppendSilver(j) ==
  /\ Goto(j, "append_silver", "refresh_gold")
  /\ silver' = silver \cup (inserted[j] \X {j})
  /\ owed' = owed \cup (Table \X Dates(inserted[j]))
  /\ UNCHANGED <<bronze, gold, manifest, driver>>

-----------------------------------------------------------------------------

\* refresh_gold_tables returns at once: mode none, or no affected dates.
SkipGold(j) ==
  /\ ModeOf[j] = "none" \/ inserted[j] = {}
  /\ Goto(j, "refresh_gold", "record_run")
  /\ UNCHANGED <<tables, manifest, owed, driver>>

\* One Silver snapshot feeds every table of the refresh.
RefreshGold(j) ==
  /\ ModeOf[j] # "none" /\ inserted[j] # {}
  /\ Goto(j, "refresh_gold", "delete_gold")
  /\ snapshot' = [snapshot EXCEPT ![j] = silver]
  /\ table' = [table EXCEPT ![j] = 1]
  /\ UNCHANGED <<tables, manifest, owed, batch, resume, rows, fresh, inserted>>

\* Mutant: the rows of the affected dates stay, and the new ones come beside.
DeleteGoldNothing(j) ==
  /\ Goto(j, "delete_gold", "append_gold")
  /\ owed' = owed \cup ({table[j]} \X Scope(j, table[j]))
  /\ UNCHANGED <<tables, manifest, driver>>

DeleteGold(j) ==
  LET t == table[j] IN
  /\ Goto(j, "delete_gold", "append_gold")
  /\ gold' = [gold EXCEPT ![t] = {c \in @ : DateOf[c[1][1]] \notin Scope(j, t)}]
  /\ owed' = owed \cup ({t} \X Scope(j, t))
  /\ UNCHANGED <<bronze, silver, manifest, driver>>

\* An empty result is not appended, which publishes no row either.
AppendGold(j) ==
  LET t == table[j] IN
  /\ Goto(j, "append_gold", IF t = LastTable(j) THEN "record_run" ELSE "delete_gold")
  /\ gold' = [gold EXCEPT ![t] =
       @ \cup (Contributing(snapshot[j], t, Scope(j, t)) \X {j})]
  /\ owed' = owed \ ({t} \X Scope(j, t))
  /\ table' = [table EXCEPT ![j] = IF t = LastTable(j) THEN t ELSE t + 1]
  /\ UNCHANGED <<bronze, silver, manifest, batch, resume, rows, fresh, inserted, snapshot>>

\* batch_backfill_iceberg or streaming_microbatch_iceberg, the run's own manifest.
RecordRun(j) ==
  /\ pc[j] = "record_run"
  /\ Record(j, IF resume[j] THEN "resumed" ELSE "succeeded")
  /\ EndRun(j)
  /\ UNCHANGED <<tables, owed>>

-----------------------------------------------------------------------------

\* An exception of Spark, Iceberg or the file system: the handler of the run
\* records it, and it is raised out of the run.  A micro-batch builds its
\* input outside of its handler.
Fail(j) ==
  /\ Faults /\ pc[j] # "idle"
  /\ pc[j] = "open" => j \in BatchJob
  /\ Record(j, "failed")
  /\ EndRun(j)
  /\ UNCHANGED <<tables, owed>>

\* The driver dies: nothing is recorded.
Crash(j) ==
  /\ Faults /\ pc[j] # "idle"
  /\ EndRun(j)
  /\ UNCHANGED <<tables, manifest, owed>>

Step(j) ==
  \/ \E b \in Batch, res, reset \in BOOLEAN : StartRun(j, b, res, reset)
  \/ DropGold(j) \/ DropSilver(j) \/ DropBronze(j) \/ OpenInput(j)
  \/ InsertNewBronzeRows(j) \/ AppendBronze(j)
  \/ InsertNewSilverRows(j) \/ RejectSilver(j) \/ AppendSilver(j)
  \/ SkipGold(j) \/ RefreshGold(j) \/ DeleteGold(j) \/ AppendGold(j)
  \/ RecordRun(j) \/ Fail(j) \/ Crash(j)

Next == \E j \in Job : Step(j)

Spec == Init /\ [][Next]_vars

-----------------------------------------------------------------------------

LandedKeys == SilverCandidates({c[1] : c \in bronze})
SilverKeys == {c[1] : c \in silver}
Partition(t, d) == {c \in gold[t] : DateOf[c[1][1]] = d}

\* The partition publishes one aggregate, of exactly the Silver rows it should.
Exact(t, d) ==
  /\ {c[1] : c \in Partition(t, d)} = Contributing(silver, t, {d})
  /\ \A c1, c2 \in Partition(t, d) : c1[2] = c2[2]

\* Tables that every job refreshes.
CommonTable(t) == \A j \in Job : ModeOf[j] # "none" /\ t <= LastTable(j)

\* Type invariant: the tables hold rows, and a driver is at a table of the
\* refresh or the drop whenever it is about to write one.
TypeOK ==
  /\ bronze \in SUBSET (Row \X Job)
  /\ silver \in SUBSET (Key \X Job)
  /\ gold \in [Table -> SUBSET ((Key \X Job) \X Job)]
  /\ manifest \in [Batch -> Status]
  /\ owed \in SUBSET (Table \X Date)
  /\ pc \in [Job -> PC]
  /\ batch \in [Job -> Batch \cup {NoBatch}]
  /\ resume \in [Job -> BOOLEAN]
  /\ rows \in [Job -> SUBSET Row] /\ fresh \in [Job -> SUBSET Row]
  /\ inserted \in [Job -> SUBSET Key]
  /\ snapshot \in [Job -> SUBSET (Key \X Job)]
  /\ table \in [Job -> 0 .. NInc + NAdv]
  /\ \A j \in Job : pc[j] # "idle" => batch[j] \in Batch
  /\ \A j \in Job : pc[j] = "drop_gold" => table[j] \in Table
  /\ \A j \in Job : pc[j] \in {"delete_gold", "append_gold"} => table[j] \in 1 .. LastTable(j)

\* Silver holds one row per dedupe_key: no rerun, redelivery, resume or
\* replayed copy of an event inserts it again (insert_new_silver_rows).
SilverUnique == \A c1, c2 \in silver : c1[1] = c2[1] => c1 = c2

\* Every Silver row has a Bronze row it came from, also with the Bronze
\* append, the Silver append and the drops of a reset as separate commits.
SilverFromBronze == SilverKeys \subseteq LandedKeys

\* The quality gate: no event that breaks a critical rule is ever in Silver,
\* whatever else was in its batch (summarize_silver_dataframe_quality).
SilverClean == DqFailOnError => SilverKeys \cap Bad = {}

\* Readers of Gold only see aggregates of rows that Silver has, also in the
\* middle of a refresh by several jobs and of a reset.
GoldFromSilver == \A t \in Table : \A c \in gold[t] : c[1] \in silver

\* A Gold partition is exact but for those that a Silver append or a delete
\* touched and no refresh has completed since (refresh_gold_tables).
GoldExactUnlessOwed ==
  \A t \in Table, d \in Date : <<t, d>> \notin owed => Exact(t, d)

\* With no run in progress, the tables that every job refreshes agree with
\* Silver (validate_silver_gold.sql: "should match", "should reconcile").
GoldReconciles ==
  AllIdle => \A t \in Table, d \in Date : CommonTable(t) => Exact(t, d)

\* Once every batch has a succeeded run, rerun after its failures or not,
\* Gold agrees with Silver (docstring of insert_new_bronze_rows).
RerunRecovers ==
  (\A b \in Batch : manifest[b] = "succeeded") => GoldReconciles

\* A succeeded run's manifest tells the truth, until a reset: Bronze has the
\* rows of the batch and Silver its events (process_bronze_batch, main).
ManifestTruth ==
  ~MayReset => \A b \in Batch : manifest[b] = "succeeded" =>
    /\ {HashOf[r] : r \in RowsOf[b]} \subseteq BronzeHashes
    /\ SilverCandidates(RowsOf[b]) \subseteq SilverKeys

\* A record_hash that Bronze has is not appended again: what makes the
\* Bronze stage safe to rerun (insert_new_bronze_rows).
BronzeHashOnce ==
  [][\A c \in bronze' \ bronze : HashOf[c[1]] \notin BronzeHashes]_vars

\* Running again a batch that already succeeded writes to no table: at least
\* once delivery of micro-batches and reruns of a backfill are harmless.
RerunIsNoop ==
  [][\A j \in Job :
       (/\ ~MayReset /\ pc[j] # "idle" /\ ~resume[j]
        /\ manifest[batch[j]] = "succeeded" /\ <<pc[j], table[j]>>' # <<pc[j], table[j]>>)
       => UNCHANGED tables]_vars

\* The tables keep the promise of the contract at every commit.
Contract == INSTANCE LakehouseContract WITH landed <- LandedKeys, published <- silver
ContractSpec == Contract!Spec

=============================================================================
