# Formal verification of the e-commerce lakehouse

TLA+ models of the lakehouse in `src/`, checked with TLC on small instances, and
theorems about them proved with TLAPS for every value of the constants.

Source paths below are relative to `src/`; `backfill` stands for
`infra/jobs/batch_backfill_to_iceberg.py` and `stream` for
`infra/jobs/kafka_stream_to_iceberg.py`.

## 1. The system

| component | state it keeps | operations | who it talks to |
|---|---|---|---|
| **Medallion pipeline** (`backfill: process_bronze_batch`, `main`; `stream: process_microbatch`) | Iceberg tables Bronze, Silver, six date-partitioned and five history-wide Gold tables; one manifest file per run id | backfill a month range, `--resume-from silver`, `--reset-tables`, process a micro-batch | reads CSV files or Kafka; Trino, Superset and the chatbot read the tables |
| **Quality gate** (`infra/jobs/dq_iceberg.py`) | none | fail a Silver or Gold publication on a critical rule | called by the pipeline before each append |
| **Streaming query loop** (`stream: main`, `_wait_for_query`) | Spark checkpoint, progress log, run manifest | start, trigger, deliver and redeliver micro-batches, time out, stop | Kafka, pipeline, systemd |
| **Replay producer** (`apps/producer/replay_csv_to_kafka.py`) | Kafka topic | replay rows of CSV files, filtered, limited, repeated, asynchronously | Kafka |
| **Local pipeline** (`pipelines/`, `apps/batch`, `apps/streaming`, `common/storage.py`, `common/manifests.py`, `common/dq_checks.py`) | per run id: JSON lines of Bronze, of Silver by date, a quarantine, Gold CSV files, a manifest | Bronze backfill, Bronze to Silver, Silver to Gold | file system |
| **Gold marts** (Spark builders in `backfill`, `pipelines/gold/*`) | none | sessionize, funnels, cohorts, affinity, RFM | pipeline |
| **Chatbot backend** (`chatbot/backend/app`) | SQLite sessions and messages | create and list sessions, run a message through the LLM, SQL validation, Trino, summary | LLM, Trino, SQLite |
| **Chatbot frontend** (`chatbot/frontend/src`) | browser state of sessions and messages, a cookie with the browser id | load, open or create a session, submit a message | backend |
| **Streaming operations** (`infra/server/scripts/*-streaming*.sh`, systemd templates) | pid file, checkpoint directory, Spark driver process | start, stop, inspect, reset, restart | query loop |
| **Benchmarks** (`infra/server/scripts/run-full-benchmark.sh`, `cleanup-benchmark-artifacts.sh`, `infra/jobs/benchmark_*.py`) | cached input samples, staged inputs, three groups of scratch tables, results files | compare Parquet with Iceberg and one batch with microbatches, clean up | the pipeline's functions, renamed to scratch tables |
| Superset bootstrap, Trino SQL, provisioning, maintenance report | none of their own that the others depend on | | |

### What is hard

* Bronze, Silver and each Gold table commit separately; an exception, a quality
  gate or a crash may fall between any two commits, and the only recovery is to
  run the batch again (a backfill is rerun by hand, a micro-batch is redelivered).
* The query loop is two threads: Spark's query thread dies, or is stopped, while
  the main thread is between two looks at it; a deadline may pass at any point.
* There is no lock between jobs. Every table is written check-then-append
  (anti-join with a snapshot, then an append) or delete-then-append, and a
  backfill and a stream may run on two nodes of one cluster.
* Delivery is at least once: a micro-batch is redelivered after a failure, a
  producer may send a record again, a backfill may be rerun or resumed.
* A quality rule rejects a whole batch, so one record holds back the others.
* Gold is refreshed only for the dates of rows that the run itself inserted.
* The chat backend writes a question and its answer in two transactions with three
  remote services called in between; other requests of the same session, a restart or
  the proxy's timeout may fall in the gap, and the page applies replies in the order
  in which they arrive.
* The files of the local pipeline are written line by line under the id of their run and read by
  whatever runs next, finished or not; there is no commit and no repair.
* The daily marts are recomputed from the affected dates only, by window and grouping code that must
  not look past a date; a second engine computes the same marts with dictionaries.
* A benchmark is killed by a disk watchdog at any step, reuses what earlier runs cached, and runs the
  code of the pipeline on scratch tables by overwriting the module globals that name the production tables.

### What makes each component correct

* Pipeline: an event is in Silver at most once, only after it landed in Bronze,
  and never if it breaks a critical rule; Gold partitions agree with Silver;
  running a batch again changes nothing; a succeeded manifest is the truth.
* Query loop: every offset is processed, in order, at least once; a stopped run
  is recorded as what happened to it.
* Producer: every row that passes the filters is sent, in replay order.
* Local pipeline: a manifest stands for whole files; nothing reaches Gold that Silver rejected or that
  was not in the input; over one chain of runs Gold counts every event once.
* Gold marts: refreshing dates is as good as rebuilding; the marts add up; both engines agree.
* Benchmarks: a report measured the input its settings name, both sides on the same rows, and the
  production tables are not touched.
* Chatbot: a question is put by the owner of its session and answered at most once,
  there; what the page shows is what was said; only a read-only, limited statement
  reaches Trino.
* Operations: at most one driver runs; a reset never happens under a running one.

## 2. Modules

| module | models |
|---|---|
| `Medallion` | the pipeline over the physical tables, with any number of jobs |
| `LakehouseContract` | what the tables promise to their readers: the abstract specification of Bronze and Silver |
| `MCMedallion` | the instances for TLC |
| `MedallionProofs` | types, Bronze and Silver, the refinement of the contract; Gold; manifests and reruns |
| `StreamQuery` | the streaming driver: main thread, query thread, checkpoint, topic |
| `LogReader` | what a stream promises: an at-least-once reader of a log |
| `MCStream` | the instances for TLC |
| `StreamQueryProofs` | types, no record skipped, manifests of committed batches, summaries, the refinement of the reader |
| `ChatService` | the chat backend: tables, requests, every outcome of the services it calls |
| `Conversation` | what the chat service promises: the abstract specification |
| `ChatTab` | a browser tab and its cookie, composed with `ChatService` |
| `MCChat`, `MCChatTab` | the instances for TLC |
| `ChatServiceProofs` | types, the refinement of the conversation, titles, histories |
| `ChatTabProofs` | what the page shows, for any number of calls in flight and for a user who waits |
| `FiniteInduction` | induction over finite sets and numbers, for the proofs |
| `SilverEvents` | Silver rows and the vocabulary of the Gold builders |
| `SparkMarts`, `LocalMarts` | the Gold builders of the Iceberg and of the local pipeline, as operators |
| `GoldMarts`, `MCGoldMarts` | `refresh_gold_tables` over a Silver that grows, composed with both; the instance |
| `GoldMartsProofs` | refreshing dates is rebuilding; derived sessions; the marts add up; past months; both engines agree |
| `LocalPipeline`, `MCLocal` | the runs of the local pipeline over their files; the instance |
| `LocalPipelineProofs` | what manifests stand for, lineage, what Gold counts, nothing after poison |
| `Benchmark`, `MCBenchmark` | the benchmark script, its jobs, caches, tables and clean-up; the instance |
| `BenchmarkProofs` | production tables untouched, reports true, both sides get the same rows |

### `Medallion`

A *job* is a Spark driver; `pc[j]` says at which step it is, and `batch`, `resume`,
`rows`, `fresh`, `inserted`, `snapshot`, `table` are the values its process holds.
They are lost when the run ends (`EndRun`), by success, exception or crash.
The tables are sets: `<<row, job>>` in Bronze, `<<dedupe_key, job>>` in Silver, and
in each Gold table `<<silver row, job>>`, which says that the aggregate the job
published for the row's partition counts that Silver row. Two aggregates of one
partition, by two jobs, are thus visible, as is an aggregate of rows that Silver
does not have. One action stands for one read of a table or one Iceberg commit:

| action | code |
|---|---|
| `StartRun` | the command line of the backfill; Spark handing a micro-batch to `process_microbatch`, first time or again |
| `DropGold`, `DropSilver`, `DropBronze` | `drop_tables_if_requested`, one `DROP TABLE` after the other |
| `OpenInput` | `read_bronze_batch`, `build_streaming_bronze_batch`, `read_bronze_slice` |
| `InsertNewBronzeRows`, `AppendBronze` | `insert_new_bronze_rows` and the append |
| `InsertNewSilverRows`, `RejectSilver`, `AppendSilver` | candidates, anti-join, gate, affected dates; the gate's exception; the append |
| `SkipGold`, `RefreshGold` | the early returns of `refresh_gold_tables`, and its read of Silver |
| `DeleteGold`, `AppendGold` | `delete_affected_partitions` or `delete_all_rows`, then the append, per table |
| `RecordRun`, `Fail`, `Crash` | the manifest of the run; the `except` blocks; the death of the driver |

How the code was read, where it is not obvious:

* *One Silver snapshot per stage.* The Silver DataFrames are lazy and evaluated
  several times (count, gate, dates, append), but `spark.table` binds them to the
  Iceberg table instance the session loaded, which stays at its snapshot until the
  session itself writes or refreshes the table. The anti-join, the gate and the
  affected dates of one run therefore agree, and the Gold refresh, after the run's
  own append, sees a later snapshot. `InsertNewSilverRows` and `RefreshGold` are the
  two reads. The pinning is assumed: no property could see these evaluations disagree.
* *A reset runs alone.* `main` and `drop_tables_if_requested` (`backfill:304`) have no such
  guard; that whoever passes `--reset-tables` waits for idle jobs, and starts none before the
  reset is over, is assumed (`StartRun`, `ResetAlone`). `Overlap` has no resets.
* *No conflicts.* Appends are Iceberg fast appends and deletes are of whole
  partitions; neither fails because of another job's commit.
* *Keys.* `record_hash` covers the payload and the source file, `dedupe_key` the
  event fields after normalisation: rows with one hash have one key, and a key has
  one `event_date`. `MedallionAssumption` says so. The source file and date filters
  of the two anti-joins are pure optimisations under it; the date filter is in
  the model, and `AntiJoin` proves that it loses nothing.
* *Manifests.* Only the run's own manifest is modelled (`batch_backfill_iceberg`,
  `streaming_microbatch_iceberg`); `"resumed"` is a success whose details say
  `resume_from: silver`. A success that cannot be written is recorded as a failure.
* *A dropped table* is empty; `create_tables_if_needed` follows.
* *The Gold gate* checks required fields and negative metrics, which rows that
  passed the Silver gate cannot produce; `Fail` covers an exception there.
* `owed` is a history variable: it is only read by properties.

### `StreamQuery`

The pipeline is abstracted here to the records that have reached Bronze and Silver:
what `Medallion` shows of one `process_microbatch` is not repeated. What is detailed is
everything around it. Three state machines run side by side.

* *Query thread* (`thread`): `start` (Spark resolves the starting offsets, or finds a
  batch in the checkpoint that was planned and not committed), `idle`, then for each batch
  `read` (`batch_df.count()`), `bronze`, `silver`, `gold`, `log` (the progress line),
  `commit`. It ends `failed` (an exception) or `stopped` (`query.stop()`).
* *Main thread* (`main`): `load` (from the first line of `main` to `writer.start()`), the
  loop of `_wait_for_query` (`check` is the head of the loop, `await` is
  `awaitTermination(5)`, `deadline` the comparison with the clocks), `stop`
  (`if query.isActive: query.stop()`), `stopping` (inside `query.stop()`), `record` or
  `failed` (the manifest of the run), `progress` (the line that reports it), `exit` (`spark.stop()`), `down`.
* *Topic* (`end`, `low`): the producer appends; retention drops.

| action | code |
|---|---|
| `StartThread`, `PlanBatch`, `CommitBatch` | Spark's micro-batch execution, from how `stream` configures it (`startingOffsets`, `maxOffsetsPerTrigger`, `failOnDataLoss`, `checkpointLocation`): external |
| `ReadBatch`, `AppendBronze`, `PublishSilver`, `RecordBatch`, `WriteProgress`, `FailBatch` | `process_microbatch` |
| `FailUnrecorded` | an exception that its handler does not see: lost offsets, Kafka, the checkpoint |
| `StartRun`, `StartQuery`, `LeaveLoop`, `RecordRun`, `LogRun`, `RecordFailedRun`, `FailMain`, `StopSpark` | `main` |
| `CheckQuery`, `AwaitQuery`, `CheckDeadline`, `PassDeadline` | `_wait_for_query` |
| `Reset` | `reset-streaming-state.sh` with the driver down |
| `Crash` | the death of the driver at any step |

* *Offsets.* One partition: Spark plans and commits the offsets of all partitions as one
  vector, and one offset stands for it. Producing again what the topic has is a new offset.
* *Checkpoint.* `planned` and `commits` are the offset log and the commit log; a batch is
  planned before it is handed over and committed after `process_microbatch` returned, so a
  driver that starts with `Len(planned) > commits` delivers that batch, the same offsets,
  again.
* *Reads.* A micro-batch is not kept: the count, the Bronze append and the Silver append each read it from the topic, so
  `Rows` is what the topic has of it at that step, and `Lost` says that `failOnDataLoss` makes the step fail.
* *Failures.* `FailBatch` is the handler of `process_microbatch`: manifest, result, raise. The
  progress line is written inside its `try`, after the batch was recorded as succeeded, so a
  batch can be recorded twice; likewise a run, whose manifest `FailMain` writes over when the line after it (`LogRun`) fails. `query.stop()` cancels the running jobs: while `stopping`, a
  stage may fail or go on.
* *What the main thread sees.* `Active` (`query.isActive`) is false as soon as the thread has
  ended. `awaitTermination` raises only when the query failed while it was waiting; at the
  head of the loop and after it an inactive query only leaves the loop.

### `ChatService`

A *question* is one POST of a message: `step[q]` is where `run_message` is with it, and
`events`, `rows`, `answer` are the values it has collected. `saved` is the table of
messages, `<<session, question, role>>`; `stamped` is the order of `created_at`, which is set when a
message is built, one step before it is inserted, so `History(s)` sorts by it as `get_session` does.

| action | code |
|---|---|
| `CreateSession`, `PostMessage` | `create_session`; `post_message` calling `run_message` |
| `FindSession`, `SaveQuestion` | `get_session` and `build_user_message`; `add_message` with its CASE on the title |
| `Plan`, `GenerateSql`, `RunQuery`, `Summarize` | the steps of `run_message`, each with the outcomes of `llm/client.py`, `sql/validator.py` and `trino_client.py`: a reply, a reply that cannot be read, a failed call, an empty text |
| `SaveAnswer` | `add_message` of the answer |
| `FailStorage`, `Restart` | SQLite raising in `find`, `ask` or `save`; the end of the backend process |

* *Transactions.* SQLite serializes writers, so each `with self._connect()` is one step.
* *Services.* `HasKey` chooses between Vertex AI and the mock. A failed call raises, or with `AllowMock`
  returns an empty text; what each caller makes of an empty text is in the model.
* *Data.* Rows are `none`, `plain`, `decimal` or `nan`, which is what the JSON conversions tell apart: `json.dumps` takes
  no `Decimal`, `JSONResponse` no NaN. The mock's statements add up doubles and integers.

### `ChatTab`

`rail`, `active`, `shown`, `view`, `busy`, `status`, `error` are the React state of `App`. A call in flight is a record in
`call`: `sent`, `served` (a POST whose `run_message` runs), `back` (its reply is on the way), or `lost`. `jar` is the
browser id in the cookie; a call carries the cookie it left with, and its reply sets it.

| action | code |
|---|---|
| `ClickSession`, `ClickNew`, `SubmitMessage`, `Reload` | the user; the guards are those of `SessionRail`, `Composer` and `StarterPrompts` |
| `ListSessions`, `OpenNewSession`, `GetSession`, `Post`, `PostEnds` | the routes, with `get_browser_id` |
| `Bootstrap`, `HandleCreateSession`, `OpenSession`, `OnStatus`, `OnComplete`, `RefreshSessions` | the continuations of `bootstrap`, `handleCreateSession`, `openSession`, `submitMessage` |
| `FailCall` | their `catch` and `finally`; a click on the rail has neither |
| `Lose`, `ExpireCookie`, `Restart` | a lost call or the proxy's timeout, while the backend goes on; the age of the cookie; the backend |

A reply that is not a success (404, 500, 504) makes the page do what a lost call does, and is modelled as one. A stream that breaks after its
event `completed` leaves the page as `OnComplete` and then the loss of the list refresh do. An id in no use
stands for an id that `uuid4` never gave.

### `SilverEvents`, `SparkMarts`, `LocalMarts`, `GoldMarts`

The builders are pure: one operator per mart, from a set of Silver rows to the set of rows of the mart, `NULL`
(`None`) included. `SparkMarts` follows `backfill` (sessionization, six daily marts, five history-wide marts);
`LocalMarts` follows `pipelines/gold/*` and reuses only what the two engines share (the pairs' ranking, the
histogram, the segments). `GoldMarts` has one action, `Publish(b)`: a run appends the rows `b` to Silver and
`refresh_gold_tables` replaces, in each daily mart, the rows of the affected dates by those computed from Silver restricted
to these dates, and the history-wide marts altogether. `Medallion` has the commits of that refresh one by one; here it is one step.

* *Sessions.* `Sessionized` is the window of user and date ordered by time and id: a row without a session id
  starts a new one when it is first, when the row before it has an id, or comes more than `Inactivity` seconds
  later. Rows with NULL users share a window. `Lpad` is what `lpad(..., 4, '0')` does to a number of five digits: it cuts the last one.
* *Order.* Rows of one second have no order of their own; `PathLabel` lists stages by first time, ties by name.
* *Ranks.* `Outranks`, `RankedPairs`, `Position` write the `ORDER BY` with its tie-breaks; `Ntile` is SQL's.
* *Left out.* Columns that are functions of others (rates, averages, durations), and rounding; a lift is a
  numerator and a denominator. A product has one category; months are consecutive numbers.

### `LocalPipeline`

A *run* of a stage is a process; its id is in the path of everything it writes, so a run is the index of its files. A
file is what a reader finds: the whole lines that were flushed, and whether a cut line follows (`rows`, `tail`).

| action | code |
|---|---|
| `Arrive` | new input files, one of the later contents of the directory (`Later`) |
| `OpenBronze`, `CloseBronze` | `run_bronze_backfill`: all input rows through `write_jsonl`, which raises at a row with more fields than its header and leaves the lines before it |
| `ReadBronze` | `run_bronze_to_silver`: every Bronze file there is, `canonicalize_record`, deduplication, the gate |
| `OpenDate`, `CloseDate`, `WriteQuarantine` | one Silver file per date, in order, then the quarantine; the only file of a rejected run |
| `ReadSilver`, `WriteTable`, `FinishGold` | `run_silver_to_gold`: every Silver file of every run, counted as often as it is found; empty tables are skipped |
| `OpenManifest`, `CloseManifest` | `write_manifest`: the file is truncated, then written |
| `Crash` | the death of a run at any step |

* *Parsing.* `Parse`, `Lower`, `Number` are functions from texts to values with the outcomes the code has: no time, a time that raises
  outside the `try` of `canonicalize_record` (`Odd`: out of range in UTC, or a year of fewer than four digits), a blank, no number, NaN. `KeyOf` is the identity (`dedupe_key`) of a row after canonicalization.
* *Steps.* Listing and reading the files of a stage is one step, so is the writing of a quarantine or CSV file
  that no other stage reads, and the Gold gate, which rows that passed the Silver gate cannot fail.
* `reads`, `settled` are history variables: which runs' files a run read, and which of them had succeeded.

### `Benchmark`

| action | code |
|---|---|
| `ChangeInput` | the operator replaces input files between benchmarks |
| `StartScript`, `StartJob` | `run-full-benchmark.sh`: the system benchmark, whole or one job per month, then the processing benchmark; each job is a new process |
| `ReuseStaging`, `ReuseSample`, `DeleteOutput`, `WriteOutput`, `WriteMetadata` | `resolve_benchmark_input`: a staged path, a cached sample with its metadata, or a new one |
| `RunParquetBaseline` | `_run_parquet_baseline`, its quality gate included |
| `ApplyNames` | `_apply_bench_table_names`: the globals of `backfill` name scratch tables from here on |
| `OpenTables`, `AppendBronze`, `AppendSilver` | `_drop_bench_tables`, then `process_bronze_batch` once, or once for each microbatch |
| `JobRaises`, `EndBatchPath`, `WriteReport` | a missing table or path, or the gate; the end of the batch path; the results file |
| `Kill` | `run_with_disk_watchdog`; a write is left with some of its files |
| `CleanFiles`, `CleanRows`, `CleanStops` | `cleanup-benchmark-artifacts.sh`: files first, then catalog rows, or an end between the two |

The thirteen tables of a prefix are one group (`production`, `system`, `batch`, `stream`), a path exists when it is in the
domain of its function, and `names` is the group that the module's globals name. Assumed: one script at
a time, under one run label; a killed job is gone before the next one starts (the watchdog kills `job_pid`, `run-full-benchmark.sh:278`, which
under `docker exec` is the client: the driver may go on, and only `check_spark_idle` holds the next script off); `Selected` samples by
fraction exactly when the cache is on, with one setting and one range of months for the two jobs, so that a fraction without a cache, a row
count that overrides it and separate months (`profile_2month`) are left out; inputs in the local file system; the Parquet baseline and staging enabled; a
sample is a fixed subset (`Kept`) that fraction and seed select; torn metadata counts as none, as
`json.loads` makes of it; `Size >= 2`. Gold, query timings, storage measurements and the expiry of samples are left out.

Mutants are small operators that change one definition as a plausible bug would;
`PROJECT.json` names, for each property of each passing run, one that breaks it.

## 3. Runs

| run | jobs | what it shows |
|---|---|---|
| `Serial` | one at a time, with faults and resets | Silver unique and clean, Bronze hashes appended once, Gold never ahead of Silver and exact but for what is owed, the contract kept at every commit |
| `Overlap` | a backfill and a stream interleaved, with faults | what survives overlap: Silver only holds landed events, succeeded manifests are the truth, the rerun of a succeeded batch commits nothing |
| `RerunAfterFault` | a backfill that fails and is rerun | **violated**: the rerun succeeds, Gold stays stale |

Bounds. `MCMedallion` has one month and two micro-batches over eight rows: a row
repeated inside a batch, an event replayed with other columns, a redelivered
record, an event that breaks a rule, and one without event time; four keys on two
dates. Two dates are enough to tell a partition from the others, two jobs for
every race of a pair, three Gold tables (two incremental, one advanced) for a
failure between tables of each kind and between kinds; `Overlap` keeps one table of
each kind and two batches, because it explores all interleavings with faults. The
number of runs is not bounded: the state space is finite.

None of these needs fairness: they are safety properties. A job may stop at any step,
so deadlock is checked, and there is none.

| run | instance of `StreamQuery` | what it shows |
|---|---|---|
| `StreamServer` | no deadline, `failOnDataLoss`, retention, a poison record, latest offsets, two faults | types; no record is stepped over but those the topic dropped; the query is a `LogReader` |
| `StreamDemo` | both deadlines, `failOnDataLoss` off, retention, resets, one fault, fairness | a committed batch is recorded; a run is recorded as succeeded only when its query has ended, and its summary counts what the checkpoint took; a run with a deadline ends, whichever thread fails |
| `StreamProgress` | no deadline, resets, two faults, a poison record, fairness | every record that is not behind the poison record or within a window of it gets to Silver |

Bounds. `Last` records (2 to 4) with windows of 1, 2 or no limit give one batch in
flight, one committed behind it and one still to come, full and partial; one poison record in the
middle has a neighbour in its batch, before and after, and as the fourth of four it leaves two that no batch shares with it. `MaxFaults` bounds exceptions and
crashes together: two are enough for a failure while recovering from a failure. Starts,
stops and resets are not bounded.

Fairness (`FairSpec`). Both threads are scheduled; time passes, so that a deadline that was asked for
is reached; the driver is started again when it is down, by `Restart=always` of
`ecommerce-streaming.service.template`. This assumes `STREAM_RUN_IN_FOREGROUND=1`: without it, as in the environment files that
are shipped, `start-streaming.sh:71-89` puts the driver in the background and systemd supervises the launcher only. The query thread has to react to a poison record, a
cancelled job or a lost record, but faults are never forced, the producer may stop, and
retention never has to act. Since every wait of either thread is for the other one or for
time, deadlock is checked in all of them, and there is none.

| run | instance | what it shows |
|---|---|---|
| `ChatConversation` | `ChatService`: two browsers, sessions and questions, one of them without a title; Vertex AI, no mock | types; the service is a `Conversation`; titles are true; an answer comes after its question |
| `ChatPatient` | `ChatTab`: two sessions and questions, one call at a time | what is shown was said there, once, in order; the open session is the cookie's; a question without an answer has an error |
| `ChatImpatient` | `ChatTab`: two calls in flight, an impatient user, cookies that expire, fairness | the composer is enabled again; an answer that was shown is stored |

Bounds. Two browsers, sessions and questions give every pair of requests: one session, two sessions of one browser, two
browsers, a session of somebody else. In `ChatConversation` each question runs once and ends, and the system then
stops: deadlock is not checked there; it is checked in the runs of `ChatTab`. A new browser id is
any one of those in no use; there are five, more than the sessions, the questions, the cookie and the other calls can hold.

Fairness (`ChatTab!FairSpec`). Every worker thread and every event of the page is scheduled, and a call of the model, of Trino or of the
database ends, one way or the other (`query_max_execution_time` bounds Trino). The user, lost calls,
storage failures and restarts are free.

| run | what it shows |
|---|---|
| `GoldMarts` | `RefreshIsRebuild`: refreshing dates is rebuilding; `MartsReconcile`: sessions, users, categories and products of a date add up to its funnel and revenue, and a user's path merges the sessions' paths; `DerivedSessions`: the docs' 30 minutes; `EnginesAgree`: on which inputs Spark and the local pipeline give the same marts, and that both score fairly; `MonthsClose`: rows, late ones too, leave the months before theirs alone |
| `LocalPipeline` | `RecordedIsWhole`: what a manifest, whole or torn, stands for; `Lineage`: nothing made up, nothing bad; `GoldCountsRuns`: who reads while others write misses nothing of the runs that had finished, Gold counts an event at least once per finished Silver run, at most once per run it read, once over a single chain; `NothingAfterPoison`: one bad row, odd time or cut line stops every later Silver run |
| `Benchmark` | `ReportTruth`: a report measured the selected rows of the input as it is; `LikeForLike`: both sides of a comparison end with the same rows; `TablesSound`: production is untouched, and a job can drop what a stopped clean-up left |

Bounds. `MCGoldMarts` appends thirteen rows one by one or in pairs in every order: sessions with and without an id, gaps of exactly and of
more than 30 minutes, a session across midnight, one shared by two users, two events of one second, the end of a month, a return
after the RFM window, NULL users, products and prices. `TopProducts` and `TopPairs` are 2, so that cutting off happens; `PadLimit` is 3 instead of 10000, and a user has as many derived sessions on a date,
so that `lpad` cuts a number.
`MCLocal` has two runs of Bronze and of Silver and one of Gold, two at a time, over eight rows (one event
spelled in two ways, no time, an odd time, no user, no price, a NaN price, too many fields): enough for a reader between two writers, for a repeated
stage and for a stage after a dead one. One crash is enough, because no run recovers another's files. `MCBenchmark` has two
runs of the script with all settings and two clean-ups: the second run meets everything that the first one, killed anywhere, left. In
all three, every run ends and the system then stops, so deadlock is not checked. They are safety properties and need no fairness.

### What is false of the code, beyond the violated run

The lines that name an instance and a property are violations TLC finds there; the others are behaviours
of the model that no property excludes. The hazards list most of them where they bite.

* A query that fails while the main thread is not inside `awaitTermination` ends the loop as inactive (`stream:421`), and the run is recorded
  as succeeded, `completed`; `docs/operations.md:92-93` sends whoever looks into a failed run to that manifest. TLC finds it in `StreamServer` when
  `SummaryTruth` is made to demand a query that did not fail.
* `chatbot/backend/README.md:17` promises the mock as a fallback; after a failed Vertex call `llm/client.py:107` returns an empty text, which
  costs the question its answer or leaves it blank (`ChatConversation` with `AllowMock`).
* With `startingOffsets=latest` (`server.env.example:37`), records that are replayed after a reset and before the query has started are never read.

* Overlapping jobs (`Overlap` without faults), `SilverUnique`: both jobs read the keys of Silver before either appends, and both publish
  one event. `GoldReconciles`: two refreshes of one day delete, delete, append, append.
* A poison record (`StreamProgress` with a `Clear` that lets a record behind it in), `EventuallyPublished`: the rejected batch is delivered for
  ever, and the records behind it wait. Nothing writes to the DLQ topic.
* With `failOnDataLoss` off the topic may drop a record between the Bronze and the Silver read of its batch: it stays in Bronze only,
  and the batch commits.
* The unit template does not set `STREAM_RUN_IN_FOREGROUND`, so as shipped a driver that dies is not started again, and
  `EventuallyPublished`, whose fairness assumes that it is, says nothing of it.
* An impatient user (`ChatPatient` with two calls and `Patient = FALSE`), `ViewTruth`: an answer is appended to the session that is shown when
  it arrives. `SessionReachable`: two calls without a cookie get two ids, and the session of the first is lost.
* Vertex AI (`ChatConversation`): rows with a `Decimal` fail the question though every service worked; a session whose rows hold NaN never loads again.
* Feedback is accepted for any message id (`repository.py:165`): SQLite checks no foreign keys unless asked to.
* Gold, Iceberg: derived session numbers of 10000 and more are cut by `lpad` and collide (`GoldMarts`,
  `DerivedSessions` without its exemption for numbers that are cut). Stages of one second are listed by name, a purchase before the view it came from.
* Gold, both engines: sessions are told apart by id in Spark and by user, id and date in the local pipeline, so affinity and times to conversion
  differ for shared, overnight and derived sessions (`EnginesAgree` without `PlainSessions`). The RFM window ends at the last
  purchase in Spark and at the last row in the local pipeline, and two users get 5 and 4 in the one, 5 and 3 in the other.
* Local pipeline: `bronze_to_silver_stream.py:3-4` says it handles newly materialized rows; every run reads all of Bronze again, publishes it under
  its own id, and Gold adds all runs up: a second Silver run doubles Gold (`GoldCountsRuns` says by how much). A file cut off in mid-line
  stops every later reader, one cut off between lines is taken for whole. A CSV row with too many fields leaves a partial Bronze file without a manifest.
  Ids of one date of which some are NULL cannot be sorted: Gold raises and leaves no manifest. A time out of range stops Silver for good instead of going to quarantine. A NaN price passes the gate.
  `kafka_to_bronze` reads a directory that nothing in the repository writes.
* Benchmarks: a descriptor of S3A inputs has no size and no time, so a sample survives a change of its input (`RemoteDescriptor`, a mutant of
  `ReportTruth`); `--reuse-staging` asks only whether the path exists, and such reports are excluded from `ReportTruth`.
* The status events of a question are all sent after its answer is stored (`PostEnds` precedes `OnStatus`): the page never shows work in progress.

## 4. Proofs

All theorems hold for every value of the constants that the named assumptions admit. The first eleven are about `Medallion`'s `Spec`, for any rows, keys, dates, batches,
jobs, modes and number of tables that satisfy `MedallionAssumption`.

* **Any jobs, faults and resets**: `TypeCorrect`, `SilverFromBronzeAlways`,
  `SilverCleanAlways`, `GoldFromSilverAlways`. The invariant (`SilverInv`, `GoldInv`)
  adds to the properties that a reset runs alone and drops Gold, then Silver, then
  Bronze (`ResetAlone`, `GoldBehind`), and that the rows a driver holds past its Bronze
  append have landed (`InputLanded`): what the driver remembers has to match what the
  tables still hold when it commits.
* **Runs that do not overlap** (`~Overlap`): `SilverUniqueSerial`,
  `BronzeHashOnceSerial`, `ContractSerial` (with the gate on), `GoldExactSerial`. The
  strengthening is `Alone` and `StillNew`: what the anti-join found missing is still
  missing at the append; `RefreshInv` says the same of the Gold snapshot and of the
  deleted partitions. Without the assumption these are false, see below.
* **No overlap and no faults**: `GoldReconcilesFaultFree`, by `Paid`, which bounds what a
  refresh still owes at each of its steps. With faults it is false
  (`RerunAfterFault`).
* **Until a reset** (`~MayReset`): `ManifestTruthNoReset`, and `RerunIsNoopNoReset` when
  no two jobs share a batch. `Progress` ties how far a run has got to what is in the
  tables; it survives other jobs because tables then only grow (`Growth`).

About `StreamQuery`'s `Spec`, for every number of records, window, set of poison records,
number of faults and setting of the options, unless said otherwise:

* `StreamTypes`. `TypeOK` is not inductive: `Plan` adds that at most one batch is planned and not
  committed, at which stages of the query thread there is one, when the initial offset is fixed, and which
  stages of the two threads exclude each other; `Landed`, that before the Silver append Bronze has what the topic still has of the batch.
* `NothingSkippedAlways`. `Batch` says, for each stage of the query thread, what the batch in
  hand has done: from the stage `gold` on each of its records is in Silver, or the topic had dropped it and `failOnDataLoss` is off.
* `CommittedIsRecordedAlways`, by `Recorded`: past the stage `gold` the batch in hand has its manifest, and at
  `commit` it has one or had no record left.
* `SummaryTruthAlways`, by `Ended` (main gets to its summary only when the query thread has ended, and only main ends it) and
  `Counted` (what a run counts as done is what the checkpoint took in it, and from the progress line on the batch in hand).
* `ReadsLogWhenLossFails`: with `failOnDataLoss`, a trigger limit, and the checkpoint kept, every step is
  a step of `LogReader` or a stutter. `Ahead` adds that a planned batch is not empty and not longer than the limit.

About `ChatService`'s `ServiceSpec`, for any number of browsers, sessions and questions, with and without a key or the mock:

* `ServiceTypes`, and that every message lies in the session its question was put to. `StoredOf` adds, for each
  step of `run_message`, which of its two messages is stored, and that the session found is still the asker's.
* `KeepsConversationAlways`: every step is a step of `Conversation` or a stutter, by `StoredOf`.
* `TitleTruthAlways`, `TitleSettlesAlways`, which is inductive given the types.
* `QuestionFirstAlways`. `Stamps` says that no message is given a time twice, that an answer gets its time after its question, and which
  of a question's messages have theirs at each step of `run_message`: a time is given before the row is written, and other requests come in between. `HistoryPicks` says what `History` computes from that: the messages of the session up to the latest time, each once, in the order of
  their times. It is an induction over the times (`CountInduction`).

About `ChatTab`'s `Spec`, which composes the page with that service, for any number of browsers, sessions, questions and calls. A stored message is never
changed and the reply in hand is a history the service had when it served the call (`HistoryOf`), so it stays true while it travels (`Grows`).

* `TabTypes`, `ShownIsPersistedAlways` and `NoSilentFailureAlways` assume nothing of the user, who may start a call while others are in flight. `TypesInv`
  adds to the types what each call knows by its kind and phase (`CallOf`): the session of a served post is the one its question was put to, and at
  `back` the question is done. `NothingForgotten`: of a question on the page that neither its answer nor another question follows, a post is in flight or an error is shown.
* `ViewTruthAlways` assumes `Patient`, as the run `ChatPatient` does: the user waits for the call in flight. The invariant `PatientInv` adds that there is
  at most one call (`AtMostOne`), what the page shows while a post is in flight (`Asking`), and that a question of the service was typed (`UserPut`).
* `SessionReachableAlways` assumes `Patient` and that no cookie expires. `CookieInv`: a call not yet served carries the cookie of the jar, a reply
  sets the cookie that its session belongs to (`Cookies`), and the jar is not empty while a session is open (`Reach`). With two calls in flight it is false (section 3).

About `GoldMarts`'s `Spec`, for any finite set of rows, batches and parameters of the builders. `SilverAssumption` says of a row what Silver
guarantees: its id is a hash of it, its time a number, its type one of `ALLOWED_EVENT_TYPES` (`common/dq_checks.py:14`), and user, product and price are
numbers or NULL. `CalendarAssumption`: every date has a month, and months do not run backwards. TLC evaluates both on the instance.

* `RefreshIsRebuildAlways`. Each daily mart is local: restricted to some dates, it is the mart of the rows of those dates
  (`DailyMartsLocal`). Its groups never mix dates (`GroupsOnDates`), and the session derived for a row depends on the rows of its date only
  (`SessionsOnDates`), because the window of `sessionize` is partitioned by date. Deleting the affected dates and appending their rows anew is
  then the same as rebuilding (`PublishRebuilds`).
* `DerivedSessionsAlways`. The rows of a window are totally ordered by time and id, and what `lag` sees is the last row before (`PreviousIs`). So
  no session starts between two rows without an id exactly when they are in one unbroken run, and the running sum gives them one number exactly
  then. The number is at most the count of such rows up to there (`UpTo`), so `lpad` leaves it whole below its limit; from there on
  the property claims nothing of it, as it must (section 3).
* `MartsReconcileAlways`. Sums over sets are built by recursion, so that they add up over a partition is an induction over finite sets (`SumOfParts`,
  `TotalOfParts`, from `FiniteInduction`). The groups of each mart are a partition of the rows of a date; products are only cut off when as many are kept
  as there may be; rows of the session mart and session ids of a user correspond one to one; and a user's path is that of the first stages reached
  in any of the sessions (`SortedEnumeration`, `FirstTouch`).
* `MonthsCloseAlways`, an action property, for any batch. The invariant is `HistoryInv`: if the full refresh is on, the marts of all history are those of
  Silver. A user whose first purchase moves to an earlier date moves to a cohort of the batch's first month or a later one (`CohortsStay`); what a
  user did in an earlier month is in rows that Silver had (`OldActivity`); the times to conversion of a date come from its rows only
  (`TimesOnDates`); and the calendar is monotone.
* `EnginesAgreeAlways`, from `RefreshIsRebuildAlways`. For the scores, integer division is told by the multiples around it (`Quotient`), an ntile by where it ends
  (`Tiles`), and a position is a place in a total order. The engines group rows by different keys that tell the same rows apart
  (`SameGroups`); cohorts are found by the first purchase in time order and by the least date, which are of one month; pairs are counted in
  baskets that are named differently (`PairsRenamed`).

About `LocalPipeline`'s `Spec`, for any rows, dates, runs, buffers and number of crashes that `LocalAssumption` and
`DatesAreDays` admit:

* `LocalTypes`.
* `RecordedIsWholeAlways`, torn manifests included: `BronzeSound` and `SilverSound` say for each program counter what is in a run's files. Silver's
  dates are opened in order and each file is closed before the next is opened (`Ordered`, `LastOpen`), so at the
  manifest all of them are whole (`Published`).
* `LineageAlways` and `GoldCountsRunsAlways`: `InputInv` and `GoldInv` tie what a run read to what is there now. Files only grow, those of a run
  that has succeeded no longer change, and no run changes the rows it read, so that what Gold counted stays between the finished runs and all the
  runs it read that hold the event (`Bounds`).
* `NothingAfterPoisonAlways`, an action property, from the same invariant.

About `Benchmark`'s `Spec`, for any rows, inputs, settings and bounds:

* `TablesSoundAlways`. The properties say what is in the tables, the invariant why: `Renamed`, a job of the system benchmark has its
  group's names from the start and any other has left the production names by the time it gets to its
  tables; `OnlySystem`, only the system group ever loses its files before its rows.
* `ReportTruthAlways`. `Samples`: a sample *with metadata* is that of the input its descriptor names; `Input`: it has none while it is
  written, is whole before it gets them, and what a job past `resolve_benchmark_input` holds is what its settings select.
* `LikeForLikeAlways`. The row numbers from which the microbatches start leave out no row, whatever the size (`Lowers`). `JobLoads` says what a job
  has loaded at each step: Silver counts exactly the keys it holds, and these with the keys of the batches in the queue are the keys of the
  input. Both sides of a comparison therefore end with one count. `BenchmarkAssumption` only asks for finitely many rows with a month each
  and for inputs made of them.

`GoldReconcilesFaultFree` and `TitleSettlesAlways` are theorems about properties that no run lists, because listed ones imply them on the instances.

The prover cannot instantiate an induction theorem whose parameter is an operator. `FiniteInduction` states induction for a property given as a *set*
(the subsets, or the numbers, that have it) and proves it from the well-foundedness of strict inclusion on a finite set. `HistoryPicks`, the sums of the
marts and the enumerations of paths and microbatches use it. Two operators of the models are written so that they can be reasoned about: `PathLabel` and
the months of `SystemJobs` order a set by choosing among its enumerations, not with a sort that the provers cannot expand.

Every invariant and every safety property of steps that a run checks is a theorem above, under the assumptions of its run. Checked by TLC only are
`BoundedRun`, `EventuallyPublished` and `BusyEnds`: they are liveness under fairness, which is out of the prover's reach, and `RerunRecovers`, which is false.

## 5. Limits, and what comes next

Left out of `Medallion`: the manifests of single stages, metrics and logs; the
contents of aggregates beyond which Silver rows they count; benchmark caching.

Left out of `StreamQuery`: the contents of the tables and the retry of single tasks
inside Spark (invisible, since an Iceberg commit is one step); a reset under a running driver, which
belongs to the operations scripts.

Left out of `ChatService` and `ChatTab`: feedback (an insert that nothing reads), which statements the validator accepts
(planned as a pure operator), the choice of a chart, titles beyond the question they come from, health checks.

Left out of `GoldMarts`, `LocalPipeline` and `Benchmark`: what their sections name; `clean_local_state.sh`; `--expire-input-samples`,
which, when it is interrupted, leaves a sample without metadata, as a killed write does; two benchmark scripts at a time, which
`check_spark_idle` lets through between two jobs of one of them.

### Not modelled

* **Replay producer.** A loop over filtered CSV rows that sends asynchronously and flushes at the end. What it means for the lakehouse, records that
  are lost, repeated or in another order, is what the topic of `StreamQuery` and the inputs of `Medallion` already do.
* **Streaming operations.** The pid file, stop and reset of the driver. `StreamQuery` has the restarts of systemd, and a reset of a
  driver that is down; a `StreamingOps` module would show under which interleavings of the scripts it is.
* **Superset bootstrap, Trino SQL, provisioning, the maintenance report.** They call other systems once, in order, or only read.

Next, in this order: a mutual exclusion of drivers and the scripts that implement it (`StreamingOps`), the producer as a filter of a log
(`ReplayProducer`), the manifests of the single stages of `Medallion`, what the SQL validator accepts as a pure operator.
