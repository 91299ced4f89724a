---- MODULE Benchmark ----
(***************************************************************************)
(* run-full-benchmark.sh and the two jobs it submits, one after the other: *)
(* the system benchmark (Parquet against Iceberg) and the processing       *)
(* benchmark (one batch against microbatches), their cached input samples, *)
(* their tables beside the production tables, the disk watchdog that kills *)
(* them, and the clean-up script.  A path of the object store is in the    *)
(* domain of the function that holds its content when it exists; a table is*)
(* in the domain of tables when the catalog has a row for it.  The thirteen*)
(* tables of a prefix are one group; Silver is the set of its keys.        *)
(***************************************************************************)
EXTENDS Integers, Sequences, FiniteSets, SequencesExt, Functions

CONSTANTS Row, KeyOf, MonthOf,
          Invalid,         \* rows that break a critical rule of the Silver gate
          Kept,            \* rows that the fraction and the seed keep
          Content,         \* the rows of the input directory, one version after the other
          BootstrapRows,   \* what a bootstrap path holds
          Size,            \* --microbatch-size
          Plans,           \* settings of the script
          MaxRuns, MaxCleanups   \* bounds

ASSUME BenchmarkAssumption ==
  /\ Size \in Nat \ {0} /\ IsFiniteSet(Row) /\ (\A r \in Row : MonthOf[r] \in Int)
  /\ BootstrapRows \subseteq Row /\ Kept \subseteq Row /\ Invalid \subseteq Row
  /\ \A v \in DOMAIN Content : Content[v] \subseteq Row

VARIABLES version,   \* of the input directory
          data, meta,   \* the cached samples and their metadata, by descriptor
          staged,    \* the staged inputs of the run label
          tables,    \* bronze and silver of each group of tables
          stale,     \* the groups whose files are gone
          names,     \* the group that the globals of the pipeline module name
          plan, todo, job,   \* the script: its settings, the jobs to come, the job that runs
          report,    \* the results file written last
          runs, cleaning, cleanups

vars == <<version, data, meta, staged, tables, stale, names, plan, todo, job, report, runs, cleaning, cleanups>>
script == <<plan, todo, report, runs>>
storage == <<version, cleaning, cleanups>>

Months == {MonthOf[r] : r \in Row}
Skipped == -1
NoJob == [step |-> "none"]
NoReport == [kind |-> "none"]
NoPlan == [none |-> TRUE]
Keys(S) == {KeyOf[r] : r \in S}

\* An input file in S3A enters the descriptor with its name alone ...
RemoteDescriptor(range, v) == [range |-> range, version |-> 1]
\* ... a local one, which is what is modelled, with its size and its time of change.
Descriptor(range, v) == [range |-> range, version |-> v]

RawInput(range, v) == {r \in Content[v] : MonthOf[r] \in range}
Selected(p, range, v) == RawInput(range, v) \cap (IF p.cached THEN Kept ELSE Row)

\* The row numbers from which the microbatches of a total start: range(1, total + 1, Size).
LowersShort(total) == [k \in 1 .. (total + Size - 2) \div Size |-> 1 + (k - 1) * Size]
Lowers(total) == [k \in 1 .. (total + Size - 1) \div Size |-> 1 + (k - 1) * Size]
Microbatches(S) == LET rows == SetToSeq(S)
                       lowers == Lowers(Cardinality(S))
                   IN [k \in DOMAIN lowers |-> {rows[i] : i \in DOMAIN rows \cap (lowers[k] .. lowers[k] + Size - 1)}]

Init == /\ version = 1
        /\ data = <<>> /\ meta = <<>> /\ staged = <<>>
        /\ tables = [g \in {"production"} |-> [bronze |-> Row, silver |-> Keys(Row)]]
        /\ stale = {} /\ names = "production"
        /\ plan = NoPlan /\ todo = <<>> /\ job = NoJob /\ report = NoReport
        /\ runs = 0 /\ cleaning = FALSE /\ cleanups = 0

\* The operator replaces input files while no benchmark runs.
ChangeInput == /\ job = NoJob /\ todo = <<>> /\ version < Len(Content)
               /\ version' = version + 1
               /\ UNCHANGED <<data, meta, staged, tables, stale, names, job, cleaning, cleanups, script>>

(***************************************************************************)
(* The script.                                                             *)
(***************************************************************************)

\* Only the first chunk of a month-chunked run drops the tables.
SystemJobs(p) ==
  IF p.chunked THEN LET months == CHOOSE m \in SetToSeqs(Months) : \A i, j \in DOMAIN m : i < j => m[i] < m[j]
                    IN [i \in DOMAIN months |-> [kind |-> "system", range |-> {months[i]}, drop |-> i = 1]]
  ELSE <<[kind |-> "system", range |-> Months, drop |-> TRUE]>>

StartScript(p) ==
  /\ job = NoJob /\ todo = <<>> /\ runs < MaxRuns
  /\ plan' = p /\ runs' = runs + 1
  /\ todo' = Append(SystemJobs(p), [kind |-> "processing", range |-> Months, drop |-> TRUE])
  /\ UNCHANGED <<data, meta, staged, tables, stale, names, job, report, storage>>

\* A process starts with the names of the production tables.
StartJob ==
  /\ job = NoJob /\ todo # <<>>
  /\ job' = [step |-> "resolve", spec |-> Head(todo), rows |-> {}, counted |-> 0, input |-> 0, reused |-> FALSE,
             boot |-> FALSE, queue |-> <<>>, parquet |-> {}, batch |-> Skipped, written |-> 0]
  /\ todo' = Tail(todo)
  /\ names' = IF Head(todo).kind = "system" THEN "system" ELSE "production"
  /\ UNCHANGED <<data, meta, staged, tables, stale, plan, report, runs, storage>>

\* set -e: the script ends with the job.
Fail == /\ job' = NoJob /\ todo' = <<>> /\ names' = "production"
        /\ UNCHANGED <<plan, report, runs>>

(***************************************************************************)
(* resolve_benchmark_input.                                                *)
(***************************************************************************)

At(step) == job.step = step
Suffix == <<job.spec.kind, job.spec.range>>
Cached == Descriptor(job.spec.range, version)
Without(f, x) == Restrict(f, DOMAIN f \ {x})
With(f, x, y) == [z \in DOMAIN f \cup {x} |-> IF z = x THEN y ELSE f[z]]
Reusable == plan.reuse /\ Suffix \in DOMAIN staged

ReuseStaging ==
  /\ At("resolve") /\ Reusable
  /\ job' = [job EXCEPT !.step = "measure", !.rows = staged[Suffix], !.reused = TRUE,
                        !.counted = Cardinality(staged[Suffix]), !.input = Cardinality(staged[Suffix])]
  /\ UNCHANGED <<data, meta, staged, tables, stale, names, script, storage>>

SampleReady == Cached \in DOMAIN data /\ Cached \in DOMAIN meta

ReuseSample ==
  /\ At("resolve") /\ ~Reusable /\ plan.cached /\ SampleReady
  /\ job' = [job EXCEPT !.step = "measure", !.rows = data[Cached], !.counted = meta[Cached].count,
                        !.input = meta[Cached].input, !.boot = meta[Cached].boot]
  /\ UNCHANGED <<data, meta, staged, tables, stale, names, script, storage>>

\* delete_output_path of the sample, or of the staging path.
DeleteOutput ==
  /\ At("resolve") /\ ~Reusable /\ ~(plan.cached /\ SampleReady)
  /\ job' = [job EXCEPT !.step = "write"]
  /\ IF plan.cached THEN data' = Without(data, Cached) /\ meta' = Without(meta, Cached) /\ UNCHANGED staged
                    ELSE staged' = Without(staged, Suffix) /\ UNCHANGED <<data, meta>>
  /\ UNCHANGED <<tables, stale, names, script, storage>>

\* Only the system benchmark is given the bootstrap path.
UsesBootstrap == plan.cached /\ plan.boot /\ job.spec.kind = "system"
ToWrite == IF UsesBootstrap THEN BootstrapRows ELSE Selected(plan, job.spec.range, version)
InputCount == IF UsesBootstrap THEN 0 ELSE Cardinality(RawInput(job.spec.range, version))

\* What a write leaves at its path: all of it, or some of its files when it is killed.
Leave(S) == IF plan.cached THEN data' = With(data, Cached, S) /\ UNCHANGED staged
                           ELSE staged' = With(staged, Suffix, S) /\ UNCHANGED data

WriteOutput ==
  /\ At("write")
  /\ Leave(ToWrite)
  /\ job' = [job EXCEPT !.step = IF plan.cached THEN "metadata" ELSE "measure", !.rows = ToWrite,
                        !.counted = Cardinality(ToWrite), !.input = InputCount, !.boot = UsesBootstrap]
  /\ UNCHANGED <<meta, tables, stale, names, script, storage>>

WriteMetadata ==
  /\ At("metadata")
  /\ meta' = With(meta, Cached, [count |-> job.counted, input |-> job.input, boot |-> job.boot])
  /\ job' = [job EXCEPT !.step = "measure"]
  /\ UNCHANGED <<data, staged, tables, stale, names, script, storage>>

(***************************************************************************)
(* The tables.  Every statement names them through the globals.            *)
(***************************************************************************)

\* The input is a path, and is read again by every action on it.
InputThere == (plan.cached /\ ~job.reused) \/ Suffix \in DOMAIN staged
\* DROP TABLE raises when the files are gone; the system benchmark then purges the row.
Droppable(g) == g \notin stale \/ g = "system"
Create(T, g) == IF g \in DOMAIN T THEN T ELSE With(T, g, [bronze |-> {}, silver |-> {}])
QueueOf(g) == IF g = "stream" THEN Microbatches(job.rows) ELSE <<job.rows>>
AfterMeasure == IF job.spec.kind = "system" THEN "tables" ELSE "names"

\* The quality gate of Silver, which the baseline has too.
Gate(rows) == rows \cap Invalid = {}

\* The Parquet baseline of the system benchmark: it deletes its own warehouse first.
RunParquetBaseline ==
  /\ At("measure") /\ InputThere /\ (job.spec.kind = "system" => Gate(job.rows))
  /\ job' = [job EXCEPT !.step = AfterMeasure,
                        !.parquet = IF job.spec.kind = "system" THEN Keys(job.rows) ELSE {}]
  /\ UNCHANGED <<data, meta, staged, tables, stale, names, script, storage>>

NamesKept == IF names = "production" /\ plan.batch THEN "batch" ELSE names
NextGroup == IF names = "production" /\ plan.batch THEN "batch" ELSE "stream"
\* _apply_bench_table_names, at the start of each path of the processing benchmark.
ApplyNames ==
  /\ At("names")
  /\ names' = NextGroup
  /\ job' = [job EXCEPT !.step = "tables"]
  /\ UNCHANGED <<data, meta, staged, tables, stale, script, storage>>

OpenTables ==
  /\ At("tables") /\ (names \in stale => job.spec.drop /\ Droppable(names))
  /\ tables' = Create(IF job.spec.drop THEN Without(tables, names) ELSE tables, names)
  /\ stale' = stale \ {names}
  /\ job' = [job EXCEPT !.step = "bronze", !.queue = QueueOf(names)]
  /\ UNCHANGED <<data, meta, staged, names, script, storage>>

\* process_bronze_batch, once for each element of the queue: all rows go to Bronze ...
AppendBronze ==
  /\ At("bronze") /\ job.queue # <<>> /\ InputThere /\ names \in DOMAIN tables \ stale
  /\ tables' = [tables EXCEPT ![names].bronze = @ \cup Head(job.queue)]
  /\ job' = [job EXCEPT !.step = "silver"]
  /\ UNCHANGED <<data, meta, staged, stale, names, script, storage>>

\* ... and the keys that Silver does not have to Silver, when the gate lets them.
AppendSilver ==
  /\ At("silver") /\ Gate(Head(job.queue)) /\ InputThere /\ names \in DOMAIN tables \ stale
  /\ tables' = [tables EXCEPT ![names].silver = @ \cup Keys(Head(job.queue))]
  /\ job' = [job EXCEPT !.step = "bronze", !.queue = Tail(@),
                        !.written = @ + Cardinality(Keys(Head(job.queue)) \ tables[names].silver)]
  /\ UNCHANGED <<data, meta, staged, stale, names, script, storage>>

\* A missing table or input, or the gate, raises: the job ends without a report.
JobRaises ==
  /\ \/ At("tables") /\ names \in stale /\ ~(job.spec.drop /\ Droppable(names))
     \/ job.step \in {"bronze", "silver"} /\ names \notin DOMAIN tables \ stale
     \/ job.step \in {"measure", "bronze", "silver"} /\ ~InputThere
     \/ At("measure") /\ job.spec.kind = "system" /\ ~Gate(job.rows)
     \/ At("silver") /\ ~Gate(Head(job.queue))
  /\ Fail
  /\ UNCHANGED <<data, meta, staged, tables, stale, storage>>

\* The batch path is over: its figures are kept, the streaming path begins.
EndBatchPath ==
  /\ At("bronze") /\ job.queue = <<>> /\ names = "batch"
  /\ job' = [job EXCEPT !.step = "names", !.batch = job.written, !.written = 0]
  /\ UNCHANGED <<data, meta, staged, tables, stale, names, script, storage>>

WriteReport ==
  /\ At("bronze") /\ job.queue = <<>> /\ names # "batch"
  /\ report' = [kind |-> job.spec.kind, range |-> job.spec.range, version |-> version, fresh |-> job.spec.drop,
                rows |-> job.rows, counted |-> job.counted, input |-> job.input,
                reused |-> job.reused, boot |-> job.boot, parquet |-> job.parquet, batch |-> job.batch,
                written |-> job.written]
  /\ job' = NoJob /\ names' = "production"
  /\ UNCHANGED <<data, meta, staged, tables, stale, plan, todo, runs, storage>>

(***************************************************************************)
(* Faults and clean-up.                                                    *)
(***************************************************************************)

\* run_with_disk_watchdog kills the job; a write is left with some of its files.
Kill ==
  /\ job # NoJob
  /\ IF At("write") THEN \E S \in SUBSET ToWrite : Leave(S) ELSE UNCHANGED <<data, staged>>
  /\ Fail
  /\ UNCHANGED <<meta, tables, stale, storage>>

BenchGroups == {"system", "batch", "stream"}
CleanedGroups == {"system"}
\* cleanup-benchmark-artifacts.sh: the files of the system tables and the staged inputs first ...
CleanFiles ==
  /\ ~cleaning /\ cleanups < MaxCleanups
  /\ stale' = stale \cup (CleanedGroups \cap DOMAIN tables)
  /\ staged' = <<>>
  /\ cleaning' = TRUE /\ cleanups' = cleanups + 1
  /\ UNCHANGED <<version, data, meta, tables, names, job, script>>

\* ... then the catalog rows of all tables named bench_% ...
CleanRows ==
  /\ cleaning
  /\ tables' = Restrict(tables, DOMAIN tables \ BenchGroups)
  /\ stale' = stale \ BenchGroups
  /\ cleaning' = FALSE
  /\ UNCHANGED <<version, data, meta, staged, names, job, script, cleanups>>

\* ... unless the script is stopped, or Postgres is not up.
CleanStops ==
  /\ cleaning
  /\ cleaning' = FALSE
  /\ UNCHANGED <<version, data, meta, staged, tables, stale, names, job, script, cleanups>>

Next == \/ ChangeInput \/ (\E p \in Plans : StartScript(p)) \/ StartJob
        \/ ReuseStaging \/ ReuseSample \/ DeleteOutput \/ WriteOutput \/ WriteMetadata
        \/ RunParquetBaseline \/ ApplyNames \/ OpenTables \/ AppendBronze \/ AppendSilver \/ JobRaises
        \/ EndBatchPath \/ WriteReport \/ Kill \/ CleanFiles \/ CleanRows \/ CleanStops

Spec == Init /\ [][Next]_vars

(***************************************************************************)
(* What a reader of the results relies on.                                 *)
(***************************************************************************)

\* A report that names neither a reused staging path nor a bootstrap path measured the rows
\* the settings select from the input directory as it is now, and counted them right: no killed
\* write, earlier run or changed input shows in it (resolve_benchmark_input and its cache).
ReportTruth ==
  [][report' # report /\ ~report'.reused /\ ~report'.boot =>
       /\ report'.rows = Selected(plan, report'.range, version)
       /\ report'.counted = Cardinality(report'.rows)
       /\ report'.input = Cardinality(RawInput(report'.range, version))]_vars

\* What a benchmark compares is alike: on fresh tables Iceberg writes as many Silver rows as the
\* Parquet baseline, and microbatches as many as one batch (_run_parquet_baseline, _run_batch_path,
\* _run_streaming_path).
LikeForLike ==
  /\ report.kind = "system" /\ report.fresh => report.written = Cardinality(report.parquet)
  /\ report.kind = "processing" => report.batch \in {report.written, Skipped}
  /\ report.kind = "processing" => report.written = Cardinality(Keys(report.rows))

\* No job, killed or not, and no clean-up touches the production tables, though every statement
\* names its tables through globals that start as theirs (_apply_bench_table_names); and whatever
\* a stopped clean-up left, a job that drops its tables can: only those of the system benchmark
\* lose their files before their rows, and it purges such rows (_drop_bench_tables).
TablesSound ==
  /\ tables["production"] = [bronze |-> Row, silver |-> Keys(Row)] /\ "production" \notin stale
  /\ At("tables") /\ job.spec.drop => Droppable(names)
====
