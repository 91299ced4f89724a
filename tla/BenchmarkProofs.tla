---- MODULE BenchmarkProofs ----
(* What holds of the benchmarks for any rows, settings, inputs and bounds. *)
EXTENDS Benchmark, FiniteInduction, TLAPS

-----------------------------------------------------------------------------
(* The tables. *)

Fields == {"step", "spec", "rows", "counted", "input", "reused", "boot", "queue", "parquet", "batch", "written"}
Busy == job.step # "none"

\* A job of the system benchmark uses its group throughout; another one has left the names of the
\* production tables when it gets to its tables.
Renamed == /\ job = NoJob \/ DOMAIN job = Fields
           /\ Busy => ((job.spec.kind = "system") <=> (names = "system"))
           /\ job.step = "names" => names # "system"
           /\ job.step \in {"tables", "bronze", "silver"} => names # "production"
Untouched == "production" \in DOMAIN tables /\ tables["production"] = [bronze |-> Row, silver |-> Keys(Row)]
OnlySystem == stale \subseteq {"system"}
TablesInv == Renamed /\ Untouched /\ OnlySystem

LEMMA TablesInit == Init => TablesInv
<1> SUFFICES ASSUME Init PROVE TablesInv
  OBVIOUS
<1>1. Renamed
  BY DEF Init, Renamed, NoJob, Busy
<1>2. Untouched
  BY DEF Init, Untouched
<1>3. OnlySystem
  BY DEF Init, OnlySystem
<1> QED
  BY <1>1, <1>2, <1>3 DEF TablesInv

\* Steps within resolve_benchmark_input change neither the names nor the tables.
LEMMA RenamedStep ==
  ASSUME TablesInv, [Next]_vars
  PROVE  Renamed'
<1> USE DEF TablesInv, Renamed, Busy, At, NoJob, Fields, script, storage, Fail
<1>1. ASSUME ChangeInput PROVE Renamed'
  BY <1>1 DEF ChangeInput
<1>2. ASSUME NEW p \in Plans, StartScript(p) PROVE Renamed'
  BY <1>2 DEF StartScript
<1>3. ASSUME StartJob PROVE Renamed'
  BY <1>3 DEF StartJob
<1>4. ASSUME ReuseStaging PROVE Renamed'
  BY <1>4 DEF ReuseStaging
<1>5. ASSUME ReuseSample PROVE Renamed'
  BY <1>5 DEF ReuseSample
<1>6. ASSUME DeleteOutput PROVE Renamed'
  BY <1>6 DEF DeleteOutput
<1>7. ASSUME WriteOutput PROVE Renamed'
  BY <1>7 DEF WriteOutput
<1>8. ASSUME WriteMetadata PROVE Renamed'
  BY <1>8 DEF WriteMetadata
<1>9. ASSUME RunParquetBaseline PROVE Renamed'
  BY <1>9 DEF RunParquetBaseline, AfterMeasure
<1>10. ASSUME ApplyNames PROVE Renamed'
  <2>1. NextGroup \in {"batch", "stream"}
    BY Zenon DEF NextGroup
  <2> QED
    BY <1>10, <2>1 DEF ApplyNames
<1>11. ASSUME OpenTables PROVE Renamed'
  BY <1>11 DEF OpenTables
<1>12. ASSUME AppendBronze PROVE Renamed'
  BY <1>12 DEF AppendBronze
<1>13. ASSUME AppendSilver PROVE Renamed'
  BY <1>13 DEF AppendSilver
<1>14. ASSUME JobRaises PROVE Renamed'
  BY <1>14 DEF JobRaises
<1>15. ASSUME EndBatchPath PROVE Renamed'
  BY <1>15 DEF EndBatchPath
<1>16. ASSUME WriteReport PROVE Renamed'
  BY <1>16 DEF WriteReport
<1>17. ASSUME Kill PROVE Renamed'
  BY <1>17 DEF Kill
<1>18. ASSUME CleanFiles \/ CleanRows \/ CleanStops PROVE Renamed'
  BY <1>18 DEF CleanFiles, CleanRows, CleanStops
<1>19. ASSUME UNCHANGED vars PROVE Renamed'
  BY <1>19 DEF vars
<1> HIDE DEF TablesInv, Renamed
<1> QED
  BY <1>1, <1>2, <1>3, <1>4, <1>5, <1>6, <1>7, <1>8, <1>9, <1>10, <1>11, <1>12, <1>13, <1>14, <1>15,
     <1>16, <1>17, <1>18, <1>19 DEF Next

\* Only the steps that open and fill tables and the clean-up touch them.
LEMMA TablesStep ==
  ASSUME TablesInv, [Next]_vars
  PROVE  Untouched' /\ OnlySystem'
<1>1. Untouched /\ OnlySystem /\ Renamed
  BY DEF TablesInv
<1>2. CASE OpenTables
  <2>1. names # "production"
    BY <1>1, <1>2 DEF Renamed, OpenTables, At
  <2> DEFINE T == IF job.spec.drop THEN Without(tables, names) ELSE tables
  <2>2. "production" \in DOMAIN T /\ T["production"] = tables["production"]
    BY <1>1, <2>1 DEF Without, Restrict, Untouched
  <2>3. "production" \in DOMAIN Create(T, names) /\ Create(T, names)["production"] = T["production"]
    BY <2>1, <2>2 DEF Create, With
  <2>4. tables' = Create(T, names) /\ stale' = stale \ {names}
    BY <1>2 DEF OpenTables
  <2> QED
    BY <1>1, <2>2, <2>3, <2>4 DEF Untouched, OnlySystem
<1>3. CASE AppendBronze \/ AppendSilver
  <2>1. names # "production" /\ stale' = stale
    BY <1>1, <1>3 DEF Renamed, AppendBronze, AppendSilver, At
  <2>2. DOMAIN tables' = DOMAIN tables /\ (\A g \in DOMAIN tables : g # names => tables'[g] = tables[g])
    BY <1>3 DEF AppendBronze, AppendSilver
  <2> QED
    BY <1>1, <2>1, <2>2 DEF Untouched, OnlySystem
<1>4. CASE CleanFiles
  BY <1>1, <1>4 DEF CleanFiles, CleanedGroups, Untouched, OnlySystem
<1>5. CASE CleanRows
  BY <1>1, <1>5 DEF CleanRows, BenchGroups, Restrict, Untouched, OnlySystem
<1>6. CASE UNCHANGED <<tables, stale>>
  BY <1>1, <1>6 DEF Untouched, OnlySystem
<1>7. \/ OpenTables \/ AppendBronze \/ AppendSilver \/ CleanFiles \/ CleanRows
      \/ UNCHANGED <<tables, stale>>
  BY DEF Next, vars, ChangeInput, StartScript, StartJob, ReuseStaging, ReuseSample, DeleteOutput, WriteOutput,
     WriteMetadata, RunParquetBaseline, ApplyNames, JobRaises, EndBatchPath, WriteReport, Kill, CleanStops
<1> QED
  BY <1>2, <1>3, <1>4, <1>5, <1>6, <1>7

LEMMA TablesInvSound == TablesInv => TablesSound
BY DEF TablesInv, Untouched, OnlySystem, TablesSound, Droppable

\* No job and no clean-up, stopped anywhere, touches the production tables, and every job that
\* drops its tables can, for any settings and any number of runs.
THEOREM TablesSoundAlways == Spec => []TablesSound
<1>1. TablesInv /\ [Next]_vars => TablesInv'
  BY RenamedStep, TablesStep DEF TablesInv
<1> QED
  BY TablesInit, <1>1, TablesInvSound, PTL DEF Spec

-----------------------------------------------------------------------------
(* What a report measured. *)

Resolved == {"measure", "names", "tables", "bronze", "silver"}
Exact == /\ job.rows = Selected(plan, job.spec.range, version)
         /\ job.counted = Cardinality(job.rows)
         /\ job.input = Cardinality(RawInput(job.spec.range, version))

\* A sample with its metadata is that of the input its descriptor names.
Sampled(d) == ~meta[d].boot =>
                /\ data[d] = RawInput(d.range, d.version) \cap Kept
                /\ meta[d].count = Cardinality(data[d])
                /\ meta[d].input = Cardinality(RawInput(d.range, d.version))
Samples == \A d \in DOMAIN data \cap DOMAIN meta : Sampled(d)

\* A sample has no metadata while it is written, and is whole before it gets them.
Input == /\ job = NoJob \/ DOMAIN job = Fields
         /\ job.step \in Resolved /\ ~job.reused /\ ~job.boot => Exact
         /\ At("write") /\ plan.cached => Cached \notin DOMAIN meta
         /\ At("metadata") => plan.cached /\ data[Cached] = job.rows /\ (~job.boot => Exact)
ReportInv == Input /\ Samples

LEMMA ReportInit == Init => ReportInv
<1> SUFFICES ASSUME Init PROVE ReportInv
  OBVIOUS
<1>1. Input
  BY DEF Init, Input, NoJob, Resolved, At
<1>2. Samples
  BY DEF Init, Samples
<1> QED
  BY <1>1, <1>2 DEF ReportInv

\* A step of a job that leaves its input alone.
LEMMA InputKept ==
  ASSUME Input, job # NoJob, DOMAIN job' = Fields, job.step \in Resolved, job'.step \in Resolved,
         UNCHANGED <<plan, version, job.spec, job.rows, job.counted, job.input, job.reused, job.boot>>
  PROVE  Input'
BY DEF Input, Exact, At, Resolved, Selected, RawInput

LEMMA InputStep ==
  ASSUME ReportInv, [Next]_vars
  PROVE  Input'
<1>i. Input /\ Samples
  BY DEF ReportInv
<1>1. CASE job' = NoJob
  BY <1>1 DEF Input, NoJob, At, Resolved
<1>2. CASE StartJob
  BY <1>2 DEF StartJob, Input, Fields, At, Resolved
<1>3. CASE ReuseStaging
  BY <1>i, <1>3 DEF ReuseStaging, Input, Fields, NoJob, At, Resolved
<1>4. CASE ReuseSample
  <2>1. Cached.range = job.spec.range /\ Cached.version = version
    BY DEF Cached, Descriptor
  <2>2. Sampled(Cached) /\ plan.cached
    BY <1>i, <1>4 DEF ReuseSample, SampleReady, Samples
  <2>3. job # NoJob /\ DOMAIN job = Fields
    BY <1>i, <1>4 DEF ReuseSample, Input, NoJob, At
  <2>4. /\ DOMAIN job' = Fields /\ job'.step = "measure" /\ job'.spec = job.spec /\ job'.rows = data[Cached]
        /\ job'.counted = meta[Cached].count /\ job'.input = meta[Cached].input /\ job'.boot = meta[Cached].boot
        /\ UNCHANGED <<plan, version>>
    BY <1>4, <2>3 DEF ReuseSample, Fields, script, storage
  <2>5. ~job'.boot => Exact'
    BY <2>1, <2>2, <2>4 DEF Sampled, Exact, Selected, RawInput
  <2> QED
    BY <2>4, <2>5 DEF Input, At, Resolved
<1>5. CASE DeleteOutput
  <2>1. job # NoJob /\ DOMAIN job = Fields
    BY <1>i, <1>5 DEF DeleteOutput, Input, NoJob, At
  <2>2. DOMAIN job' = Fields /\ job'.step = "write" /\ job'.spec = job.spec /\ UNCHANGED <<plan, version>>
    BY <1>5, <2>1 DEF DeleteOutput, Fields, script, storage
  <2>3. plan.cached => Cached \notin DOMAIN meta'
    BY <1>5 DEF DeleteOutput, Without, Restrict
  <2> QED
    BY <2>2, <2>3 DEF Input, At, Resolved, Cached
<1>6. CASE WriteOutput
  <2>1. job # NoJob /\ DOMAIN job = Fields
    BY <1>i, <1>6 DEF WriteOutput, Input, NoJob, At
  <2>2. /\ DOMAIN job' = Fields /\ job'.spec = job.spec /\ job'.rows = ToWrite /\ job'.counted = Cardinality(ToWrite)
        /\ job'.input = InputCount /\ job'.boot = UsesBootstrap /\ UNCHANGED <<plan, version>>
        /\ job'.step = IF plan.cached THEN "metadata" ELSE "measure"
    BY <1>6, <2>1 DEF WriteOutput, Fields, script, storage
  <2>3. CASE UsesBootstrap
    <3>1. plan.cached /\ job'.boot /\ job'.step = "metadata"
      BY <2>2, <2>3 DEF UsesBootstrap
    <3>2. data'[Cached] = ToWrite
      BY <1>6, <3>1 DEF WriteOutput, Leave, With
    <3> QED
      BY <2>2, <3>1, <3>2 DEF Input, At, Resolved, Cached
  <2>4. CASE ~UsesBootstrap
    <3>1. ToWrite = Selected(plan, job.spec.range, version) /\ InputCount = Cardinality(RawInput(job.spec.range, version))
      BY <2>4 DEF ToWrite, InputCount
    <3>2. Exact'
      BY <2>2, <3>1 DEF Exact, Selected, RawInput
    <3>3. plan.cached => data'[Cached] = ToWrite
      BY <1>6 DEF WriteOutput, Leave, With
    <3> QED
      BY <2>2, <3>2, <3>3 DEF Input, At, Resolved, Cached
  <2> QED
    BY <2>3, <2>4
<1>7. CASE WriteMetadata
  <2>1. job # NoJob /\ DOMAIN job = Fields /\ (~job.boot => Exact)
    BY <1>i, <1>7 DEF WriteMetadata, Input, NoJob, At
  <2>2. /\ DOMAIN job' = Fields /\ job'.step = "measure"
        /\ UNCHANGED <<plan, version, job.spec, job.rows, job.counted, job.input, job.boot>>
    BY <1>7, <2>1 DEF WriteMetadata, Fields, script, storage
  <2> QED
    BY <2>1, <2>2 DEF Input, Exact, At, Resolved, Selected, RawInput
<1>8. CASE RunParquetBaseline \/ ApplyNames \/ OpenTables \/ AppendBronze \/ AppendSilver \/ EndBatchPath
  <2>1. job.step \in Resolved
    BY <1>8 DEF RunParquetBaseline, ApplyNames, OpenTables, AppendBronze, AppendSilver, EndBatchPath, At, Resolved
  <2>2. job # NoJob /\ DOMAIN job = Fields
    BY <1>i, <2>1 DEF Input, NoJob, Resolved
  <2>3. DOMAIN job' = Fields /\ job'.step \in Resolved
        /\ UNCHANGED <<plan, version, job.spec, job.rows, job.counted, job.input, job.reused, job.boot>>
    BY <1>8, <2>2 DEF RunParquetBaseline, ApplyNames, OpenTables, AppendBronze, AppendSilver, EndBatchPath,
       AfterMeasure, Fields, Resolved, script, storage
  <2> QED
    BY <1>i, <2>1, <2>2, <2>3, InputKept
<1>9. CASE job = NoJob /\ UNCHANGED job
  BY <1>9 DEF Input, NoJob, At, Resolved
<1>10. CASE CleanFiles \/ CleanRows \/ CleanStops \/ UNCHANGED vars
  BY <1>i, <1>10 DEF CleanFiles, CleanRows, CleanStops, vars, script, storage, Input, Exact, At, Resolved, Cached,
     Descriptor, Selected, RawInput
<1>11. \/ job' = NoJob \/ StartJob \/ ReuseStaging \/ ReuseSample \/ DeleteOutput \/ WriteOutput \/ WriteMetadata
       \/ RunParquetBaseline \/ ApplyNames \/ OpenTables \/ AppendBronze \/ AppendSilver \/ EndBatchPath
       \/ (job = NoJob /\ UNCHANGED job)
       \/ CleanFiles \/ CleanRows \/ CleanStops \/ UNCHANGED vars
  BY DEF Next, ChangeInput, StartScript, JobRaises, WriteReport, Kill, Fail
<1> QED
  BY <1>1, <1>2, <1>3, <1>4, <1>5, <1>6, <1>7, <1>8, <1>9, <1>10, <1>11

LEMMA SamplesStep ==
  ASSUME ReportInv, [Next]_vars
  PROVE  Samples'
<1>i. Input /\ Samples
  BY DEF ReportInv
<1>1. CASE UNCHANGED <<data, meta>>
  BY <1>i, <1>1 DEF Samples, Sampled, RawInput
<1>2. CASE DeleteOutput
  BY <1>i, <1>2 DEF DeleteOutput, Without, Restrict, Samples, Sampled, RawInput
<1>3. CASE WriteOutput \/ Kill
  <2>1. UNCHANGED meta
    BY <1>3 DEF WriteOutput, Kill
  <2>2. \/ UNCHANGED data
        \/ plan.cached /\ At("write") /\ \E S : data' = With(data, Cached, S)
    BY <1>3 DEF WriteOutput, Kill, Leave
  <2>3. CASE UNCHANGED data
    BY <1>1, <2>1, <2>3
  <2>4. CASE plan.cached /\ At("write") /\ \E S : data' = With(data, Cached, S)
    <3>1. Cached \notin DOMAIN meta
      BY <1>i, <2>4 DEF Input
    <3>2. \A d \in DOMAIN data' \cap DOMAIN meta : d \in DOMAIN data /\ data'[d] = data[d]
      BY <2>4, <3>1 DEF With
    <3> QED
      BY <1>i, <2>1, <3>2 DEF Samples, Sampled, RawInput
  <2> QED
    BY <2>2, <2>3, <2>4
<1>4. CASE WriteMetadata
  <2>1. data[Cached] = job.rows /\ plan.cached /\ (~job.boot => Exact)
    BY <1>i, <1>4 DEF Input, WriteMetadata
  <2>2. UNCHANGED data /\ meta' = With(meta, Cached, [count |-> job.counted, input |-> job.input, boot |-> job.boot])
    BY <1>4 DEF WriteMetadata
  <2>3. \A d \in DOMAIN meta' : d # Cached => d \in DOMAIN meta /\ meta'[d] = meta[d]
    BY <2>2 DEF With
  <2>4. meta'[Cached].count = job.counted /\ meta'[Cached].input = job.input /\ meta'[Cached].boot = job.boot
    BY <2>2 DEF With
  <2>5. ~job.boot => /\ data'[Cached] = RawInput(Cached.range, Cached.version) \cap Kept
                     /\ meta'[Cached].count = Cardinality(data'[Cached])
                     /\ meta'[Cached].input = Cardinality(RawInput(Cached.range, Cached.version))
    BY <2>1, <2>2, <2>4 DEF Exact, Selected, Cached, Descriptor
  <2>6. ASSUME NEW d \in DOMAIN data' \cap DOMAIN meta' PROVE Sampled(d)'
    <3>1. CASE d = Cached
      BY <2>4, <2>5, <3>1 DEF Sampled, RawInput
    <3>2. CASE d # Cached
      BY <1>i, <2>2, <2>3, <3>2 DEF Samples, Sampled, RawInput
    <3> QED
      BY <3>1, <3>2
  <2> QED
    BY <2>6 DEF Samples
<1>5. UNCHANGED <<data, meta>> \/ DeleteOutput \/ WriteOutput \/ Kill \/ WriteMetadata
  BY DEF Next, vars, ChangeInput, StartScript, StartJob, ReuseStaging, ReuseSample, RunParquetBaseline, ApplyNames,
     OpenTables, AppendBronze, AppendSilver, JobRaises, EndBatchPath, WriteReport, CleanFiles, CleanRows, CleanStops
<1> QED
  BY <1>1, <1>2, <1>3, <1>4, <1>5

\* Whatever runs were killed before it and however the input changed, a report tells what its run
\* measured, and what it measured is what the settings select from the input.
THEOREM ReportTruthAlways == Spec => ReportTruth
<1>1. ReportInv /\ [Next]_vars => ReportInv'
  BY InputStep, SamplesStep DEF ReportInv
<1>2. ASSUME ReportInv, [Next]_vars, report' # report, ~report'.reused, ~report'.boot
      PROVE  /\ report'.rows = Selected(plan, report'.range, version)
             /\ report'.counted = Cardinality(report'.rows)
             /\ report'.input = Cardinality(RawInput(report'.range, version))
  <2>1. WriteReport
    BY <1>2 DEF Next, vars, script, Fail, ChangeInput, StartScript, StartJob, ReuseStaging, ReuseSample, DeleteOutput,
       WriteOutput, WriteMetadata, RunParquetBaseline, ApplyNames, OpenTables, AppendBronze, AppendSilver, JobRaises,
       EndBatchPath, Kill, CleanFiles, CleanRows, CleanStops
  <2>2. /\ report'.rows = job.rows /\ report'.counted = job.counted /\ report'.input = job.input
        /\ report'.range = job.spec.range /\ report'.reused = job.reused /\ report'.boot = job.boot
        /\ job.step \in Resolved
    BY <2>1 DEF WriteReport, At, Resolved
  <2>3. Exact
    BY <1>2, <2>2 DEF ReportInv, Input
  <2> QED
    BY <2>2, <2>3 DEF Exact
<1>3. ReportInv /\ [Next]_vars =>
        [report' # report /\ ~report'.reused /\ ~report'.boot =>
           /\ report'.rows = Selected(plan, report'.range, version)
           /\ report'.counted = Cardinality(report'.rows)
           /\ report'.input = Cardinality(RawInput(report'.range, version))]_vars
  BY <1>2
<1> QED
  BY ReportInit, <1>1, <1>3, PTL DEF Spec, ReportTruth

-----------------------------------------------------------------------------
(* Microbatches. *)

\* Groups of Size numbers in a row: number i is in the group after as many full ones as come before it.
LEMMA Groupings ==
  ASSUME NEW n \in Nat, NEW i \in 1 .. n
  PROVE  \E k \in 1 .. (n + Size - 1) \div Size : i \in 1 + (k - 1) * Size .. 1 + (k - 1) * Size + Size - 1
<1> DEFINE q == (i - 1) \div Size
           r == (i - 1) % Size
           m == (n + Size - 1) \div Size
           s == (n + Size - 1) % Size
           In(k) == i \in 1 + (k - 1) * Size .. 1 + (k - 1) * Size + Size - 1
<1>1. Size \in Nat /\ Size > 0 /\ i \in Nat /\ i > 0 /\ i <= n
  BY BenchmarkAssumption
<1>2. /\ q \in Int /\ r \in Int /\ i - 1 = Size * q + r /\ 0 <= r /\ r < Size
      /\ m \in Int /\ s \in Int /\ n + Size - 1 = Size * m + s /\ 0 <= s /\ s < Size
  BY <1>1
<1> HIDE DEF q, r, m, s
<1>3. q >= 0
  <2>1. CASE q <= -1
    <3>1. Size * q <= -Size
      BY <1>1, <1>2, <2>1
    <3> QED
      BY <1>1, <1>2, <3>1
  <2> QED
    BY <1>2, <2>1
<1>4. q < m
  <2>1. CASE q >= m
    <3>1. Size * q >= Size * m
      BY <1>1, <1>2, <2>1
    <3> QED
      BY <1>1, <1>2, <3>1
  <2> QED
    BY <1>2, <2>1
<1>5. (q + 1 - 1) * Size = Size * q
  BY <1>1, <1>2
<1>6. q + 1 \in 1 .. m /\ In(q + 1)
  <2>1. i \in 1 + Size * q .. 1 + Size * q + Size - 1
    <3> DEFINE p == Size * q
    <3>1. p \in Int /\ i - 1 = p + r
      BY <1>1, <1>2
    <3> HIDE DEF p
    <3>2. i \in 1 + p .. 1 + p + Size - 1
      BY <1>1, <1>2, <3>1
    <3> QED
      BY <3>2 DEF p
  <2> QED
    BY <1>2, <1>3, <1>4, <1>5, <2>1
<1> HIDE DEF In
<1>7. \E k \in 1 .. m : In(k)
  BY <1>6
<1> QED
  BY <1>7 DEF m, In

\* The batches of a queue hold sets of rows, all that the job measures.
Covers(queue, rows) == queue \in Seq(SUBSET Row) /\ UNION ToSet(queue) = rows

LEMMA FiniteRows ==
  ASSUME NEW S \in SUBSET Row
  PROVE  IsFiniteSet(S) /\ IsFiniteSet(Keys(S)) /\ Cardinality(S) \in Nat
<1>1. IsFiniteSet(S) /\ Cardinality(S) \in Nat
  BY BenchmarkAssumption, FS_Subset, FS_CardinalityType
<1>2. IsFiniteSet({KeyOf[r] : r \in S})
  BY <1>1, ImageFinite
<1> QED
  BY <1>1, <1>2 DEF Keys

LEMMA MicrobatchesCover ==
  ASSUME NEW S \in SUBSET Row
  PROVE  Covers(Microbatches(S), S)
<1> DEFINE n == Cardinality(S)
           rows == SetToSeq(S)
           m == (n + Size - 1) \div Size
           low(k) == 1 + (k - 1) * Size
           queue == [k \in 1 .. m |-> {rows[i] : i \in DOMAIN rows \cap (low(k) .. low(k) + Size - 1)}]
<1>1. n \in Nat /\ Size \in Nat /\ Size > 0
  BY FiniteRows, BenchmarkAssumption
<1>2. rows \in [1 .. n -> S] /\ \A r \in S : \E i \in 1 .. n : rows[i] = r
  <2>1. \E f \in [1 .. n -> S] : IsInjective(f)
    <3>1. ExistsBijection(1 .. n, S)
      BY FiniteRows, FS_CardinalityType
    <3> QED
      BY <3>1 DEF ExistsBijection, Bijection, Injection
  <2>2. rows \in [1 .. n -> S] /\ IsInjective(rows)
    <3>1. rows = CHOOSE f \in [1 .. n -> S] : IsInjective(f)
      BY DEF SetToSeq
    <3> HIDE DEF rows, n
    <3> QED
      BY <2>1, <3>1
  <2> HIDE DEF rows
  <2>3. rows \in Injection(1 .. n, S)
    BY <2>2 DEF Injection
  <2>4. IsFiniteSet(S) /\ IsFiniteSet(1 .. n) /\ Cardinality(1 .. n) = n
    <3>1. IsFiniteSet(S)
      BY FiniteRows
    <3> HIDE DEF n
    <3>2. IsFiniteSet(1 .. n) /\ Cardinality(1 .. n) = n
      BY <1>1, FS_Interval
    <3> QED
      BY <3>1, <3>2
  <2>5. rows \in Surjection(1 .. n, S)
    BY <2>3, <2>4, FS_Injection
  <2> QED
    BY <2>2, <2>5 DEF Surjection
<1> HIDE DEF rows, n
<1>3. Microbatches(S) = queue
  BY DEF Microbatches, Lowers, rows, n
<1>4. m \in Nat
  <2>1. n + Size - 1 \in Nat
    BY <1>1
  <2> QED
    BY <1>1, <2>1
<1>5. DOMAIN rows = 1 .. n
  BY <1>2
<1>6. \A k \in 1 .. m : queue[k] \in SUBSET Row
  BY <1>2, <1>5
<1>7. \A r \in S : \E k \in 1 .. m : r \in queue[k]
  <2>1. ASSUME NEW r \in S PROVE \E k \in 1 .. m : r \in queue[k]
    <3>1. PICK i \in 1 .. n : rows[i] = r
      BY <1>2
    <3>2. PICK k \in 1 .. m : i \in low(k) .. low(k) + Size - 1
      BY <1>1, Groupings
    <3> HIDE DEF m, low
    <3> QED
      BY <1>5, <3>1, <3>2
  <2> QED
    BY <2>1
<1>8. \A k \in 1 .. m : queue[k] \subseteq S
  BY <1>2, <1>5
<1> HIDE DEF m, low
<1>9. DOMAIN queue = 1 .. m
  OBVIOUS
<1> HIDE DEF queue
<1>10. UNION ToSet(queue) = S
  BY <1>7, <1>8, <1>9 DEF ToSet
<1>11. queue \in Seq(SUBSET Row)
  <2>1. queue \in [1 .. m -> SUBSET Row]
    <3>1. queue = [k \in 1 .. m |-> queue[k]]
      BY <1>9 DEF queue
    <3> QED
      BY <1>6, <3>1
  <2> QED
    BY <1>4, <2>1
<1> QED
  BY <1>3, <1>10, <1>11 DEF Covers

LEMMA QueueCovers ==
  ASSUME NEW S \in SUBSET Row, job.rows = S, NEW g
  PROVE  Covers(QueueOf(g), S)
<1>1. Covers(<<S>>, S)
  BY DEF Covers, ToSet
<1> QED
  BY <1>1, MicrobatchesCover DEF QueueOf

\* A batch and those after it.
LEMMA FirstOfQueue ==
  ASSUME NEW queue \in Seq(SUBSET Row), queue # <<>>
  PROVE  /\ Head(queue) \in SUBSET Row /\ Tail(queue) \in Seq(SUBSET Row)
         /\ UNION ToSet(queue) = Head(queue) \cup UNION ToSet(Tail(queue))
<1>1. Head(queue) = queue[1] /\ Tail(queue) \in Seq(SUBSET Row) /\ Len(queue) \in Nat /\ Len(queue) > 0
  OBVIOUS
<1>2. DOMAIN queue = 1 .. Len(queue) /\ DOMAIN Tail(queue) = 1 .. Len(queue) - 1
  BY <1>1
<1>3. \A i \in 1 .. Len(queue) - 1 : Tail(queue)[i] = queue[i + 1]
  BY <1>1
<1>4. \A i \in 1 .. Len(queue) : i = 1 \/ (i - 1 \in 1 .. Len(queue) - 1 /\ Tail(queue)[i - 1] = queue[i])
  BY <1>1, <1>3
<1>5. \A i \in 1 .. Len(queue) - 1 : i + 1 \in 1 .. Len(queue)
  BY <1>1
<1>6. ToSet(queue) = {queue[1]} \cup ToSet(Tail(queue))
  <2> DEFINE n == Len(queue)
             rest == Tail(queue)
  <2>1. n \in Nat /\ n > 0 /\ 1 \in 1 .. n /\ DOMAIN queue = 1 .. n /\ DOMAIN rest = 1 .. n - 1
    BY <1>1, <1>2
  <2>2. /\ \A i \in 1 .. n - 1 : rest[i] = queue[i + 1] /\ i + 1 \in 1 .. n
        /\ \A i \in 1 .. n : i = 1 \/ (i - 1 \in 1 .. n - 1 /\ rest[i - 1] = queue[i])
    BY <1>3, <1>4, <1>5
  <2> HIDE DEF n, rest
  <2>3. ASSUME NEW x \in ToSet(queue) PROVE x \in {queue[1]} \cup ToSet(rest)
    <3>1. PICK i \in 1 .. n : x = queue[i]
      BY <2>1 DEF ToSet
    <3> QED
      BY <2>1, <2>2, <3>1 DEF ToSet
  <2>4. ASSUME NEW x \in ToSet(rest) PROVE x \in ToSet(queue)
    <3>1. PICK i \in 1 .. n - 1 : x = rest[i]
      BY <2>1 DEF ToSet
    <3> QED
      BY <2>1, <2>2, <3>1 DEF ToSet
  <2>5. queue[1] \in ToSet(queue)
    BY <2>1 DEF ToSet
  <2> QED
    BY <2>3, <2>4, <2>5 DEF rest
<1>7. Head(queue) \in SUBSET Row
  BY <1>1
<1> QED
  BY <1>1, <1>6, <1>7

-----------------------------------------------------------------------------
(* What a job loads. *)

JobSpec == {s \in [kind : {"system", "processing"}, range : SUBSET Months, drop : BOOLEAN] :
              s.kind = "processing" => s.drop}
Preparing == {"resolve", "write", "metadata", "measure"}
Loading == {"bronze", "silver"}
Stored(f) == \A x \in DOMAIN f : f[x] \in SUBSET Row

\* The keys K are loaded: they are counted, they are all that Silver has, as long as the catalog
\* has the table, and with those of the queue they are the keys of the rows that the job measures.
Loaded(K) == /\ job.written = Cardinality(K) /\ K \cup Keys(UNION ToSet(job.queue)) = Keys(job.rows)
             /\ names \in DOMAIN tables => tables[names].silver = K

JobLoads ==
  job # NoJob =>
    /\ DOMAIN job = Fields /\ job.spec \in JobSpec /\ job.rows \in SUBSET Row
    /\ job.step \in Preparing => job.batch = Skipped
    /\ job.batch \in {Skipped, Cardinality(Keys(job.rows))}
    /\ job.step \notin Loading => job.written = 0
    /\ job.step \notin Preparing /\ job.spec.kind = "system" => job.parquet = Keys(job.rows)
    /\ job.step \in Loading => /\ job.queue \in Seq(SUBSET Row)
                               /\ job.spec.drop => \E K \in SUBSET Keys(Row) : Loaded(K)
    /\ job.step = "silver" => job.queue # <<>>
Shaped == \A g \in DOMAIN tables : DOMAIN tables[g] = {"bronze", "silver"}
InputsStored == todo \in Seq(JobSpec) /\ Stored(data) /\ Stored(staged)
LikeInv == TablesInv /\ Shaped /\ InputsStored /\ JobLoads /\ LikeForLike

\* A month-chunked script has a job for each month, in order.
LEMMA JobsOfScript == \A p : SystemJobs(p) \in Seq(JobSpec)
<1> DEFINE Sorted(m) == \A i, j \in DOMAIN m : i < j => m[i] < m[j]
           months == CHOOSE m \in SetToSeqs(Months) : Sorted(m)
           n == Cardinality(Months)
<1>1. months \in [1 .. n -> Months] /\ n \in Nat
  <2> DEFINE less == {st \in Months \X Months : st[1] < st[2]}
  <2>1. Months \in SUBSET Int /\ IsFiniteSet(Months) /\ n \in Nat
    <3>1. IsFiniteSet(Row)
      BY BenchmarkAssumption
    <3>2. IsFiniteSet({MonthOf[r] : r \in Row})
      BY <3>1, ImageFinite
    <3> QED
      BY <3>2, BenchmarkAssumption, FS_CardinalityType DEF Months
  <2>2. \A s, t \in Months : <<s, t>> \in less <=> s < t
    OBVIOUS
  <2> HIDE DEF less, n
  <2>3. Ordered(Months, less)
    BY <2>1, <2>2 DEF Ordered
  <2>4. PICK p \in [1 .. n -> Months] : \A i, j \in 1 .. n : i < j => p[i] # p[j] /\ <<p[i], p[j]>> \in less
    BY <2>1, <2>3, SortedEnumeration DEF n
  <2>5. DOMAIN p = 1 .. n /\ Sorted(p)
    BY <2>2, <2>4
  <2>6. \A i, j \in 1 .. n : i # j => p[i] # p[j]
    <3>1. \A i, j \in 1 .. n : i # j => i < j \/ j < i
      BY <2>1
    <3> QED
      BY <2>4, <3>1
  <2>7. p \in SetToSeqs(Months)
    BY <2>6 DEF SetToSeqs, n
  <2> HIDE DEF Sorted
  <2>8. months \in SetToSeqs(Months)
    BY <2>5, <2>7
  <2> HIDE DEF months
  <2> QED
    BY <2>1, <2>8 DEF SetToSeqs, n
<1> HIDE DEF n, Sorted
<1>2. <<[kind |-> "system", range |-> Months, drop |-> TRUE]>> \in Seq(JobSpec)
  BY DEF JobSpec
<1>3. [i \in DOMAIN months |-> [kind |-> "system", range |-> {months[i]}, drop |-> i = 1]] \in Seq(JobSpec)
  <2> HIDE DEF months
  <2>1. DOMAIN months = 1 .. n
    BY <1>1
  <2>2. \A i \in 1 .. n : [kind |-> "system", range |-> {months[i]}, drop |-> i = 1] \in JobSpec
    BY <1>1 DEF JobSpec
  <2> QED
    BY <1>1, <2>1, <2>2
<1>4. \A p : SystemJobs(p) = IF p.chunked
        THEN [i \in DOMAIN months |-> [kind |-> "system", range |-> {months[i]}, drop |-> i = 1]]
        ELSE <<[kind |-> "system", range |-> Months, drop |-> TRUE]>>
  BY DEF SystemJobs, Sorted
<1> QED
  BY <1>2, <1>3, <1>4

LEMMA WritesRows == ToWrite \in SUBSET Row
BY BenchmarkAssumption DEF ToWrite, Selected

LEMMA StoredStep ==
  ASSUME InputsStored, [Next]_vars
  PROVE  InputsStored'
<1>1. todo' \in Seq(JobSpec)
  <2>1. ASSUME NEW p \in Plans, StartScript(p) PROVE todo' \in Seq(JobSpec)
    <3> DEFINE last == [kind |-> "processing", range |-> Months, drop |-> TRUE]
               first == SystemJobs(p)
    <3>1. first \in Seq(JobSpec) /\ last \in JobSpec
      BY JobsOfScript DEF JobSpec
    <3>2. todo' = Append(first, last)
      BY <2>1 DEF StartScript
    <3> HIDE DEF first, last
    <3> QED
      BY <3>1, <3>2
  <2>2. ASSUME StartJob PROVE todo' \in Seq(JobSpec)
    <3>1. todo' = Tail(todo) /\ todo # <<>> /\ todo \in Seq(JobSpec)
      BY <2>2 DEF StartJob, InputsStored
    <3> QED
      BY <3>1
  <2>3. ASSUME Fail PROVE todo' \in Seq(JobSpec)
    BY <2>3 DEF Fail
  <2>4. ASSUME UNCHANGED todo PROVE todo' \in Seq(JobSpec)
    BY <2>4 DEF InputsStored
  <2>5. (\E p \in Plans : StartScript(p)) \/ StartJob \/ Fail \/ UNCHANGED todo
    BY DEF Next, vars, script, ChangeInput, ReuseStaging, ReuseSample, DeleteOutput, WriteOutput, WriteMetadata,
       RunParquetBaseline, ApplyNames, OpenTables, AppendBronze, AppendSilver, JobRaises, EndBatchPath, WriteReport,
       Kill, CleanFiles, CleanRows, CleanStops
  <2> QED
    BY <2>1, <2>2, <2>3, <2>4, <2>5
<1>2. Stored(data)' /\ Stored(staged)'
  <2>1. Stored(data) /\ Stored(staged)
    BY DEF InputsStored
  <2>2. ASSUME DeleteOutput PROVE Stored(data)' /\ Stored(staged)'
    BY <2>1, <2>2 DEF DeleteOutput, Without, Restrict, Stored
  <2>3. ASSUME NEW S \in SUBSET Row, Leave(S) PROVE Stored(data)' /\ Stored(staged)'
    BY <2>1, <2>3 DEF Leave, With, Stored
  <2>4. ASSUME WriteOutput \/ Kill PROVE UNCHANGED <<data, staged>> \/ \E S \in SUBSET Row : Leave(S)
    BY <2>4, WritesRows DEF WriteOutput, Kill
  <2>5. ASSUME UNCHANGED <<data, staged>> PROVE Stored(data)' /\ Stored(staged)'
    BY <2>1, <2>5
  <2>6. ASSUME CleanFiles PROVE Stored(data)' /\ Stored(staged)'
    BY <2>1, <2>6 DEF CleanFiles, Stored
  <2>7. DeleteOutput \/ WriteOutput \/ Kill \/ UNCHANGED <<data, staged>> \/ CleanFiles
    BY DEF Next, vars, ChangeInput, StartScript, StartJob, ReuseStaging, ReuseSample, WriteMetadata,
       RunParquetBaseline, ApplyNames, OpenTables, AppendBronze, AppendSilver, JobRaises, EndBatchPath, WriteReport,
       CleanRows, CleanStops
  <2> QED
    BY <2>2, <2>3, <2>4, <2>5, <2>6, <2>7
<1> QED
  BY <1>1, <1>2 DEF InputsStored

LEMMA KeysUnion == \A A, B : Keys(A \cup B) = Keys(A) \cup Keys(B)
BY DEF Keys

\* Loading a batch.
LEMMA SilverStep ==
  ASSUME JobLoads, Shaped, AppendSilver, job # NoJob, DOMAIN job = Fields, job.spec.drop,
         NEW K \in SUBSET Keys(Row), Loaded(K), job.queue \in Seq(SUBSET Row), job.queue # <<>>
  PROVE  (\E L \in SUBSET Keys(Row) : Loaded(L))'
<1> DEFINE b == Head(job.queue)
           N == Keys(b)
<1>1. /\ names \in DOMAIN tables /\ UNCHANGED names
      /\ job' = [job EXCEPT !.step = "bronze", !.queue = Tail(@), !.written = @ + Cardinality(N \ tables[names].silver)]
      /\ tables' = [tables EXCEPT ![names].silver = @ \cup N]
  BY DEF AppendSilver
<1>2. /\ job'.queue = Tail(job.queue) /\ job'.rows = job.rows
      /\ job'.written = job.written + Cardinality(N \ tables[names].silver)
  BY <1>1 DEF Fields
<1>3. tables[names].silver = K /\ job.written = Cardinality(K)
      /\ K \cup Keys(UNION ToSet(job.queue)) = Keys(job.rows)
  BY <1>1 DEF Loaded
<1>4. b \in SUBSET Row /\ UNION ToSet(job.queue) = b \cup UNION ToSet(Tail(job.queue))
  BY FirstOfQueue
<1>5. N \in SUBSET Keys(Row)
  BY <1>4 DEF Keys
<1>6. Cardinality(K \cup N) = Cardinality(K) + Cardinality(N \ K)
  <2>1. IsFiniteSet(Keys(Row))
    BY FiniteRows
  <2>2. IsFiniteSet(K) /\ IsFiniteSet(N \ K)
    BY <1>5, <2>1, FS_Subset
  <2>3. K \cap (N \ K) = {} /\ K \cup (N \ K) = K \cup N
    OBVIOUS
  <2> HIDE DEF N
  <2>4. Cardinality(K \cup (N \ K)) = Cardinality(K) + Cardinality(N \ K)
    BY <2>2, <2>3, CardDisjoint
  <2> QED
    BY <2>3, <2>4
<1>7. Keys(UNION ToSet(job.queue)) = N \cup Keys(UNION ToSet(Tail(job.queue)))
  BY <1>4, KeysUnion
<1>8. names' \in DOMAIN tables' => tables'[names'].silver = K \cup N
  <2> HIDE DEF N
  <2>1. tables'[names].silver = tables[names].silver \cup N
    BY <1>1 DEF Shaped
  <2> QED
    BY <1>1, <1>3, <2>1
<1> HIDE DEF N, b
<1>9. job'.written = Cardinality(K \cup N)
  BY <1>2, <1>3, <1>6
<1>10. (K \cup N) \cup Keys(UNION ToSet(Tail(job.queue))) = Keys(job.rows)
  BY <1>3, <1>7
<1> DEFINE M == K \cup N
<1>11. /\ job'.written = Cardinality(M) /\ M \cup Keys(UNION ToSet(job'.queue)) = Keys(job'.rows)
       /\ names' \in DOMAIN tables' => tables'[names'].silver = M
  BY <1>2, <1>8, <1>9, <1>10
<1>12. M \in SUBSET Keys(Row)
  BY <1>5
<1> HIDE DEF M
<1>13. \E L \in SUBSET Keys(Row) : /\ job'.written = Cardinality(L) /\ L \cup Keys(UNION ToSet(job'.queue)) = Keys(job'.rows)
                                   /\ names' \in DOMAIN tables' => tables'[names'].silver = L
  BY <1>11, <1>12
<1> QED
  BY <1>13 DEF Loaded, Keys

LEMMA ShapedStep ==
  ASSUME Shaped, [Next]_vars
  PROVE  Shaped'
<1>1. CASE OpenTables
  <2> DEFINE T == IF job.spec.drop THEN Without(tables, names) ELSE tables
  <2>1. \A g \in DOMAIN T : DOMAIN T[g] = {"bronze", "silver"}
    BY DEF Shaped, Without, Restrict
  <2>2. tables' = Create(T, names)
    BY <1>1 DEF OpenTables
  <2> HIDE DEF T
  <2> QED
    BY <2>1, <2>2 DEF Create, With, Shaped
<1>2. CASE AppendBronze \/ AppendSilver
  BY <1>2 DEF AppendBronze, AppendSilver, Shaped
<1>3. CASE CleanRows
  BY <1>3 DEF CleanRows, Restrict, Shaped
<1>4. CASE UNCHANGED tables
  BY <1>4 DEF Shaped
<1>5. OpenTables \/ AppendBronze \/ AppendSilver \/ CleanRows \/ UNCHANGED tables
  BY DEF Next, vars, ChangeInput, StartScript, StartJob, ReuseStaging, ReuseSample, DeleteOutput, WriteOutput,
     WriteMetadata, RunParquetBaseline, ApplyNames, JobRaises, EndBatchPath, WriteReport, Kill, CleanFiles, CleanStops
<1> QED
  BY <1>1, <1>2, <1>3, <1>4, <1>5

\* Until the tables, the input is resolved and the baseline run.
LEMMA PreparingStep ==
  ASSUME LikeInv, job # NoJob,
         ReuseStaging \/ ReuseSample \/ DeleteOutput \/ WriteOutput \/ WriteMetadata \/ RunParquetBaseline
  PROVE  JobLoads'
<1>1. DOMAIN job = Fields /\ JobLoads /\ job.spec \in JobSpec /\ job.rows \in SUBSET Row
  BY DEF LikeInv, JobLoads
<1>2. Stored(data) /\ Stored(staged)
  BY DEF LikeInv, InputsStored
<1>3. CASE ReuseStaging
  <2>1. staged[Suffix] \in SUBSET Row
    BY <1>2, <1>3 DEF ReuseStaging, Reusable, Stored
  <2>2. /\ DOMAIN job' = Fields /\ job'.step = "measure" /\ job'.spec = job.spec /\ job'.rows = staged[Suffix]
        /\ job'.batch = job.batch /\ job'.written = job.written /\ job.step = "resolve"
    BY <1>1, <1>3 DEF ReuseStaging, At, Fields
  <2> QED
    BY <1>1, <2>1, <2>2 DEF JobLoads, Preparing, Loading
<1>4. CASE ReuseSample
  <2>1. data[Cached] \in SUBSET Row
    BY <1>2, <1>4 DEF ReuseSample, SampleReady, Stored
  <2>2. /\ DOMAIN job' = Fields /\ job'.step = "measure" /\ job'.spec = job.spec /\ job'.rows = data[Cached]
        /\ job'.batch = job.batch /\ job'.written = job.written /\ job.step = "resolve"
    BY <1>1, <1>4 DEF ReuseSample, At, Fields
  <2> QED
    BY <1>1, <2>1, <2>2 DEF JobLoads, Preparing, Loading
<1>5. CASE DeleteOutput \/ WriteMetadata
  <2>1. /\ DOMAIN job' = Fields /\ job'.step \in {"write", "measure"} /\ job'.spec = job.spec /\ job'.rows = job.rows
        /\ job'.batch = job.batch /\ job'.written = job.written /\ job.step \in {"resolve", "metadata"}
    BY <1>1, <1>5 DEF DeleteOutput, WriteMetadata, At, Fields
  <2> QED
    BY <1>1, <2>1 DEF JobLoads, Preparing, Loading
<1>6. CASE WriteOutput
  <2>1. /\ DOMAIN job' = Fields /\ job'.step \in {"metadata", "measure"} /\ job'.spec = job.spec /\ job'.rows = ToWrite
        /\ job'.batch = job.batch /\ job'.written = job.written /\ job.step = "write"
    BY <1>1, <1>6 DEF WriteOutput, At, Fields
  <2> QED
    BY <1>1, <2>1, WritesRows DEF JobLoads, Preparing, Loading
<1>7. CASE RunParquetBaseline
  <2>1. /\ DOMAIN job' = Fields /\ job'.step \in {"tables", "names"} /\ job'.spec = job.spec /\ job'.rows = job.rows
        /\ job'.batch = job.batch /\ job'.written = job.written /\ job.step = "measure"
        /\ job.spec.kind = "system" => job'.parquet = Keys(job.rows)
    BY <1>1, <1>7 DEF RunParquetBaseline, AfterMeasure, At, Fields
  <2>2. job.batch = Skipped /\ job.written = 0
    BY <1>1, <2>1 DEF JobLoads, Preparing, Loading
  <2>3. /\ job'.step \notin Preparing /\ job'.step \notin Loading /\ job'.step # "silver"
    BY <2>1 DEF Preparing, Loading
  <2> QED
    BY <1>1, <2>1, <2>2, <2>3 DEF JobLoads
<1> QED
  BY <1>3, <1>4, <1>5, <1>6, <1>7

\* The tables are opened, filled and left.
LEMMA OpenStep ==
  ASSUME LikeInv, job # NoJob, OpenTables
  PROVE  JobLoads'
<1>1. DOMAIN job = Fields /\ JobLoads /\ job.spec \in JobSpec /\ job.rows \in SUBSET Row
  BY DEF LikeInv, JobLoads
<1>2. /\ DOMAIN job' = Fields /\ job'.step = "bronze" /\ job'.spec = job.spec /\ job'.rows = job.rows
      /\ job'.batch = job.batch /\ job'.written = job.written /\ job.step = "tables" /\ job'.parquet = job.parquet
      /\ job'.queue = QueueOf(names) /\ names' = names
  BY <1>1 DEF OpenTables, At, Fields
<1>3. job.written = 0 /\ job.step \notin Preparing
  BY <1>1, <1>2 DEF JobLoads, Preparing, Loading
<1>4. job'.queue \in Seq(SUBSET Row) /\ UNION ToSet(job'.queue) = job.rows
  BY <1>1, <1>2, QueueCovers DEF Covers
<1>5. job.spec.drop => tables'[names].silver = {}
  BY DEF OpenTables, Create, Without, With, Restrict
<1>6. job.spec.drop => (\E K \in SUBSET Keys(Row) : Loaded(K))'
  <2>1. Cardinality({}) = 0
    BY FS_EmptySet
  <2>2. job.spec.drop => /\ job'.written = Cardinality({}) /\ {} \cup Keys(UNION ToSet(job'.queue)) = Keys(job'.rows)
                         /\ names' \in DOMAIN tables' => tables'[names'].silver = {}
    BY <1>2, <1>3, <1>4, <1>5, <2>1
  <2>3. job.spec.drop => \E K \in SUBSET Keys(Row) :
                         /\ job'.written = Cardinality(K) /\ K \cup Keys(UNION ToSet(job'.queue)) = Keys(job'.rows)
                         /\ names' \in DOMAIN tables' => tables'[names'].silver = K
    BY <2>2
  <2> QED
    BY <2>3 DEF Loaded, Keys
<1>7. job'.batch \in {Skipped, Cardinality(Keys(job'.rows))}
  BY <1>1, <1>2 DEF JobLoads
<1>8. job'.spec.kind = "system" => job'.parquet = Keys(job'.rows)
  BY <1>1, <1>2, <1>3 DEF JobLoads
<1>9. job'.step \notin Preparing /\ job'.step \in Loading /\ job'.step # "silver"
  BY <1>2 DEF Preparing, Loading
<1> QED
  BY <1>1, <1>2, <1>4, <1>6, <1>7, <1>8, <1>9 DEF JobLoads, Keys

LEMMA BronzeStep ==
  ASSUME LikeInv, job # NoJob, AppendBronze
  PROVE  JobLoads'
<1>1. DOMAIN job = Fields /\ JobLoads /\ job.spec \in JobSpec /\ job.rows \in SUBSET Row /\ Shaped
  BY DEF LikeInv, JobLoads
<1>2. /\ DOMAIN job' = Fields /\ job'.step = "silver" /\ job'.spec = job.spec /\ job'.rows = job.rows
      /\ job'.batch = job.batch /\ job'.written = job.written /\ job.step = "bronze" /\ job'.parquet = job.parquet
      /\ job'.queue = job.queue /\ names' = names /\ job.queue # <<>> /\ names \in DOMAIN tables
      /\ DOMAIN tables' = DOMAIN tables
  BY <1>1 DEF AppendBronze, At, Fields
<1>3. tables'[names].silver = tables[names].silver
  BY <1>1, <1>2 DEF AppendBronze, Shaped
<1>4. ASSUME NEW K, Loaded(K) PROVE Loaded(K)'
  BY <1>2, <1>3, <1>4 DEF Loaded, Keys
<1>5. job.step \in Loading /\ job'.step \in Loading /\ job.step \notin Preparing /\ job'.step \notin Preparing
  BY <1>2 DEF Preparing, Loading
<1>6. job.queue \in Seq(SUBSET Row) /\ (job.spec.drop => \E K \in SUBSET Keys(Row) : Loaded(K))
  BY <1>1, <1>5 DEF JobLoads
<1>7. job.spec.drop => (\E K \in SUBSET Keys(Row) : Loaded(K))'
  BY <1>4, <1>6 DEF Keys
<1>8. job'.batch \in {Skipped, Cardinality(Keys(job'.rows))}
  BY <1>1, <1>2 DEF JobLoads
<1>9. job'.spec.kind = "system" => job'.parquet = Keys(job'.rows)
  BY <1>1, <1>2, <1>5 DEF JobLoads
<1> QED
  BY <1>1, <1>2, <1>5, <1>6, <1>7, <1>8, <1>9 DEF JobLoads, Keys

LEMMA BatchLoaded ==
  ASSUME LikeInv, job # NoJob, AppendSilver
  PROVE  JobLoads'
<1>1. DOMAIN job = Fields /\ JobLoads /\ job.spec \in JobSpec /\ job.rows \in SUBSET Row /\ Shaped
  BY DEF LikeInv, JobLoads
<1>2. /\ DOMAIN job' = Fields /\ job'.step = "bronze" /\ job'.spec = job.spec /\ job'.rows = job.rows
      /\ job'.batch = job.batch /\ job.step = "silver" /\ job'.parquet = job.parquet
      /\ job'.queue = Tail(job.queue)
  BY <1>1 DEF AppendSilver, At, Fields
<1>3. job.step \in Loading /\ job'.step \in Loading /\ job.step \notin Preparing /\ job'.step \notin Preparing
  BY <1>2 DEF Preparing, Loading
<1>4. job.queue \in Seq(SUBSET Row) /\ job.queue # <<>> /\ (job.spec.drop => \E K \in SUBSET Keys(Row) : Loaded(K))
  BY <1>1, <1>2, <1>3 DEF JobLoads
<1>5. job.spec.drop => (\E K \in SUBSET Keys(Row) : Loaded(K))'
  BY <1>1, <1>4, SilverStep
<1>6. job'.queue \in Seq(SUBSET Row)
  BY <1>2, <1>4, FirstOfQueue
<1>7. job'.batch \in {Skipped, Cardinality(Keys(job'.rows))}
  BY <1>1, <1>2 DEF JobLoads
<1>8. job'.spec.kind = "system" => job'.parquet = Keys(job'.rows)
  BY <1>1, <1>2, <1>3 DEF JobLoads
<1> QED
  BY <1>1, <1>2, <1>3, <1>5, <1>6, <1>7, <1>8 DEF JobLoads, Keys

\* When the last batch is loaded, every key of the rows is counted once.
LEMMA AllLoaded ==
  ASSUME JobLoads, job # NoJob, At("bronze"), job.queue = <<>>, job.spec.drop
  PROVE  job.written = Cardinality(Keys(job.rows))
<1>1. PICK K \in SUBSET Keys(Row) : Loaded(K)
  BY DEF JobLoads, At, Loading
<1>2. Keys(UNION ToSet(<<>>)) = {}
  BY DEF Keys, ToSet
<1> QED
  BY <1>1, <1>2 DEF Loaded

LEMMA BatchPathEnds ==
  ASSUME LikeInv, job # NoJob, EndBatchPath
  PROVE  JobLoads'
<1>1. DOMAIN job = Fields /\ JobLoads /\ job.spec \in JobSpec /\ job.rows \in SUBSET Row /\ Renamed
  BY DEF LikeInv, JobLoads, TablesInv
<1>2. /\ DOMAIN job' = Fields /\ job'.step = "names" /\ job'.spec = job.spec /\ job'.rows = job.rows
      /\ job'.batch = job.written /\ job'.written = 0 /\ names = "batch" /\ job.queue = <<>> /\ At("bronze")
  BY <1>1 DEF EndBatchPath, At, Fields
<1>3. job.spec.kind # "system" /\ job.spec.drop
  BY <1>1, <1>2 DEF Renamed, Busy, At, JobSpec
<1>4. job.written = Cardinality(Keys(job.rows))
  BY <1>1, <1>2, <1>3, AllLoaded
<1>5. job'.step \notin Preparing /\ job'.step \notin Loading /\ job'.step # "silver"
  BY <1>2 DEF Preparing, Loading
<1> QED
  BY <1>1, <1>2, <1>3, <1>4, <1>5 DEF JobLoads, Keys

LEMMA JobLoadsStep ==
  ASSUME LikeInv, [Next]_vars
  PROVE  JobLoads'
<1>1. ASSUME job' = NoJob PROVE JobLoads'
  BY <1>1 DEF JobLoads
<1>2. ASSUME StartJob PROVE JobLoads'
  <2>1. Head(todo) \in JobSpec
    BY <1>2 DEF StartJob, LikeInv, InputsStored
  <2>2. /\ DOMAIN job' = Fields /\ job'.step = "resolve" /\ job'.spec = Head(todo) /\ job'.rows = {}
        /\ job'.batch = Skipped /\ job'.written = 0
    BY <1>2 DEF StartJob, Fields
  <2> QED
    BY <2>1, <2>2 DEF JobLoads, Preparing, Loading
<1>3. ASSUME job # NoJob, ReuseStaging \/ ReuseSample \/ DeleteOutput \/ WriteOutput \/ WriteMetadata \/ RunParquetBaseline
      PROVE  JobLoads'
  BY <1>3, PreparingStep
<1>4. ASSUME job # NoJob, ApplyNames PROVE JobLoads'
  <2>1. DOMAIN job = Fields /\ JobLoads /\ job.spec \in JobSpec /\ job.rows \in SUBSET Row
    BY <1>4 DEF LikeInv, JobLoads
  <2>2. /\ DOMAIN job' = Fields /\ job'.step = "tables" /\ job'.spec = job.spec /\ job'.rows = job.rows
        /\ job'.batch = job.batch /\ job'.written = job.written /\ job'.parquet = job.parquet /\ job.step = "names"
    BY <1>4, <2>1 DEF ApplyNames, At, Fields
  <2>3. /\ job'.step \notin Preparing /\ job'.step \notin Loading /\ job'.step # "silver"
        /\ job.step \notin Preparing /\ job.step \notin Loading
    BY <2>2 DEF Preparing, Loading
  <2>4. job'.batch \in {Skipped, Cardinality(Keys(job'.rows))} /\ job'.written = 0
    BY <1>4, <2>1, <2>2, <2>3 DEF JobLoads
  <2>5. job'.spec.kind = "system" => job'.parquet = Keys(job'.rows)
    BY <1>4, <2>1, <2>2, <2>3 DEF JobLoads
  <2> QED
    BY <2>1, <2>2, <2>3, <2>4, <2>5 DEF JobLoads, Keys
<1>5. ASSUME job # NoJob, OpenTables PROVE JobLoads'
  BY <1>5, OpenStep
<1>6. ASSUME job # NoJob, AppendBronze PROVE JobLoads'
  BY <1>6, BronzeStep
<1>7. ASSUME job # NoJob, AppendSilver PROVE JobLoads'
  BY <1>7, BatchLoaded
<1>8. ASSUME job # NoJob, EndBatchPath PROVE JobLoads'
  BY <1>8, BatchPathEnds
<1>9. ASSUME CleanRows PROVE JobLoads'
  <2>1. /\ job' = job /\ names' = names /\ DOMAIN tables' \subseteq DOMAIN tables
        /\ \A g \in DOMAIN tables' : tables'[g] = tables[g]
    BY <1>9 DEF CleanRows, Restrict
  <2>2. ASSUME NEW K, Loaded(K) PROVE Loaded(K)'
    BY <2>1, <2>2 DEF Loaded, Keys
  <2>3. JobLoads
    BY DEF LikeInv
  <2>4. (\E K \in SUBSET Keys(Row) : Loaded(K)) => (\E K \in SUBSET Keys(Row) : Loaded(K))'
    BY <2>2 DEF Keys
  <2> QED
    BY <2>1, <2>3, <2>4 DEF JobLoads, Keys
<1>10. ASSUME UNCHANGED <<job, tables, names>> PROVE JobLoads'
  BY <1>10 DEF LikeInv, JobLoads, Loaded, Keys
<1>11. \/ StartJob \/ ApplyNames \/ OpenTables \/ AppendBronze \/ AppendSilver \/ EndBatchPath \/ CleanRows
       \/ ReuseStaging \/ ReuseSample \/ DeleteOutput \/ WriteOutput \/ WriteMetadata \/ RunParquetBaseline
       \/ job' = NoJob \/ UNCHANGED <<job, tables, names>>
  BY DEF Next, vars, script, storage, ChangeInput, StartScript, JobRaises, Fail, WriteReport, Kill, CleanFiles,
     CleanStops
<1>12. At("resolve") \/ At("write") \/ At("metadata") \/ At("measure") \/ At("names") \/ At("tables") \/ At("bronze")
       \/ At("silver") => job # NoJob
  BY DEF At, NoJob
<1>13. \/ ReuseStaging \/ ReuseSample \/ DeleteOutput \/ WriteOutput \/ WriteMetadata \/ RunParquetBaseline
       \/ ApplyNames \/ OpenTables \/ AppendBronze \/ AppendSilver \/ EndBatchPath
       => job # NoJob
  BY <1>12 DEF ReuseStaging, ReuseSample, DeleteOutput, WriteOutput, WriteMetadata, RunParquetBaseline,
     ApplyNames, OpenTables, AppendBronze, AppendSilver, EndBatchPath
<1> QED
  BY <1>1, <1>2, <1>3, <1>4, <1>5, <1>6, <1>7, <1>8, <1>9, <1>10, <1>11, <1>13

LEMMA LikeForLikeStep ==
  ASSUME LikeInv, [Next]_vars
  PROVE  LikeForLike'
<1>1. CASE WriteReport
  <2>1. job # NoJob /\ At("bronze") /\ job.queue = <<>> /\ names # "batch"
    BY <1>1 DEF WriteReport, At, NoJob
  <2>2. JobLoads /\ job.spec \in JobSpec
    BY <2>1 DEF LikeInv, JobLoads
  <2>3. /\ report'.kind = job.spec.kind /\ report'.fresh = job.spec.drop /\ report'.parquet = job.parquet
        /\ report'.batch = job.batch /\ report'.written = job.written /\ report'.rows = job.rows
    BY <1>1 DEF WriteReport
  <2>4. job.spec.drop => job.written = Cardinality(Keys(job.rows))
    BY <2>1, <2>2, AllLoaded
  <2>5. job.spec.kind = "system" => job.parquet = Keys(job.rows)
    BY <2>1, <2>2 DEF JobLoads, At, Preparing
  <2>6. job.batch \in {Skipped, Cardinality(Keys(job.rows))}
    BY <2>1, <2>2 DEF JobLoads
  <2>7. job.spec.kind = "processing" => job.spec.drop
    BY <2>2 DEF JobSpec
  <2> QED
    BY <2>3, <2>4, <2>5, <2>6, <2>7 DEF LikeForLike, Keys
<1>2. CASE UNCHANGED report
  BY <1>2 DEF LikeInv, LikeForLike, Keys
<1>3. WriteReport \/ UNCHANGED report
  BY DEF Next, vars, script, Fail, ChangeInput, StartScript, StartJob, ReuseStaging, ReuseSample, DeleteOutput,
     WriteOutput, WriteMetadata, RunParquetBaseline, ApplyNames, OpenTables, AppendBronze, AppendSilver, JobRaises,
     EndBatchPath, Kill, CleanFiles, CleanRows, CleanStops
<1> QED
  BY <1>1, <1>2, <1>3

LEMMA LikeInit == Init => LikeInv
<1> SUFFICES ASSUME Init PROVE LikeInv
  OBVIOUS
<1>1. TablesInv
  BY TablesInit
<1>2. Shaped /\ InputsStored
  BY DEF Init, Shaped, InputsStored, Stored
<1>3. JobLoads
  BY DEF Init, JobLoads
<1>4. LikeForLike
  BY DEF Init, LikeForLike, NoReport
<1> QED
  BY <1>1, <1>2, <1>3, <1>4 DEF LikeInv

\* Whatever was killed, cached, reused or cleaned before, and however the rows fall into
\* microbatches, fresh Iceberg tables get as many Silver rows as the Parquet baseline, and the
\* streaming path as many as the batch path: the keys of the rows that the job measured.
THEOREM LikeForLikeAlways == Spec => []LikeForLike
<1>1. LikeInv /\ [Next]_vars => LikeInv'
  BY RenamedStep, TablesStep, ShapedStep, StoredStep, JobLoadsStep, LikeForLikeStep DEF LikeInv, TablesInv
<1>2. LikeInv => LikeForLike
  BY DEF LikeInv
<1> QED
  BY LikeInit, <1>1, <1>2, PTL DEF Spec

====
