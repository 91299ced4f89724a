---- MODULE LocalPipeline ----
(***************************************************************************)
(* The pipeline over local files: Bronze backfill, Bronze to Silver, Silver*)
(* to Gold.  Every run of a stage is a process with an id of its own, which*)
(* is in the paths of all it writes; nothing orders the runs, and a run may*)
(* die at any step.  A file is what a reader finds in it: the whole lines, *)
(* and whether a cut line follows them, which is no JSON.                  *)
(***************************************************************************)
EXTENDS Integers, FiniteSets, FiniteSetsExt

CONSTANTS Row,         \* lines of the input files, numbered in reading order
          Payload,     \* their fields, a record [long, missing, time, type, price, user, product]
          Parse,       \* the second a text stands for, Garbled, or Odd
          Lower,       \* the trimmed lower-case text of a text, None when blank
          Number,      \* the number a text stands for, NaN, or None
          None, NaN, Garbled, Odd, Day,
          First,       \* the rows in the input directory at first
          Later,       \* what the input directory may hold later on
          BronzeRun, SilverRun, GoldRun,
          Table,       \* Gold tables
          MaxCrashes,  \* bound on crashes
          Cuts,        \* the numbers of lines after which a file may be cut off
          MaxRunning   \* bound on the runs that are under way at one time

ASSUME LocalAssumption ==
  /\ Row \subseteq Nat /\ First \subseteq Row /\ Later \subseteq SUBSET Row
  /\ BronzeRun \cap SilverRun = {} /\ BronzeRun \cap GoldRun = {} /\ SilverRun \cap GoldRun = {}
  /\ IsFiniteSet(SilverRun) /\ MaxCrashes \in Nat

VARIABLES raw,         \* the rows in the input directory
          pc,          \* the step each run is at
          batch,       \* Bronze and Silver runs: the rows read
          counted,     \* Gold runs: how often each key was read
          bronze, silver, quarantine, gold,   \* the files of each run
          manifest,    \* the manifest of each run
          reads,       \* history: the runs whose files a run read ...
          settled,     \* ... and those of them that had succeeded by then
          crashes

vars == <<raw, pc, batch, counted, bronze, silver, quarantine, gold, manifest, reads, settled, crashes>>
files == <<bronze, silver, quarantine, gold>>
memory == <<batch, counted, reads, settled>>

Run == BronzeRun \cup SilverRun \cup GoldRun

(***************************************************************************)
(* Rows and events.                                                        *)
(***************************************************************************)

\* Rows with more fields than their header has names for: no JSON can be made.
Long == {r \in Row : Payload[r].long}
\* Rows without a required column, or whose time cannot be parsed.
Malformed == {r \in Row : Payload[r].missing \/ Parse[Payload[r].time] = Garbled}
\* Rows whose time is a date that cannot be brought to UTC, or of a year that is
\* written with fewer than four digits: these raise outside the try.
Raising == {r \in Row \ Malformed : Parse[Payload[r].time] = Odd}
Valid == Row \ (Malformed \cup Raising)

CanonicalizeRecord(r) ==
  LET p == Payload[r]
  IN [time |-> Parse[p.time], type |-> Lower[p.type], price |-> Number[p.price],
      user |-> Number[p.user], product |-> Number[p.product]]

\* The identity of an event, its dedupe_key, is here the first row that has it.
KeyOf == [r \in Valid |-> Min({q \in Valid : CanonicalizeRecord(q) = CanonicalizeRecord(r)})]
Key == {KeyOf[r] : r \in Valid}
Columns == [k \in Key |-> CanonicalizeRecord(k)]
DateOf == [k \in Key |-> Columns[k].time \div Day]
Dates == {DateOf[k] : k \in Key}
\* Dates are written in order.
ASSUME DatesAreDays == Dates \subseteq Int

\* The critical rules of validate_silver_rows_for_publication.
Acceptable(k) ==
  /\ Columns[k].type \in {"view", "cart", "purchase"}
  /\ Columns[k].type = "purchase" => /\ Columns[k].price # None
                                     /\ Columns[k].price \in Int => Columns[k].price >= 0
Bad == {k \in Key : ~Acceptable(k)}

(***************************************************************************)
(* Files.                                                                  *)
(***************************************************************************)

NoFile == [there |-> FALSE, rows |-> {}, tail |-> FALSE]
Whole(S) == [there |-> TRUE, rows |-> S, tail |-> FALSE]

\* What a file may hold before it is closed: the buffers flushed so far.
Flushed(S) == {f \in [there : {TRUE}, rows : SUBSET S, tail : BOOLEAN] :
                 Cardinality(f.rows) \in Cuts /\ (f.tail => f.rows # S)}
\* The lines write_jsonl gets to before one that raises.
Writable(S) == {r \in S : \A q \in S \cap Long : r < q}
Prefixes(S) == {f \in Flushed(S) : \A r \in f.rows, q \in S : q < r => q \in f.rows}

\* canonicalize_record and the in-run deduplication: the keys of a set of rows.
Canonical(S) == {KeyOf[r] : r \in S \cap Valid}
Of(S, d) == {k \in Canonical(S) : DateOf[k] = d}
OutputDates(S) == {DateOf[k] : k \in Canonical(S)}

GateOff(S) == S \subseteq Row
\* An empty batch passes.
GatePasses(S) == Canonical(S) \cap Bad = {}

KeysOfOneDate(s) == silver[s][CHOOSE d \in Dates : TRUE].rows
SilverKeys(s) == UNION {silver[s][d].rows : d \in Dates}

Init == /\ raw = First
        /\ pc = [r \in Run |-> "new"]
        /\ batch = [r \in BronzeRun \cup SilverRun |-> {}]
        /\ counted = [g \in GoldRun |-> [k \in Key |-> 0]]
        /\ bronze = [b \in BronzeRun |-> NoFile]
        /\ silver = [s \in SilverRun |-> [d \in Dates |-> NoFile]]
        /\ quarantine = [s \in SilverRun |-> NoFile]
        /\ gold = [g \in GoldRun |-> {}]
        /\ manifest = [r \in Run |-> "none"]
        /\ reads = [r \in SilverRun \cup GoldRun |-> {}]
        /\ settled = [r \in SilverRun \cup GoldRun |-> {}]
        /\ crashes = 0

Running == {r \in Run : pc[r] \in {"open", "close", "reject", "rejected", "manifest"}}
MayStart == Cardinality(Running) < MaxRunning
Goto(r, from, to) == pc[r] = from /\ pc' = [pc EXCEPT ![r] = to]

\* New rows in the input directory.
Arrive(d) == /\ raw \subseteq d /\ raw # d
             /\ raw' = d
             /\ UNCHANGED <<pc, files, memory, manifest, crashes>>

(***************************************************************************)
(* run_bronze_backfill: the rows of all input files, one output file.      *)
(***************************************************************************)

OpenBronze(b) == /\ Goto(b, "new", "close")
                 /\ MayStart
                 /\ batch' = [batch EXCEPT ![b] = raw]
                 /\ \E f \in Prefixes(Writable(raw)) : bronze' = [bronze EXCEPT ![b] = f]
                 /\ UNCHANGED <<raw, silver, quarantine, gold, counted, reads, settled, manifest, crashes>>

\* An exception closes the file too: the lines before it stay.
CloseBronze(b) == /\ Goto(b, "close", IF batch[b] \cap Long = {} THEN "manifest" ELSE "raised")
                  /\ bronze' = [bronze EXCEPT ![b] = Whole(Writable(batch[b]))]
                  /\ UNCHANGED <<raw, silver, quarantine, gold, memory, manifest, crashes>>

(***************************************************************************)
(* run_bronze_to_silver: every Bronze file, one output file per date.      *)
(***************************************************************************)

ReadBronzeTolerant(s) ==
  LET found == {b \in BronzeRun : bronze[b].there}
      rows == UNION {bronze[b].rows : b \in found}
  IN /\ Goto(s, "new", IF GatePasses(rows) THEN "open" ELSE "reject") /\ MayStart
     /\ reads' = [reads EXCEPT ![s] = found]
     /\ settled' = [settled EXCEPT ![s] = {b \in found : manifest[b] = "succeeded"}]
     /\ batch' = [batch EXCEPT ![s] = rows]
     /\ UNCHANGED <<raw, counted, files, manifest, crashes>>
\* A run reads what other runs have written, whole or not; a cut line raises, and
\* so does an odd time.
ReadBronze(s) ==
  LET found == {b \in BronzeRun : bronze[b].there}
      rows == UNION {bronze[b].rows : b \in found}
  IN /\ pc[s] = "new" /\ MayStart
     /\ reads' = [reads EXCEPT ![s] = found]
     /\ settled' = [settled EXCEPT ![s] = {b \in found : manifest[b] = "succeeded"}]
     /\ batch' = [batch EXCEPT ![s] = rows]
     /\ pc' = [pc EXCEPT ![s] = IF (\E b \in found : bronze[b].tail) \/ rows \cap Raising # {}
                                 THEN "raised" ELSE IF GatePasses(rows) THEN "open" ELSE "reject"]
     /\ UNCHANGED <<raw, counted, files, manifest, crashes>>

\* The dates are written in order: d is the first without its file.
OpenDate(s, d) == /\ Goto(s, "open", "close")
                  /\ d \in OutputDates(batch[s])
                  /\ ~silver[s][d].there
                  /\ \A c \in OutputDates(batch[s]) : c < d => silver[s][c].there
                  /\ \E f \in Flushed(Of(batch[s], d)) : silver' = [silver EXCEPT ![s][d] = f]
                  /\ UNCHANGED <<raw, bronze, quarantine, gold, memory, manifest, crashes>>

CloseDate(s, d) == /\ Goto(s, "close", "open")
                   /\ silver[s][d].there
                   /\ \A c \in OutputDates(batch[s]) : c > d => ~silver[s][c].there
                   /\ silver' = [silver EXCEPT ![s][d] = Whole(Of(batch[s], d))]
                   /\ UNCHANGED <<raw, bronze, quarantine, gold, memory, manifest, crashes>>

\* Quarantine is the last file of a run that publishes, the only one of a run
\* that the gate rejects.
WriteQuarantine(s) ==
  /\ \/ Goto(s, "open", "manifest") /\ \A d \in OutputDates(batch[s]) : silver[s][d].there
     \/ Goto(s, "reject", "rejected")
  /\ quarantine' = [quarantine EXCEPT ![s] = Whole(batch[s] \cap Malformed)]
  /\ UNCHANGED <<raw, bronze, silver, gold, memory, manifest, crashes>>

(***************************************************************************)
(* run_silver_to_gold: every Silver file of every run, one file per table. *)
(***************************************************************************)

\* sorted() cannot order the ids of one date when one of them is NULL.
Sortable(keys) ==
  \A k, l \in keys : DateOf[k] = DateOf[l] =>
    /\ (Columns[k].user = None) = (Columns[l].user = None)
    /\ (Columns[k].product = None) = (Columns[l].product = None)

ReadSilver(g) ==
  LET found == {s \in SilverRun : \E d \in Dates : silver[s][d].there}
      keys == UNION {SilverKeys(s) : s \in found}
  IN /\ pc[g] = "new" /\ MayStart
     /\ reads' = [reads EXCEPT ![g] = found]
     /\ settled' = [settled EXCEPT ![g] = {s \in found : manifest[s] = "succeeded"}]
     /\ counted' = [counted EXCEPT ![g] = [k \in Key |-> Cardinality({s \in found : k \in SilverKeys(s)})]]
     /\ pc' = [pc EXCEPT ![g] = IF \/ \E s \in found, d \in Dates : silver[s][d].tail
                                    \/ ~Sortable(keys)
                                 THEN "raised" ELSE "open"]
     /\ UNCHANGED <<raw, batch, files, manifest, crashes>>

\* Empty tables are skipped.
ToWrite(g) == IF \A k \in Key : counted[g][k] = 0 THEN {} ELSE Table
WriteTable(g, t) == /\ pc[g] = "open"
                    /\ t \in ToWrite(g) \ gold[g]
                    /\ gold' = [gold EXCEPT ![g] = @ \cup {t}]
                    /\ UNCHANGED <<raw, pc, bronze, silver, quarantine, memory, manifest, crashes>>
FinishGold(g) == /\ Goto(g, "open", "manifest")
                 /\ gold[g] = ToWrite(g)
                 /\ UNCHANGED <<raw, files, memory, manifest, crashes>>

(***************************************************************************)
(* write_manifest: the file is truncated first, then written.              *)
(***************************************************************************)

OpenManifestFirst(r) == /\ pc[r] \in {"open", "close", "manifest", "rejected"}
                        /\ manifest[r] = "none"
                        /\ manifest' = [manifest EXCEPT ![r] = "torn"]
                        /\ UNCHANGED <<raw, pc, files, memory, crashes>>

OpenManifest(r) == /\ pc[r] \in {"manifest", "rejected"}
                   /\ manifest[r] = "none"
                   /\ manifest' = [manifest EXCEPT ![r] = "torn"]
                   /\ UNCHANGED <<raw, pc, files, memory, crashes>>

CloseManifestStep(r) == /\ pc[r] \in {"manifest", "rejected"}
                        /\ manifest[r] = "torn"
                        /\ manifest' = [manifest EXCEPT ![r] = pc[r]]
                        /\ pc' = [pc EXCEPT ![r] = "done"]
                        /\ UNCHANGED <<raw, files, memory, crashes>>

CloseManifest(r) == /\ pc[r] \in {"manifest", "rejected"}
                    /\ manifest[r] = "torn"
                    /\ manifest' = [manifest EXCEPT ![r] = IF pc[r] = "manifest" THEN "succeeded" ELSE "failed"]
                    /\ pc' = [pc EXCEPT ![r] = "done"]
                    /\ UNCHANGED <<raw, files, memory, crashes>>

Crash(r) == /\ pc[r] \notin {"new", "done", "raised", "dead"}
            /\ crashes < MaxCrashes
            /\ crashes' = crashes + 1
            /\ pc' = [pc EXCEPT ![r] = "dead"]
            /\ UNCHANGED <<raw, files, memory, manifest>>

BronzeStep(b) == OpenBronze(b) \/ CloseBronze(b)
SilverStep(s) == \/ ReadBronze(s)
                 \/ \E d \in Dates : OpenDate(s, d) \/ CloseDate(s, d)
                 \/ WriteQuarantine(s)
GoldStep(g) == ReadSilver(g) \/ FinishGold(g) \/ \E t \in Table : WriteTable(g, t)

Next == \/ \E d \in Later : Arrive(d)
        \/ \E b \in BronzeRun : BronzeStep(b)
        \/ \E s \in SilverRun : SilverStep(s)
        \/ \E g \in GoldRun : GoldStep(g)
        \/ \E r \in Run : OpenManifest(r) \/ CloseManifest(r) \/ Crash(r)

Spec == Init /\ [][Next]_vars

----
(***************************************************************************)
(* Properties.                                                             *)
(***************************************************************************)

FileOf(S) == [there : BOOLEAN, rows : SUBSET S, tail : BOOLEAN]
LocalTypeOK ==
  /\ raw \subseteq Row
  /\ pc \in [Run -> {"new", "open", "close", "reject", "rejected", "manifest", "done", "raised", "dead"}]
  /\ batch \in [BronzeRun \cup SilverRun -> SUBSET Row]
  /\ counted \in [GoldRun -> [Key -> Nat]]
  /\ bronze \in [BronzeRun -> FileOf(Row)]
  /\ silver \in [SilverRun -> [Dates -> FileOf(Key)]]
  /\ quarantine \in [SilverRun -> FileOf(Row)]
  /\ gold \in [GoldRun -> SUBSET Table]
  /\ manifest \in [Run -> {"none", "torn", "succeeded", "failed"}]
  /\ reads \in [SilverRun \cup GoldRun -> SUBSET Run]
  /\ settled \in [SilverRun \cup GoldRun -> SUBSET Run]
  /\ crashes \in 0 .. MaxCrashes

\* A manifest, even one cut off by a crash while it was written, stands for a run
\* whose files are all there and whole (common/manifests.py:46-68): a run that is
\* not recorded may have left anything, a run that is has left everything.
Published(s) == /\ \A d \in Dates : silver[s][d] = IF d \in OutputDates(batch[s]) THEN Whole(Of(batch[s], d)) ELSE NoFile
                /\ quarantine[s] = Whole(batch[s] \cap Malformed)
RecordedIsWhole ==
  /\ \A b \in BronzeRun : manifest[b] # "none" => bronze[b] = Whole(batch[b])
  /\ \A s \in SilverRun : /\ manifest[s] = "succeeded" => Published(s)
                          /\ manifest[s] = "torn" => Published(s) \/ ~GatePasses(batch[s])
                          /\ manifest[s] = "failed" => /\ \A d \in Dates : silver[s][d] = NoFile
                                                       /\ quarantine[s] = Whole(batch[s] \cap Malformed)
  /\ \A g \in GoldRun : manifest[g] # "none" => gold[g] = ToWrite(g)

\* Whatever was cut off or read half-written, nothing is made up and nothing bad
\* gets through: what Gold counts is in Silver, what is in Silver landed in
\* Bronze and came from the input, and no file of Silver, of a finished run or
\* of a dead one, holds an event that breaks a critical rule.
Lineage ==
  /\ \A g \in GoldRun, k \in Key : counted[g][k] > 0 => \E s \in SilverRun : k \in SilverKeys(s)
  /\ \A s \in SilverRun : SilverKeys(s) \subseteq Canonical(UNION {bronze[b].rows : b \in BronzeRun}) \ Bad
  /\ \A b \in BronzeRun : bronze[b].rows \subseteq raw

\* One run of each stage, each over the finished run before it, is exact: Gold
\* counts each event of the input once, and quarantine has the malformed ones.
Chain(b, s, g) == /\ reads[s] = {b} /\ settled[s] = {b}
                  /\ reads[g] = {s} /\ settled[g] = {s}
ChainExact ==
  \A b \in BronzeRun, s \in SilverRun, g \in GoldRun : Chain(b, s, g) =>
    /\ {k \in Key : counted[g][k] = 1} = Canonical(batch[b])
    /\ \A k \in Key : counted[g][k] <= 1
    /\ quarantine[s].rows = batch[b] \cap Malformed

\* Who reads while others write misses rows of theirs and is recorded as succeeded
\* all the same (transform.py:112, aggregate.py:249), but no row of a run that had
\* finished: Silver has all of their rows, and Gold counts an event at least once
\* for every finished Silver run that published it and at most once for every one
\* it read, which is once only over a chain of single runs.
Holding(R, k) == Cardinality({s \in R : k \in Canonical(batch[s])})
GoldCountsRuns ==
  /\ ChainExact
  /\ \A s \in SilverRun : UNION {batch[b] : b \in settled[s]} \subseteq batch[s]
  /\ \A g \in GoldRun, k \in Key : /\ Holding(settled[g], k) <= counted[g][k]
                                     /\ counted[g][k] <= Holding(reads[g], k)

\* One bad event, one odd time, or one file cut off by a crash, stops every later run of the
\* stage that reads it: from then on nothing is published (there is no repair).
Poisoned == \E b \in BronzeRun : /\ bronze[b].there
                                 /\ \/ pc[b] = "dead" /\ bronze[b].tail
                                    \/ Canonical(bronze[b].rows) \cap Bad # {}
                                    \/ bronze[b].rows \cap Raising # {}
NothingAfterPoison ==
  [][\A s \in SilverRun : pc[s] = "new" /\ Poisoned =>
       /\ \A d \in Dates : silver'[s][d] = NoFile
       /\ pc'[s] \in {"new", "raised", "reject"}]_vars
====
