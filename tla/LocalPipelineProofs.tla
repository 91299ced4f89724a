---- MODULE LocalPipelineProofs ----
(* What holds of the local pipeline for any rows, runs, faults and bounds. *)
EXTENDS LocalPipeline, FiniteSetTheorems, TLAPS

-----------------------------------------------------------------------------
(* Keys and files. *)

LEMMA Keys ==
  ASSUME NEW S \in SUBSET Row
  PROVE  /\ Canonical(S) \subseteq Key
         /\ OutputDates(S) \subseteq Dates
         /\ \A d \in Dates : Of(S, d) \subseteq Canonical(S)
         /\ \A k \in Canonical(S) : DateOf[k] \in OutputDates(S) /\ k \in Of(S, DateOf[k])
<1>1. Canonical(S) \subseteq Key
  BY DEF Canonical, Key
<1> QED
  BY <1>1 DEF OutputDates, Dates, Of

LEMMA CanonicalGrows ==
  ASSUME NEW S, NEW T, S \subseteq T
  PROVE  Canonical(S) \subseteq Canonical(T)
BY DEF Canonical

LEMMA FlushedIsPart ==
  ASSUME NEW S, NEW f \in Flushed(S)
  PROVE  /\ f.there /\ f.rows \subseteq S
         /\ \A T : S \subseteq T => f \in FileOf(T)
<1>1. f \in [there : {TRUE}, rows : SUBSET S, tail : BOOLEAN]
  BY DEF Flushed
<1>2. f.there /\ f.rows \subseteq S
  BY <1>1
<1>3. ASSUME NEW T, S \subseteq T PROVE f \in FileOf(T)
  BY <1>1, <1>3 DEF FileOf
<1> QED
  BY <1>2, <1>3

LEMMA WholeIsFile ==
  ASSUME NEW T, NEW S \in SUBSET T
  PROVE  Whole(S) \in FileOf(T)
BY DEF Whole, FileOf

LEMMA NoFileIsFile ==
  ASSUME NEW T
  PROVE  NoFile \in FileOf(T)
BY DEF NoFile, FileOf

-----------------------------------------------------------------------------
(* Types. *)

LEMMA TypesInit == Init => LocalTypeOK
<1> SUFFICES ASSUME Init PROVE LocalTypeOK
  OBVIOUS
<1> USE LocalAssumption DEF Init
<1>1. raw \subseteq Row /\ crashes \in 0 .. MaxCrashes
  OBVIOUS
<1>2. pc \in [Run -> {"new", "open", "close", "reject", "rejected", "manifest", "done", "raised", "dead"}]
  OBVIOUS
<1>3. batch \in [BronzeRun \cup SilverRun -> SUBSET Row]
  OBVIOUS
<1>4. counted \in [GoldRun -> [Key -> Nat]]
  OBVIOUS
<1>5. /\ bronze \in [BronzeRun -> FileOf(Row)]
      /\ silver \in [SilverRun -> [Dates -> FileOf(Key)]]
      /\ quarantine \in [SilverRun -> FileOf(Row)]
  BY NoFileIsFile
<1>6. gold \in [GoldRun -> SUBSET Table]
  OBVIOUS
<1>7. manifest \in [Run -> {"none", "torn", "succeeded", "failed"}]
  OBVIOUS
<1>8. reads \in [SilverRun \cup GoldRun -> SUBSET Run]
  OBVIOUS
<1>9. settled \in [SilverRun \cup GoldRun -> SUBSET Run]
  OBVIOUS
<1> QED
  BY <1>1, <1>2, <1>3, <1>4, <1>5, <1>6, <1>7, <1>8, <1>9 DEF LocalTypeOK

LEMMA TypesStep ==
  ASSUME LocalTypeOK, [Next]_vars
  PROVE  LocalTypeOK'
<1> USE LocalAssumption DEF LocalTypeOK, Run, files, memory, Goto
<1>1. ASSUME NEW d \in Later, Arrive(d) PROVE LocalTypeOK'
  BY <1>1 DEF Arrive
<1>2. ASSUME NEW b \in BronzeRun, OpenBronze(b) PROVE LocalTypeOK'
  <2>1. PICK f \in Prefixes(Writable(raw)) : bronze' = [bronze EXCEPT ![b] = f]
    BY <1>2 DEF OpenBronze
  <2>2. Writable(raw) \subseteq Row
    BY DEF Writable
  <2>3. f \in FileOf(Row)
    BY <2>1, <2>2, FlushedIsPart DEF Prefixes
  <2> QED
    BY <1>2, <2>1, <2>3 DEF OpenBronze
<1>3. ASSUME NEW b \in BronzeRun, CloseBronze(b) PROVE LocalTypeOK'
  <2>1. Whole(Writable(batch[b])) \in FileOf(Row)
    BY WholeIsFile DEF Writable
  <2> QED
    BY <1>3, <2>1 DEF CloseBronze
<1>4. ASSUME NEW s \in SilverRun, ReadBronze(s) PROVE LocalTypeOK'
  <2> DEFINE found == {b \in BronzeRun : bronze[b].there}
  <2>1. UNION {bronze[b].rows : b \in found} \subseteq Row
    BY DEF FileOf
  <2>3. settled' \in [SilverRun \cup GoldRun -> SUBSET Run]
    BY <1>4 DEF ReadBronze
  <2> QED
    BY <1>4, <2>1, <2>3 DEF ReadBronze
<1>5. ASSUME NEW s \in SilverRun, NEW d \in Dates, OpenDate(s, d) PROVE LocalTypeOK'
  <2>1. PICK f \in Flushed(Of(batch[s], d)) : silver' = [silver EXCEPT ![s][d] = f]
    BY <1>5 DEF OpenDate
  <2>2. Of(batch[s], d) \subseteq Key
    BY Keys
  <2>3. f \in FileOf(Key)
    BY <2>2, FlushedIsPart
  <2>4. silver' \in [SilverRun -> [Dates -> FileOf(Key)]]
    BY <2>1, <2>3
  <2> QED
    BY <1>5, <2>4 DEF OpenDate
<1>6. ASSUME NEW s \in SilverRun, NEW d \in Dates, CloseDate(s, d) PROVE LocalTypeOK'
  <2>1. Whole(Of(batch[s], d)) \in FileOf(Key)
    BY Keys, WholeIsFile
  <2>2. silver' \in [SilverRun -> [Dates -> FileOf(Key)]]
    BY <1>6, <2>1 DEF CloseDate
  <2> QED
    BY <1>6, <2>2 DEF CloseDate
<1>7. ASSUME NEW s \in SilverRun, WriteQuarantine(s) PROVE LocalTypeOK'
  <2>1. Whole(batch[s] \cap Malformed) \in FileOf(Row)
    BY WholeIsFile
  <2> QED
    BY <1>7, <2>1 DEF WriteQuarantine
<1>8. ASSUME NEW g \in GoldRun, ReadSilver(g) PROVE LocalTypeOK'
  <2> DEFINE found == {s \in SilverRun : \E d \in Dates : silver[s][d].there}
             n(k) == Cardinality({s \in found : k \in SilverKeys(s)})
  <2>1. ASSUME NEW k \in Key PROVE n(k) \in Nat
    <3>1. {s \in found : k \in SilverKeys(s)} \subseteq SilverRun
      OBVIOUS
    <3> QED
      BY <3>1, FS_Subset, FS_CardinalityType
  <2>2. [k \in Key |-> n(k)] \in [Key -> Nat]
    BY <2>1
  <2>4. settled' \in [SilverRun \cup GoldRun -> SUBSET Run]
    BY <1>8 DEF ReadSilver
  <2>5. counted' \in [GoldRun -> [Key -> Nat]]
    <3>1. counted' = [counted EXCEPT ![g] = [k \in Key |-> n(k)]]
      BY <1>8 DEF ReadSilver
    <3> HIDE DEF n
    <3> QED
      BY <3>1, <2>2
  <2> QED
    BY <1>8, <2>4, <2>5 DEF ReadSilver
<1>9. ASSUME NEW g \in GoldRun, NEW t \in Table, WriteTable(g, t) PROVE LocalTypeOK'
  BY <1>9 DEF WriteTable
<1>10. ASSUME NEW g \in GoldRun, FinishGold(g) PROVE LocalTypeOK'
  BY <1>10 DEF FinishGold
<1>11. ASSUME NEW r \in Run, OpenManifest(r) PROVE LocalTypeOK'
  BY <1>11 DEF OpenManifest
<1>12. ASSUME NEW r \in Run, CloseManifest(r) PROVE LocalTypeOK'
  BY <1>12 DEF CloseManifest
<1>13. ASSUME NEW r \in Run, Crash(r) PROVE LocalTypeOK'
  BY <1>13 DEF Crash
<1>14. ASSUME UNCHANGED vars PROVE LocalTypeOK'
  BY <1>14 DEF vars
<1> HIDE DEF LocalTypeOK
<1> QED
  BY <1>1, <1>2, <1>3, <1>4, <1>5, <1>6, <1>7, <1>8, <1>9, <1>10, <1>11, <1>12, <1>13, <1>14
  DEF Next, BronzeStep, SilverStep, GoldStep

\* Types, for any rows, runs and bounds.
THEOREM LocalTypes == Spec => []LocalTypeOK
BY TypesInit, TypesStep, PTL DEF Spec
-----------------------------------------------------------------------------
(* Bronze. *)

Recorded(r) == manifest[r] # "none"

\* A run of Bronze has written a part of what it can write of the rows it read, and all of them by the
\* time its manifest is opened.
BronzeSound(b) ==
  /\ pc[b] \in {"new", "close", "manifest", "raised", "done", "dead"}
  /\ Recorded(b) => pc[b] \in {"manifest", "done", "dead"}
  /\ pc[b] = "new" => bronze[b] = NoFile
  /\ batch[b] \subseteq raw
  /\ bronze[b].rows \subseteq Writable(batch[b])
  /\ pc[b] = "manifest" \/ Recorded(b) => bronze[b] = Whole(batch[b])
BronzeInv == \A b \in BronzeRun : BronzeSound(b)

LEMMA BronzeInit == Init => BronzeInv
BY LocalAssumption DEF Init, BronzeInv, BronzeSound, Recorded, NoFile, Run

\* A step that leaves a run of Bronze and its files alone.
LEMMA BronzeFrame ==
  ASSUME NEW b \in BronzeRun, BronzeSound(b), raw \subseteq raw',
         pc'[b] = pc[b], batch'[b] = batch[b], bronze'[b] = bronze[b], manifest'[b] = manifest[b]
  PROVE  BronzeSound(b)'
BY DEF BronzeSound, Recorded, Writable

LEMMA BronzeKept ==
  ASSUME LocalTypeOK, BronzeInv, [Next]_vars
  PROVE  BronzeInv'
<1> SUFFICES ASSUME NEW b \in BronzeRun PROVE BronzeSound(b)'
  BY DEF BronzeInv
<1>b. BronzeSound(b)
  BY DEF BronzeInv
<1> USE LocalAssumption DEF LocalTypeOK, Run, files, memory, Goto
<1>1. ASSUME NEW d \in Later, Arrive(d) PROVE BronzeSound(b)'
  BY <1>1, <1>b, BronzeFrame DEF Arrive
<1>2. ASSUME NEW c \in BronzeRun, OpenBronze(c) PROVE BronzeSound(b)'
  <2>1. CASE c # b
    BY <1>2, <2>1, <1>b, BronzeFrame DEF OpenBronze
  <2>2. CASE c = b
    <3>1. PICK f \in Prefixes(Writable(raw)) : bronze' = [bronze EXCEPT ![b] = f]
      BY <1>2, <2>2 DEF OpenBronze
    <3>2. f.rows \subseteq Writable(raw)
      BY <3>1, FlushedIsPart DEF Prefixes
    <3>3. bronze'[b] = f /\ batch'[b] = raw /\ pc'[b] = "close" /\ raw' = raw /\ manifest' = manifest
      BY <1>2, <2>2, <3>1 DEF OpenBronze
    <3>4. ~Recorded(b)
      BY <1>2, <2>2, <1>b DEF OpenBronze, BronzeSound
    <3> QED
      BY <3>2, <3>3, <3>4, <1>b DEF BronzeSound, Recorded, Writable
  <2> QED
    BY <2>1, <2>2
<1>3. ASSUME NEW c \in BronzeRun, CloseBronze(c) PROVE BronzeSound(b)'
  <2>1. CASE c # b
    BY <1>3, <2>1, <1>b, BronzeFrame DEF CloseBronze
  <2>2. CASE c = b
    <3>1. bronze'[b] = Whole(Writable(batch[b])) /\ batch'[b] = batch[b] /\ manifest' = manifest /\ raw' = raw
      BY <1>3, <2>2 DEF CloseBronze
    <3>2. pc[b] = "close" /\ pc'[b] = IF batch[b] \cap Long = {} THEN "manifest" ELSE "raised"
      BY <1>3, <2>2 DEF CloseBronze
    <3>3. batch[b] \cap Long = {} => Writable(batch[b]) = batch[b]
      BY DEF Writable
    <3>4. ~Recorded(b)
      BY <3>2, <1>b DEF BronzeSound
    <3>5. bronze'[b].rows = Writable(batch[b])
      BY <3>1 DEF Whole
    <3> QED
      BY <3>1, <3>2, <3>3, <3>4, <3>5, <1>b DEF BronzeSound, Recorded, Writable
  <2> QED
    BY <2>1, <2>2
<1>4. ASSUME NEW s \in SilverRun, ReadBronze(s) PROVE BronzeSound(b)'
  BY <1>4, <1>b, BronzeFrame DEF ReadBronze
<1>5. ASSUME NEW s \in SilverRun, NEW d \in Dates, OpenDate(s, d) \/ CloseDate(s, d) PROVE BronzeSound(b)'
  <2>1. UNCHANGED <<raw, batch, bronze, manifest>>
    BY <1>5 DEF OpenDate, CloseDate
  <2>2. pc'[b] = pc[b]
    BY <1>5 DEF OpenDate, CloseDate
  <2> QED
    BY <2>1, <2>2, <1>b, BronzeFrame
<1>6. ASSUME NEW s \in SilverRun, WriteQuarantine(s) PROVE BronzeSound(b)'
  BY <1>6, <1>b, BronzeFrame DEF WriteQuarantine
<1>7. ASSUME NEW g \in GoldRun, GoldStep(g) PROVE BronzeSound(b)'
  <2>1. UNCHANGED <<raw, batch, bronze, manifest>>
    BY <1>7 DEF GoldStep, ReadSilver, FinishGold, WriteTable
  <2>2. pc'[b] = pc[b]
    BY <1>7 DEF GoldStep, ReadSilver, FinishGold, WriteTable
  <2> QED
    BY <2>1, <2>2, <1>b, BronzeFrame
<1>8. ASSUME NEW r \in Run, OpenManifest(r) \/ CloseManifest(r) \/ Crash(r) PROVE BronzeSound(b)'
  <2>1. CASE r # b
    BY <1>8, <2>1, <1>b, BronzeFrame DEF OpenManifest, CloseManifest, Crash
  <2>2. CASE r = b
    BY <1>8, <2>2, <1>b DEF OpenManifest, CloseManifest, Crash, BronzeSound, Recorded, Writable
  <2> QED
    BY <2>1, <2>2
<1>9. ASSUME UNCHANGED vars PROVE BronzeSound(b)'
  BY <1>9, <1>b, BronzeFrame DEF vars
<1> QED
  BY <1>1, <1>2, <1>3, <1>4, <1>5, <1>6, <1>7, <1>8, <1>9 DEF Next, BronzeStep, SilverStep

\* Files of Bronze only grow, a run that has started keeps its rows, and a recorded one its manifest.
LEMMA BronzeGrows ==
  ASSUME LocalTypeOK, BronzeInv, [Next]_vars, NEW b \in BronzeRun
  PROVE  /\ bronze[b].rows \subseteq bronze'[b].rows
         /\ manifest[b] = "succeeded" => manifest'[b] = "succeeded"
         /\ pc[b] # "new" => pc'[b] # "new" /\ batch'[b] = batch[b]
<1> USE LocalAssumption DEF LocalTypeOK, Run, files, memory, Goto
<1>b. BronzeSound(b)
  BY DEF BronzeInv
<1>1. CASE UNCHANGED <<bronze, manifest>> /\ batch'[b] = batch[b] /\ pc'[b] = pc[b]
  BY <1>1
<1>2. ASSUME NEW c \in BronzeRun, OpenBronze(c) \/ CloseBronze(c)
      PROVE  /\ bronze[b].rows \subseteq bronze'[b].rows
             /\ manifest[b] = "succeeded" => manifest'[b] = "succeeded"
             /\ pc[b] # "new" => pc'[b] # "new" /\ batch'[b] = batch[b]
  <2>1. CASE c # b
    BY <1>2, <2>1 DEF OpenBronze, CloseBronze
  <2>2. CASE c = b /\ OpenBronze(b)
    BY <2>2, <1>b DEF OpenBronze, BronzeSound, Recorded, NoFile
  <2>3. CASE c = b /\ CloseBronze(b)
    BY <2>3, <1>b DEF CloseBronze, BronzeSound, Recorded, Whole
  <2> QED
    BY <1>2, <2>1, <2>2, <2>3
<1>3. ASSUME NEW s \in SilverRun, SilverStep(s) PROVE UNCHANGED <<bronze, manifest>> /\ batch'[b] = batch[b] /\ pc'[b] = pc[b]
  <2>1. CASE ReadBronze(s) \/ WriteQuarantine(s)
    BY <2>1 DEF ReadBronze, WriteQuarantine
  <2>2. ASSUME NEW d \in Dates, OpenDate(s, d) \/ CloseDate(s, d)
        PROVE  UNCHANGED <<bronze, manifest>> /\ batch'[b] = batch[b] /\ pc'[b] = pc[b]
    <3>1. UNCHANGED <<bronze, manifest, batch>>
      BY <2>2 DEF OpenDate, CloseDate
    <3>2. pc'[b] = pc[b]
      BY <2>2 DEF OpenDate, CloseDate
    <3> QED
      BY <3>1, <3>2
  <2> QED
    BY <1>3, <2>1, <2>2 DEF SilverStep
<1>4. ASSUME NEW g \in GoldRun, GoldStep(g) PROVE UNCHANGED <<batch, bronze, manifest>> /\ pc'[b] = pc[b]
  BY <1>4 DEF GoldStep, ReadSilver, FinishGold, WriteTable
<1>5. ASSUME NEW r \in Run, OpenManifest(r) \/ CloseManifest(r)
      PROVE  /\ UNCHANGED <<batch, bronze>> /\ (manifest[b] = "succeeded" => manifest'[b] = "succeeded")
             /\ pc[b] # "new" => pc'[b] # "new"
  BY <1>5 DEF OpenManifest, CloseManifest
<1>6. ASSUME NEW r \in Run, Crash(r) PROVE UNCHANGED <<batch, bronze, manifest>> /\ (pc[b] # "new" => pc'[b] # "new")
  BY <1>6 DEF Crash
<1>7. ASSUME NEW d \in Later, Arrive(d) PROVE UNCHANGED <<batch, bronze, manifest, pc>>
  BY <1>7 DEF Arrive
<1>8. ASSUME UNCHANGED vars PROVE UNCHANGED <<batch, bronze, manifest, pc>>
  BY <1>8 DEF vars
<1> QED
  BY <1>1, <1>2, <1>3, <1>4, <1>5, <1>6, <1>7, <1>8 DEF Next, BronzeStep
-----------------------------------------------------------------------------
(* Silver. *)

There(s, d) == silver[s][d].there
Closed(s, d) == silver[s][d] = Whole(Of(batch[s], d))
Clear(s) == \A d \in Dates : silver[s][d] = NoFile
Rejected(s) == /\ ~GatePasses(batch[s])
               /\ Clear(s)
               /\ quarantine[s] = Whole(batch[s] \cap Malformed)

\* A file, cut off or not, holds keys of its date out of a batch that the gate let pass.
Part(s) == \A d \in Dates : /\ silver[s][d].rows \subseteq Of(batch[s], d)
                            /\ There(s, d) => d \in OutputDates(batch[s]) /\ GatePasses(batch[s])
                            /\ ~There(s, d) => silver[s][d] = NoFile

\* Dates are written in order, each file is closed before the next one is opened.
Ordered(s) == \A c, d \in OutputDates(batch[s]) : c < d /\ There(s, d) => There(s, c)
AllClosed(s) == \A d \in Dates : There(s, d) => Closed(s, d)
LastOpen(s) == \A d \in Dates : There(s, d) => \/ Closed(s, d)
                                               \/ \A c \in OutputDates(batch[s]) : c > d => ~There(s, c)

Progress(s) == /\ pc[s] \in {"new", "reject"} => Clear(s)
               /\ pc[s] \in {"open", "close"} => GatePasses(batch[s]) /\ Ordered(s)
               /\ pc[s] = "reject" => ~GatePasses(batch[s])
               /\ pc[s] = "open" => AllClosed(s)
               /\ pc[s] = "close" => LastOpen(s)
               /\ pc[s] = "manifest" => Published(s)
               /\ pc[s] = "rejected" => Rejected(s)
Manifests(s) == /\ Recorded(s) => pc[s] \in {"manifest", "rejected", "done", "dead"}
                /\ manifest[s] = "succeeded" => Published(s)
                /\ manifest[s] = "failed" => Rejected(s)
                /\ manifest[s] = "torn" => Published(s) \/ Rejected(s)
SilverSound(s) == Part(s) /\ Progress(s) /\ Manifests(s)
SilverInv == \A s \in SilverRun : SilverSound(s)

LEMMA SilverInit == Init => SilverInv
<1> SUFFICES ASSUME Init, NEW s \in SilverRun PROVE SilverSound(s)
  BY DEF SilverInv
<1>1. pc[s] = "new" /\ manifest[s] = "none" /\ \A d \in Dates : silver[s][d] = NoFile
  BY DEF Init, Run
<1> QED
  BY <1>1 DEF SilverSound, Part, There, NoFile, Progress, Manifests, Clear, Recorded

\* A step that leaves a run of Silver and its files alone.
LEMMA SilverFrame ==
  ASSUME NEW s \in SilverRun, SilverSound(s),
         pc'[s] = pc[s], batch'[s] = batch[s], silver'[s] = silver[s],
         quarantine'[s] = quarantine[s], manifest'[s] = manifest[s]
  PROVE  SilverSound(s)'
BY DEF SilverSound, Part, There, Progress, Manifests, Clear, Recorded, Closed, Rejected, Ordered, AllClosed, LastOpen, Published

LEMMA ReadBronzeSound ==
  ASSUME LocalTypeOK, NEW s \in SilverRun, SilverSound(s), ReadBronze(s)
  PROVE  SilverSound(s)'
<1> USE LocalAssumption DEF LocalTypeOK, Run
<1>1. /\ pc[s] = "new" /\ UNCHANGED <<silver, manifest>>
      /\ pc'[s] \in {"raised", "open", "reject"}
      /\ pc'[s] = "open" => GatePasses(batch'[s])
      /\ pc'[s] = "reject" => ~GatePasses(batch'[s])
  BY DEF ReadBronze, files
<1>2. ~Recorded(s)'
  BY <1>1 DEF SilverSound, Manifests, Recorded
<1>3. \A d \in Dates : silver'[s][d] = NoFile
  BY <1>1 DEF SilverSound, Progress, Clear
<1>4. \A d \in Dates : ~There(s, d)'
  BY <1>3 DEF There, NoFile
<1>5. Part(s)'
  BY <1>3, <1>4 DEF Part, NoFile
<1>6. Progress(s)'
  <2>1. OutputDates(batch'[s]) \subseteq Dates
    <3>1. batch'[s] \subseteq Row
      BY TypesStep DEF Next, SilverStep
    <3> QED
      BY <3>1, Keys
  <2> QED
    BY <1>1, <1>3, <1>4, <2>1 DEF Progress, Clear, Ordered, AllClosed
<1>7. Manifests(s)'
  BY <1>1, <1>2 DEF Manifests, Recorded
<1> QED
  BY <1>5, <1>6, <1>7 DEF SilverSound

LEMMA OpenDateSound ==
  ASSUME LocalTypeOK, NEW s \in SilverRun, NEW d \in Dates, SilverSound(s), OpenDate(s, d)
  PROVE  SilverSound(s)'
<1> USE LocalAssumption, DatesAreDays DEF LocalTypeOK, Run
<1>1. PICK f \in Flushed(Of(batch[s], d)) : silver' = [silver EXCEPT ![s][d] = f]
  BY DEF OpenDate
<1>2. f.there /\ f.rows \subseteq Of(batch[s], d)
  BY <1>1, FlushedIsPart
<1>3. /\ pc[s] = "open" /\ pc'[s] = "close" /\ batch' = batch /\ manifest' = manifest
      /\ d \in OutputDates(batch[s]) /\ ~There(s, d)
      /\ \A c \in OutputDates(batch[s]) : c < d => There(s, c)
  BY DEF OpenDate, Goto, memory, There
<1>4. silver'[s][d] = f /\ \A c \in Dates \ {d} : silver'[s][c] = silver[s][c]
  BY <1>1
<1>5. GatePasses(batch[s]) /\ Ordered(s) /\ AllClosed(s) /\ Part(s) /\ ~Recorded(s)
  BY <1>3 DEF SilverSound, Progress, Manifests
<1>6. OutputDates(batch[s]) \subseteq Dates
  BY Keys
<1>7. There(s, d)' /\ \A c \in Dates \ {d} : There(s, c)' = There(s, c)
  BY <1>2, <1>4 DEF There
<1>8. Part(s)'
  BY <1>2, <1>3, <1>4, <1>5, <1>7 DEF Part
<1>9. Ordered(s)'
  BY <1>3, <1>5, <1>6, <1>7 DEF Ordered
<1>10. LastOpen(s)'
  <2>1. ASSUME NEW c \in OutputDates(batch[s]), c > d PROVE ~There(s, c)
    BY <1>3, <1>5, <1>6, <2>1 DEF Ordered
  <2>2. ASSUME NEW c \in Dates \ {d}, There(s, c)' PROVE Closed(s, c)'
    BY <1>3, <1>4, <1>5, <1>7, <2>2 DEF AllClosed, Closed
  <2> QED
    BY <1>3, <1>6, <1>7, <2>1, <2>2 DEF LastOpen
<1>11. Progress(s)' /\ Manifests(s)'
  BY <1>3, <1>5, <1>9, <1>10 DEF Progress, Manifests, Recorded
<1> QED
  BY <1>8, <1>11 DEF SilverSound

LEMMA CloseDateSound ==
  ASSUME LocalTypeOK, NEW s \in SilverRun, NEW d \in Dates, SilverSound(s), CloseDate(s, d)
  PROVE  SilverSound(s)'
<1> USE LocalAssumption, DatesAreDays DEF LocalTypeOK, Run
<1>1. /\ pc[s] = "close" /\ pc'[s] = "open" /\ batch' = batch /\ manifest' = manifest
      /\ There(s, d)
      /\ \A c \in OutputDates(batch[s]) : c > d => ~There(s, c)
  BY DEF CloseDate, Goto, memory, There
<1>2. /\ silver'[s][d] = Whole(Of(batch[s], d))
      /\ \A c \in Dates \ {d} : silver'[s][c] = silver[s][c]
  BY DEF CloseDate
<1>3. GatePasses(batch[s]) /\ Ordered(s) /\ LastOpen(s) /\ Part(s) /\ ~Recorded(s)
  BY <1>1 DEF SilverSound, Progress, Manifests
<1>4. OutputDates(batch[s]) \subseteq Dates
  BY Keys
<1>5. There(s, d)' /\ \A c \in Dates \ {d} : There(s, c)' = There(s, c)
  BY <1>2 DEF There, Whole
<1>6. Part(s)'
  BY <1>1, <1>2, <1>3, <1>5 DEF Part, Whole
<1>7. Ordered(s)'
  BY <1>1, <1>3, <1>4, <1>5 DEF Ordered
<1>8. AllClosed(s)'
  <2>1. Closed(s, d)'
    BY <1>1, <1>2 DEF Closed
  <2>2. ASSUME NEW c \in Dates \ {d}, There(s, c)' PROVE Closed(s, c)'
    <3>1. There(s, c) /\ c \in OutputDates(batch[s]) /\ d \in OutputDates(batch[s])
      BY <1>1, <1>3, <1>5, <2>2 DEF Part
    <3>2. ~(c > d) /\ c \in Int /\ d \in Int
      BY <1>1, <3>1
    <3>3. d > c
      BY <3>2
    <3>4. Closed(s, c)
      BY <1>1, <1>3, <3>1, <3>3 DEF LastOpen
    <3> QED
      BY <1>1, <1>2, <3>4 DEF Closed
  <2> QED
    BY <2>1, <2>2 DEF AllClosed
<1>9. Progress(s)' /\ Manifests(s)'
  BY <1>1, <1>3, <1>7, <1>8 DEF Progress, Manifests, Recorded
<1> QED
  BY <1>6, <1>9 DEF SilverSound

LEMMA WriteQuarantineSound ==
  ASSUME LocalTypeOK, NEW s \in SilverRun, SilverSound(s), WriteQuarantine(s)
  PROVE  SilverSound(s)'
<1> USE LocalAssumption DEF LocalTypeOK, Run
<1>1. /\ quarantine'[s] = Whole(batch[s] \cap Malformed)
      /\ UNCHANGED <<silver, batch, manifest>>
      /\ \/ pc[s] = "open" /\ pc'[s] = "manifest" /\ \A d \in OutputDates(batch[s]) : There(s, d)
         \/ pc[s] = "reject" /\ pc'[s] = "rejected"
  BY DEF WriteQuarantine, Goto, memory, There
<1>2. Part(s)'
  BY <1>1 DEF SilverSound, Part, There
<1>3. Manifests(s)'
  BY <1>1 DEF SilverSound, Manifests, Recorded
<1>4. CASE pc[s] = "open"
  <2>1. AllClosed(s) /\ Part(s)
    BY <1>4 DEF SilverSound, Progress
  <2>2. ASSUME NEW d \in Dates
        PROVE  silver'[s][d] = IF d \in OutputDates(batch[s]) THEN Whole(Of(batch[s], d)) ELSE NoFile
    BY <1>1, <1>4, <2>1 DEF AllClosed, Closed, Part
  <2>3. Published(s)'
    BY <1>1, <2>2 DEF Published
  <2> QED
    BY <1>1, <1>2, <1>3, <1>4, <2>3 DEF SilverSound, Progress
<1>5. CASE pc[s] = "reject"
  <2>1. Rejected(s)'
    BY <1>1, <1>5 DEF SilverSound, Progress, Rejected, Clear
  <2> QED
    BY <1>1, <1>2, <1>3, <1>5, <2>1 DEF SilverSound, Progress
<1> QED
  BY <1>1, <1>4, <1>5

\* A manifest is written, or the run dies: no file changes.
LEMMA RecordSound ==
  ASSUME LocalTypeOK, NEW s \in SilverRun, SilverSound(s), OpenManifest(s) \/ CloseManifest(s) \/ Crash(s)
  PROVE  SilverSound(s)'
<1> USE LocalAssumption DEF LocalTypeOK, Run, files, memory
<1>1. UNCHANGED <<silver, quarantine, batch>>
  BY DEF OpenManifest, CloseManifest, Crash
<1>2. Part(s)'
  BY <1>1 DEF SilverSound, Part, There
<1>3. /\ Published(s)' <=> Published(s)
      /\ Rejected(s)' <=> Rejected(s)
  BY <1>1 DEF Published, Rejected, Clear
<1>4. CASE OpenManifest(s)
  <2>1. manifest'[s] = "torn" /\ pc'[s] = pc[s] /\ pc[s] \in {"manifest", "rejected"}
    BY <1>4 DEF OpenManifest
  <2> QED
    BY <1>2, <1>3, <2>1 DEF SilverSound, Progress, Manifests, Recorded
<1>5. CASE CloseManifest(s)
  <2>1. /\ pc'[s] = "done"
        /\ \/ pc[s] = "manifest" /\ manifest'[s] = "succeeded"
           \/ pc[s] = "rejected" /\ manifest'[s] = "failed"
    BY <1>5 DEF CloseManifest
  <2> QED
    BY <1>2, <1>3, <2>1 DEF SilverSound, Progress, Manifests, Recorded
<1>6. CASE Crash(s)
  <2>1. manifest' = manifest /\ pc'[s] = "dead"
    BY <1>6 DEF Crash
  <2> QED
    BY <1>2, <1>3, <2>1 DEF SilverSound, Progress, Manifests, Recorded
<1> QED
  BY <1>4, <1>5, <1>6

LEMMA SilverKept ==
  ASSUME LocalTypeOK, SilverInv, [Next]_vars
  PROVE  SilverInv'
<1> SUFFICES ASSUME NEW s \in SilverRun PROVE SilverSound(s)'
  BY DEF SilverInv
<1>s. SilverSound(s)
  BY DEF SilverInv
<1> USE LocalAssumption DEF LocalTypeOK, Run, files, memory, Goto
<1>1. CASE ReadBronze(s)
  BY <1>1, <1>s, ReadBronzeSound
<1>2. ASSUME NEW d \in Dates, OpenDate(s, d) \/ CloseDate(s, d) PROVE SilverSound(s)'
  BY <1>2, <1>s, OpenDateSound, CloseDateSound
<1>3. CASE WriteQuarantine(s)
  BY <1>3, <1>s, WriteQuarantineSound
<1>4. CASE OpenManifest(s) \/ CloseManifest(s) \/ Crash(s)
  BY <1>4, <1>s, RecordSound
<1>5. ASSUME NEW t \in SilverRun \ {s}, SilverStep(t) PROVE SilverSound(s)'
  <2>1. CASE ReadBronze(t)
    BY <1>s, <2>1, SilverFrame DEF ReadBronze
  <2>2. ASSUME NEW d \in Dates, OpenDate(t, d) \/ CloseDate(t, d) PROVE SilverSound(s)'
    <3>1. UNCHANGED <<batch, quarantine, manifest>> /\ pc'[s] = pc[s]
      BY <2>2 DEF OpenDate, CloseDate
    <3>2. silver'[s] = silver[s]
      BY <2>2 DEF OpenDate, CloseDate
    <3> QED
      BY <3>1, <3>2, <1>s, SilverFrame
  <2>3. CASE WriteQuarantine(t)
    BY <1>s, <2>3, SilverFrame DEF WriteQuarantine
  <2> QED
    BY <1>5, <2>1, <2>2, <2>3 DEF SilverStep
<1>6. ASSUME NEW r \in Run \ {s}, OpenManifest(r) \/ CloseManifest(r) \/ Crash(r) PROVE SilverSound(s)'
  BY <1>6, <1>s, SilverFrame DEF OpenManifest, CloseManifest, Crash
<1>7. ASSUME NEW b \in BronzeRun, BronzeStep(b) PROVE SilverSound(s)'
  BY <1>7, <1>s, SilverFrame DEF BronzeStep, OpenBronze, CloseBronze
<1>8. ASSUME NEW g \in GoldRun, GoldStep(g) PROVE SilverSound(s)'
  <2>1. UNCHANGED <<batch, silver, quarantine, manifest>>
    BY <1>8 DEF GoldStep, ReadSilver, FinishGold, WriteTable
  <2>2. pc'[s] = pc[s]
    BY <1>8 DEF GoldStep, ReadSilver, FinishGold, WriteTable
  <2> QED
    BY <2>1, <2>2, <1>s, SilverFrame
<1>9. ASSUME NEW d \in Later, Arrive(d) PROVE SilverSound(s)'
  BY <1>9, <1>s, SilverFrame DEF Arrive
<1>10. ASSUME UNCHANGED vars PROVE SilverSound(s)'
  BY <1>10, <1>s, SilverFrame DEF vars
<1>11. CASE \E t \in SilverRun : SilverStep(t)
  BY <1>1, <1>2, <1>3, <1>5, <1>11 DEF SilverStep
<1>12. CASE \E r \in Run : OpenManifest(r) \/ CloseManifest(r) \/ Crash(r)
  BY <1>4, <1>6, <1>12
<1> QED
  BY <1>7, <1>8, <1>9, <1>10, <1>11, <1>12 DEF Next

\* Files of Silver only grow, and a run that has started keeps its rows.
LEMMA SilverGrows ==
  ASSUME LocalTypeOK, SilverInv, [Next]_vars, NEW s \in SilverRun
  PROVE  /\ SilverKeys(s) \subseteq SilverKeys(s)'
         /\ manifest[s] = "succeeded" => manifest'[s] = "succeeded"
         /\ pc[s] # "new" => pc'[s] # "new" /\ batch'[s] = batch[s]
<1> USE LocalAssumption DEF LocalTypeOK, Run, files, memory, Goto
<1>s. SilverSound(s)
  BY DEF SilverInv
<1> DEFINE Goal == /\ SilverKeys(s) \subseteq SilverKeys(s)'
                   /\ manifest[s] = "succeeded" => manifest'[s] = "succeeded"
                   /\ pc[s] # "new" => pc'[s] # "new" /\ batch'[s] = batch[s]
<1>0. ASSUME silver'[s] = silver[s], batch'[s] = batch[s], pc[s] # "new" => pc'[s] # "new",
             manifest[s] = "succeeded" => manifest'[s] = "succeeded"
      PROVE  Goal
  BY <1>0 DEF SilverKeys
<1>1. ASSUME NEW t \in SilverRun, ReadBronze(t) PROVE Goal
  <2>1. silver' = silver /\ manifest' = manifest
    BY <1>1 DEF ReadBronze
  <2>2. pc[s] # "new" => t # s
    BY <1>1 DEF ReadBronze
  <2>3. t # s => batch'[s] = batch[s] /\ pc'[s] = pc[s]
    BY <1>1 DEF ReadBronze
  <2> QED
    BY <2>1, <2>2, <2>3 DEF SilverKeys
<1>2. ASSUME NEW t \in SilverRun, NEW d \in Dates, OpenDate(t, d) \/ CloseDate(t, d) PROVE Goal
  <2>1. manifest' = manifest /\ batch' = batch
    BY <1>2 DEF OpenDate, CloseDate
  <2>4. pc[s] # "new" => pc'[s] # "new"
    BY <1>2 DEF OpenDate, CloseDate
  <2>2. CASE t # s
    <3>1. silver'[s] = silver[s]
      BY <1>2, <2>2 DEF OpenDate, CloseDate
    <3> QED
      BY <1>0, <2>1, <2>4, <3>1
  <2>3. CASE t = s
    <3>3. \A c \in Dates \ {d} : silver'[s][c] = silver[s][c]
      BY <1>2, <2>3 DEF OpenDate, CloseDate
    <3>4. silver[s][d].rows \subseteq silver'[s][d].rows
      <4>1. CASE OpenDate(s, d)
        <5>1. silver[s][d].rows = {}
          BY <4>1, <1>s DEF OpenDate, SilverSound, Part, There, NoFile
        <5> QED
          BY <5>1
      <4>2. CASE CloseDate(s, d)
        <5>1. silver'[s][d].rows = Of(batch[s], d)
          BY <4>2 DEF CloseDate, Whole
        <5> QED
          BY <5>1, <1>s DEF SilverSound, Part
      <4> QED
        BY <1>2, <2>3, <4>1, <4>2
    <3>5. \A c \in Dates : silver[s][c].rows \subseteq silver'[s][c].rows
      BY <3>3, <3>4
    <3> QED
      BY <2>1, <2>4, <3>5 DEF SilverKeys
  <2> QED
    BY <2>2, <2>3
<1>3. ASSUME NEW t \in SilverRun, WriteQuarantine(t) PROVE Goal
  <2>1. silver' = silver /\ manifest' = manifest /\ batch' = batch
    BY <1>3 DEF WriteQuarantine
  <2>2. pc[s] # "new" => pc'[s] # "new"
    BY <1>3 DEF WriteQuarantine
  <2> QED
    BY <1>0, <2>1, <2>2
<1>4. ASSUME NEW b \in BronzeRun, BronzeStep(b) PROVE Goal
  BY <1>0, <1>4 DEF BronzeStep, OpenBronze, CloseBronze
<1>5. ASSUME NEW g \in GoldRun, GoldStep(g) PROVE Goal
  BY <1>0, <1>5 DEF GoldStep, ReadSilver, FinishGold, WriteTable
<1>6. ASSUME NEW r \in Run, OpenManifest(r) \/ CloseManifest(r) \/ Crash(r) PROVE Goal
  <2>1. UNCHANGED files /\ batch' = batch
    BY <1>6 DEF OpenManifest, CloseManifest, Crash
  <2>2. manifest[s] = "succeeded" => manifest'[s] = "succeeded"
    BY <1>6 DEF OpenManifest, CloseManifest, Crash
  <2>3. pc[s] # "new" => pc'[s] # "new"
    BY <1>6 DEF OpenManifest, CloseManifest, Crash
  <2> QED
    BY <1>0, <2>1, <2>2, <2>3
<1>7. ASSUME NEW d \in Later, Arrive(d) PROVE Goal
  BY <1>0, <1>7 DEF Arrive
<1>8. ASSUME UNCHANGED vars PROVE Goal
  BY <1>0, <1>8 DEF vars
<1> HIDE DEF Goal
<1>9. Goal
  BY <1>1, <1>2, <1>3, <1>4, <1>5, <1>6, <1>7, <1>8 DEF Next, SilverStep
<1> QED
  BY <1>9 DEF Goal

LEMMA PublishedKeys ==
  ASSUME LocalTypeOK, NEW s \in SilverRun, Published(s)
  PROVE  SilverKeys(s) = Canonical(batch[s])
<1>1. batch[s] \in SUBSET Row
  BY DEF LocalTypeOK
<1>2. \A d \in Dates : silver[s][d].rows = IF d \in OutputDates(batch[s]) THEN Of(batch[s], d) ELSE {}
  <2> SUFFICES ASSUME NEW d \in Dates PROVE silver[s][d].rows = IF d \in OutputDates(batch[s]) THEN Of(batch[s], d) ELSE {}
    OBVIOUS
  <2>1. CASE d \in OutputDates(batch[s])
    <3>1. silver[s][d] = Whole(Of(batch[s], d))
      BY <2>1 DEF Published
    <3> QED
      BY <2>1, <3>1 DEF Whole
  <2>2. CASE d \notin OutputDates(batch[s])
    <3>1. silver[s][d] = NoFile
      BY <2>2 DEF Published
    <3> QED
      BY <2>2, <3>1 DEF NoFile
  <2> QED
    BY <2>1, <2>2
<1>3. \A k \in Canonical(batch[s]) : DateOf[k] \in Dates /\ k \in silver[s][DateOf[k]].rows
  BY <1>1, <1>2, Keys
<1>4. \A d \in Dates : silver[s][d].rows \subseteq Canonical(batch[s])
  BY <1>1, <1>2, Keys
<1> QED
  BY <1>3, <1>4 DEF SilverKeys

-----------------------------------------------------------------------------
(* What a run of Silver read. *)

Succeeded(R) == \A r \in R : manifest[r] = "succeeded"

\* What it holds has landed in Bronze and is of the runs it read: all the rows of those that had
\* succeeded, some of the rows of the others.
InputSound(s) == /\ batch[s] \subseteq UNION {bronze[b].rows : b \in BronzeRun}
                 /\ settled[s] \subseteq reads[s] /\ reads[s] \subseteq BronzeRun
                 /\ Succeeded(settled[s])
                 /\ \A b \in reads[s] : pc[b] # "new"
                 /\ \A b \in settled[s] : batch[b] \subseteq batch[s]
                 /\ \A r \in batch[s] : \E b \in reads[s] : r \in batch[b]
InputInv == \A s \in SilverRun : InputSound(s)

LEMMA InputInit == Init => InputInv
BY DEF Init, InputInv, InputSound, Succeeded

LEMMA InputFrame ==
  ASSUME LocalTypeOK, BronzeInv, [Next]_vars, NEW s \in SilverRun, InputSound(s),
         batch'[s] = batch[s], settled'[s] = settled[s], reads'[s] = reads[s]
  PROVE  InputSound(s)'
<1>1. batch'[s] \subseteq UNION {bronze'[b].rows : b \in BronzeRun}
  BY BronzeGrows DEF InputSound
<1>2. \A b \in reads[s] : pc'[b] # "new" /\ batch'[b] = batch[b]
  BY BronzeGrows DEF InputSound
<1>3. \A b \in settled[s] : manifest'[b] = "succeeded"
  BY BronzeGrows DEF InputSound, Succeeded
<1> QED
  BY <1>1, <1>2, <1>3 DEF InputSound, Succeeded

LEMMA InputKept ==
  ASSUME LocalTypeOK, BronzeInv, InputInv, [Next]_vars
  PROVE  InputInv'
<1> SUFFICES ASSUME NEW s \in SilverRun PROVE InputSound(s)'
  BY DEF InputInv
<1>i. InputSound(s)
  BY DEF InputInv
<1> USE LocalAssumption DEF LocalTypeOK, Run, files, memory, Goto
<1> DEFINE Same == batch'[s] = batch[s] /\ settled'[s] = settled[s] /\ reads'[s] = reads[s]
<1>1. CASE ReadBronze(s)
  <2> DEFINE found == {b \in BronzeRun : bronze[b].there}
  <2>1. /\ UNCHANGED <<bronze, manifest>>
        /\ batch'[s] = UNION {bronze[b].rows : b \in found}
        /\ reads'[s] = found
        /\ \A b \in BronzeRun : batch'[b] = batch[b]
    BY <1>1 DEF ReadBronze
  <2>2. settled'[s] = {b \in found : manifest[b] = "succeeded"}
    BY <1>1 DEF ReadBronze
  <2>3. ASSUME NEW b \in found, manifest[b] = "succeeded" PROVE bronze[b].rows = batch'[b]
    BY <2>1, <2>3 DEF BronzeInv, BronzeSound, Recorded, Whole
  <2>4. ASSUME NEW b \in found PROVE bronze[b].rows \subseteq batch'[b] /\ pc[b] # "new" /\ pc'[b] = pc[b]
    <3>1. bronze[b].rows \subseteq batch[b] /\ pc[b] # "new"
      BY <2>4 DEF BronzeInv, BronzeSound, Writable, NoFile
    <3>2. pc'[b] = pc[b]
      BY <1>1 DEF ReadBronze
    <3> QED
      BY <2>1, <3>1, <3>2
  <2>5. batch'[s] \subseteq UNION {bronze'[b].rows : b \in BronzeRun}
    BY <2>1
  <2>6. \A b \in settled'[s] : manifest'[b] = "succeeded" /\ batch'[b] \subseteq batch'[s]
    BY <2>1, <2>2, <2>3
  <2>7. \A b \in reads'[s] : pc'[b] # "new"
    BY <2>1, <2>4
  <2>8. \A r \in batch'[s] : \E b \in reads'[s] : r \in batch'[b]
    BY <2>1, <2>4
  <2> QED
    BY <2>1, <2>2, <2>5, <2>6, <2>7, <2>8 DEF InputSound, Succeeded
<1>2. ASSUME NEW t \in SilverRun \ {s}, SilverStep(t) PROVE Same
  BY <1>2 DEF SilverStep, ReadBronze, OpenDate, CloseDate, WriteQuarantine
<1>3. ASSUME NEW d \in Dates, OpenDate(s, d) \/ CloseDate(s, d) \/ WriteQuarantine(s) PROVE Same
  BY <1>3 DEF OpenDate, CloseDate, WriteQuarantine
<1>4. ASSUME WriteQuarantine(s) PROVE Same
  BY <1>4 DEF WriteQuarantine
<1>5. ASSUME NEW b \in BronzeRun, BronzeStep(b) PROVE Same
  BY <1>5 DEF BronzeStep, OpenBronze, CloseBronze
<1>6. ASSUME NEW g \in GoldRun, GoldStep(g) PROVE Same
  BY <1>6 DEF GoldStep, ReadSilver, FinishGold, WriteTable
<1>7. ASSUME NEW r \in Run, OpenManifest(r) \/ CloseManifest(r) \/ Crash(r) PROVE Same
  BY <1>7 DEF OpenManifest, CloseManifest, Crash
<1>8. ASSUME NEW d \in Later, Arrive(d) PROVE Same
  BY <1>8 DEF Arrive
<1>9. ASSUME UNCHANGED vars PROVE Same
  BY <1>9 DEF vars
<1>10. Same => InputSound(s)'
  BY <1>i, InputFrame
<1> HIDE DEF Same
<1>11. CASE \E t \in SilverRun : SilverStep(t)
  BY <1>1, <1>2, <1>3, <1>4, <1>10, <1>11 DEF SilverStep
<1> QED
  BY <1>5, <1>6, <1>7, <1>8, <1>9, <1>10, <1>11 DEF Next

-----------------------------------------------------------------------------
(* Gold. *)

Bounds(g) == \A k \in Key : /\ Holding(settled[g], k) <= counted[g][k]
                            /\ counted[g][k] <= Holding(reads[g], k)

GoldSound(g) ==
  /\ pc[g] \in {"new", "open", "manifest", "raised", "done", "dead"}
  /\ Recorded(g) => pc[g] \in {"manifest", "done", "dead"}
  /\ pc[g] = "manifest" \/ Recorded(g) => gold[g] = ToWrite(g)
  /\ \A k \in Key : counted[g][k] > 0 => \E s \in SilverRun : k \in SilverKeys(s)
  /\ settled[g] \subseteq reads[g] /\ reads[g] \subseteq SilverRun
  /\ Succeeded(settled[g])
  /\ \A s \in reads[g] : pc[s] # "new"
  /\ Bounds(g)
GoldInv == \A g \in GoldRun : GoldSound(g)

LEMMA GoldInit == Init => GoldInv
<1> SUFFICES ASSUME Init, NEW g \in GoldRun PROVE GoldSound(g)
  BY DEF GoldInv
<1>1. reads[g] = {} /\ settled[g] = {} /\ \A k \in Key : counted[g][k] = 0
  BY DEF Init
<1>2. ASSUME NEW k \in Key PROVE Holding({}, k) = 0
  <2>1. {s \in {} : k \in Canonical(batch[s])} = {}
    OBVIOUS
  <2> QED
    BY <2>1, FS_EmptySet DEF Holding
<1>3. Bounds(g)
  BY <1>1, <1>2 DEF Bounds
<1> QED
  BY <1>1, <1>3 DEF Init, GoldSound, Recorded, Succeeded, Run

\* What a run of Gold counted stays true of the runs it read.
LEMMA CountsKept ==
  ASSUME LocalTypeOK, SilverInv, [Next]_vars, NEW g \in GoldRun, GoldSound(g),
         counted'[g] = counted[g], settled'[g] = settled[g], reads'[g] = reads[g]
  PROVE  /\ \A k \in Key : counted'[g][k] > 0 => \E s \in SilverRun : k \in SilverKeys(s)'
         /\ Succeeded(settled[g])'
         /\ \A s \in reads'[g] : pc'[s] # "new"
         /\ Bounds(g)'
<1>1. ASSUME NEW k \in Key, counted'[g][k] > 0 PROVE \E s \in SilverRun : k \in SilverKeys(s)'
  <2>1. PICK s \in SilverRun : k \in SilverKeys(s)
    BY <1>1 DEF GoldSound
  <2> QED
    BY <2>1, SilverGrows
<1>2. \A s \in reads[g] : pc'[s] # "new" /\ batch'[s] = batch[s]
  BY SilverGrows DEF GoldSound
<1>3. \A s \in settled[g] : manifest'[s] = "succeeded"
  BY SilverGrows DEF GoldSound, Succeeded
<1>4. ASSUME NEW R \in SUBSET reads[g], NEW k \in Key PROVE Holding(R, k)' = Holding(R, k)
  <2>1. {s \in R : k \in Canonical(batch'[s])} = {s \in R : k \in Canonical(batch[s])}
    BY <1>2
  <2> QED
    BY <2>1 DEF Holding, Canonical
<1>5. Bounds(g)'
  BY <1>4 DEF GoldSound, Bounds
<1> QED
  BY <1>1, <1>2, <1>3, <1>5 DEF Succeeded

LEMMA ReadSilverSound ==
  ASSUME LocalTypeOK, SilverInv, NEW g \in GoldRun, GoldSound(g), ReadSilver(g)
  PROVE  GoldSound(g)'
<1> USE LocalAssumption DEF LocalTypeOK, Run, files
<1> DEFINE found == {s \in SilverRun : \E d \in Dates : silver[s][d].there}
           count(k) == Cardinality({s \in found : k \in SilverKeys(s)})
<1>1. /\ pc[g] = "new" /\ pc'[g] \in {"raised", "open"}
      /\ UNCHANGED <<silver, manifest>>
      /\ reads'[g] = found
      /\ \A s \in SilverRun : batch'[s] = batch[s]
  BY DEF ReadSilver
<1>2. settled'[g] = {s \in found : manifest[s] = "succeeded"}
  BY DEF ReadSilver
<1>3. counted'[g] = [k \in Key |-> count(k)]
  BY DEF ReadSilver
<1>4. \A k \in Key : counted'[g][k] = count(k)
  <2> HIDE DEF count
  <2> QED
    BY <1>3
<1>5. ~Recorded(g)'
  BY <1>1 DEF GoldSound, Recorded
<1>6. ASSUME NEW k \in Key, counted'[g][k] > 0 PROVE \E s \in SilverRun : k \in SilverKeys(s)'
  <2>1. count(k) # 0
    BY <1>4, <1>6
  <2>2. {s \in found : k \in SilverKeys(s)} # {}
    BY <2>1, FS_EmptySet
  <2>3. PICK s \in SilverRun : k \in SilverKeys(s)
    BY <2>2
  <2> QED
    BY <1>1, <2>3 DEF SilverKeys
<1>7. ASSUME NEW s \in found
      PROVE  /\ pc'[s] # "new"
             /\ SilverKeys(s) \subseteq Canonical(batch'[s])
             /\ manifest[s] = "succeeded" => SilverKeys(s) = Canonical(batch'[s])
  <2>1. SilverSound(s) /\ batch[s] \in SUBSET Row
    BY DEF SilverInv
  <2>2. pc[s] # "new"
    BY <2>1 DEF SilverSound, Progress, Clear, NoFile
  <2>3. pc'[s] = pc[s]
    BY DEF ReadSilver
  <2>4. SilverKeys(s) \subseteq Canonical(batch[s])
    BY <2>1, Keys DEF SilverSound, Part, SilverKeys
  <2>5. manifest[s] = "succeeded" => SilverKeys(s) = Canonical(batch[s])
    BY <2>1, PublishedKeys DEF SilverSound, Manifests
  <2> QED
    BY <1>1, <2>2, <2>3, <2>4, <2>5
<1>8. ASSUME NEW k \in Key
      PROVE  /\ Holding(settled[g], k)' <= counted'[g][k]
             /\ counted'[g][k] <= Holding(reads[g], k)'
  <2> DEFINE low == {s \in settled'[g] : k \in Canonical(batch'[s])}
             mid == {s \in found : k \in SilverKeys(s)}
             top == {s \in reads'[g] : k \in Canonical(batch'[s])}
  <2>1. low \subseteq mid /\ mid \subseteq top
    BY <1>1, <1>2, <1>7
  <2>2. IsFiniteSet(top)
    <3>1. top \subseteq SilverRun
      BY <1>1
    <3> QED
      BY <3>1, FS_Subset
  <2>3. Cardinality(low) <= Cardinality(mid) /\ Cardinality(mid) <= Cardinality(top)
    <3> HIDE DEF low, mid, top
    <3>1. IsFiniteSet(mid)
      BY <2>1, <2>2, FS_Subset
    <3> QED
      BY <2>1, <2>2, <3>1, FS_Subset
  <2>4. Holding(settled[g], k)' = Cardinality(low) /\ Holding(reads[g], k)' = Cardinality(top)
    BY DEF Holding, Canonical
  <2>5. counted'[g][k] = Cardinality(mid)
    BY <1>4
  <2> QED
    BY <2>3, <2>4, <2>5
<1>9. Bounds(g)'
  BY <1>8 DEF Bounds
<1>10. settled'[g] \subseteq reads'[g] /\ reads'[g] \subseteq SilverRun /\ Succeeded(settled[g])'
  BY <1>1, <1>2 DEF Succeeded
<1>11. \A s \in reads'[g] : pc'[s] # "new"
  BY <1>1, <1>7
<1> QED
  BY <1>1, <1>5, <1>6, <1>9, <1>10, <1>11 DEF GoldSound

LEMMA GoldFrame ==
  ASSUME LocalTypeOK, SilverInv, [Next]_vars, NEW g \in GoldRun, GoldSound(g),
         counted'[g] = counted[g], settled'[g] = settled[g], reads'[g] = reads[g],
         pc'[g] \in {"new", "open", "manifest", "raised", "done", "dead"},
         Recorded(g)' => pc'[g] \in {"manifest", "done", "dead"},
         pc'[g] = "manifest" \/ Recorded(g)' => gold'[g] = ToWrite(g)
  PROVE  GoldSound(g)'
<1>1. ToWrite(g)' = ToWrite(g)
  BY DEF ToWrite
<1>2. /\ \A k \in Key : counted'[g][k] > 0 => \E s \in SilverRun : k \in SilverKeys(s)'
      /\ Succeeded(settled[g])'
      /\ \A s \in reads'[g] : pc'[s] # "new"
      /\ Bounds(g)'
  BY CountsKept
<1> QED
  BY <1>1, <1>2 DEF GoldSound

LEMMA GoldKept ==
  ASSUME LocalTypeOK, SilverInv, GoldInv, [Next]_vars
  PROVE  GoldInv'
<1> SUFFICES ASSUME NEW g \in GoldRun PROVE GoldSound(g)'
  BY DEF GoldInv
<1>g. GoldSound(g)
  BY DEF GoldInv
<1> USE LocalAssumption DEF LocalTypeOK, Run, files, memory, Goto
<1> DEFINE Same == UNCHANGED <<counted[g], settled[g], reads[g]>>
           Idle == Same /\ UNCHANGED <<pc[g], gold[g], manifest[g]>>
<1>1. ASSUME Same,
             pc'[g] \in {"new", "open", "manifest", "raised", "done", "dead"},
             Recorded(g)' => pc'[g] \in {"manifest", "done", "dead"},
             pc'[g] = "manifest" \/ Recorded(g)' => gold'[g] = ToWrite(g)
      PROVE  GoldSound(g)'
  BY <1>1, <1>g, GoldFrame
<1>2. ASSUME Idle PROVE GoldSound(g)'
  BY <1>1, <1>2, <1>g DEF GoldSound, Recorded
<1>3. CASE ReadSilver(g)
  BY <1>3, <1>g, ReadSilverSound
<1>4. ASSUME NEW t \in Table, WriteTable(g, t) PROVE GoldSound(g)'
  BY <1>1, <1>4, <1>g DEF WriteTable, GoldSound, Recorded
<1>5. CASE FinishGold(g)
  BY <1>1, <1>5, <1>g DEF FinishGold, GoldSound, Recorded
<1>6. ASSUME NEW h \in GoldRun \ {g}, GoldStep(h) PROVE Idle
  BY <1>6 DEF GoldStep, ReadSilver, FinishGold, WriteTable
<1>7. CASE OpenManifest(g) \/ CloseManifest(g) \/ Crash(g)
  <2>1. gold' = gold /\ Same
    BY <1>7 DEF OpenManifest, CloseManifest, Crash
  <2>2. CASE OpenManifest(g)
    BY <1>1, <1>g, <2>1, <2>2 DEF OpenManifest, GoldSound, Recorded
  <2>3. CASE CloseManifest(g)
    BY <1>1, <1>g, <2>1, <2>3 DEF CloseManifest, GoldSound, Recorded
  <2>4. CASE Crash(g)
    BY <1>1, <1>g, <2>1, <2>4 DEF Crash, GoldSound, Recorded
  <2> QED
    BY <1>7, <2>2, <2>3, <2>4
<1>8. ASSUME NEW r \in Run \ {g}, OpenManifest(r) \/ CloseManifest(r) \/ Crash(r) PROVE Idle
  BY <1>8 DEF OpenManifest, CloseManifest, Crash
<1>9. ASSUME NEW b \in BronzeRun, BronzeStep(b) PROVE Idle
  BY <1>9 DEF BronzeStep, OpenBronze, CloseBronze
<1>10. ASSUME NEW s \in SilverRun, ReadBronze(s) \/ WriteQuarantine(s) PROVE Idle
  BY <1>10 DEF ReadBronze, WriteQuarantine
<1>11. ASSUME NEW s \in SilverRun, NEW d \in Dates, OpenDate(s, d) \/ CloseDate(s, d) PROVE Idle
  <2>1. UNCHANGED <<counted, settled, reads, gold, manifest>>
    BY <1>11 DEF OpenDate, CloseDate
  <2>2. pc'[g] = pc[g]
    BY <1>11 DEF OpenDate, CloseDate
  <2> QED
    BY <2>1, <2>2
<1>12. ASSUME NEW d \in Later, Arrive(d) PROVE Idle
  BY <1>12 DEF Arrive
<1>13. ASSUME UNCHANGED vars PROVE Idle
  BY <1>13 DEF vars
<1> HIDE DEF Idle, Same
<1>14. CASE \E h \in GoldRun : GoldStep(h)
  <2>1. PICK h \in GoldRun : GoldStep(h)
    BY <1>14
  <2>2. CASE h = g
    BY <1>3, <1>4, <1>5, <2>1, <2>2 DEF GoldStep
  <2>3. CASE h # g
    BY <1>2, <1>6, <2>1, <2>3
  <2> QED
    BY <2>2, <2>3
<1>15. CASE \E r \in Run : OpenManifest(r) \/ CloseManifest(r) \/ Crash(r)
  BY <1>2, <1>7, <1>8, <1>15
<1> QED
  BY <1>2, <1>9, <1>10, <1>11, <1>12, <1>13, <1>14, <1>15 DEF Next, SilverStep

-----------------------------------------------------------------------------
(* The properties. *)

LocalInv == LocalTypeOK /\ BronzeInv /\ SilverInv /\ InputInv /\ GoldInv

LEMMA LocalInvAlways == Spec => []LocalInv
<1>1. Init => LocalInv
  BY TypesInit, BronzeInit, SilverInit, InputInit, GoldInit DEF LocalInv
<1>2. LocalInv /\ [Next]_vars => LocalInv'
  BY TypesStep, BronzeKept, SilverKept, InputKept, GoldKept DEF LocalInv
<1> QED
  BY <1>1, <1>2, PTL DEF Spec

\* A manifest, even a torn one, stands for a run whose files are all there and whole.
THEOREM RecordedIsWholeAlways == Spec => []RecordedIsWhole
<1>1. LocalInv => RecordedIsWhole
  <2> SUFFICES ASSUME LocalInv PROVE RecordedIsWhole
    OBVIOUS
  <2>1. \A b \in BronzeRun : manifest[b] # "none" => bronze[b] = Whole(batch[b])
    BY DEF LocalInv, BronzeInv, BronzeSound, Recorded
  <2>2. ASSUME NEW s \in SilverRun
        PROVE  /\ manifest[s] = "succeeded" => Published(s)
               /\ manifest[s] = "torn" => Published(s) \/ ~GatePasses(batch[s])
               /\ manifest[s] = "failed" => /\ \A d \in Dates : silver[s][d] = NoFile
                                            /\ quarantine[s] = Whole(batch[s] \cap Malformed)
    BY DEF LocalInv, SilverInv, SilverSound, Manifests, Rejected, Clear
  <2>3. \A g \in GoldRun : manifest[g] # "none" => gold[g] = ToWrite(g)
    BY DEF LocalInv, GoldInv, GoldSound, Recorded
  <2> QED
    BY <2>1, <2>2, <2>3 DEF RecordedIsWhole
<1> QED
  BY <1>1, LocalInvAlways, PTL

\* What is counted is in Silver, what is in Silver landed in Bronze and passes the gate, what is in
\* Bronze was in the input, whatever was cut off or read half-written.
THEOREM LineageAlways == Spec => []Lineage
<1>1. LocalInv => Lineage
  <2> SUFFICES ASSUME LocalInv PROVE Lineage
    OBVIOUS
  <2>1. \A g \in GoldRun, k \in Key : counted[g][k] > 0 => \E s \in SilverRun : k \in SilverKeys(s)
    BY DEF LocalInv, GoldInv, GoldSound
  <2>2. ASSUME NEW s \in SilverRun
        PROVE  SilverKeys(s) \subseteq Canonical(UNION {bronze[b].rows : b \in BronzeRun}) \ Bad
    <3>1. batch[s] \in SUBSET Row /\ batch[s] \subseteq UNION {bronze[b].rows : b \in BronzeRun}
      BY DEF LocalInv, LocalTypeOK, InputInv, InputSound
    <3>2. ASSUME NEW d \in Dates, NEW k \in silver[s][d].rows PROVE k \in Canonical(batch[s]) \ Bad
      <4>1. k \in Of(batch[s], d)
        BY <3>2 DEF LocalInv, SilverInv, SilverSound, Part
      <4>2. There(s, d)
        BY <3>2 DEF LocalInv, SilverInv, SilverSound, Part, NoFile
      <4>3. GatePasses(batch[s])
        BY <4>2 DEF LocalInv, SilverInv, SilverSound, Part
      <4> QED
        BY <3>1, <4>1, <4>3, Keys DEF GatePasses
    <3> QED
      BY <3>1, <3>2, CanonicalGrows DEF SilverKeys
  <2>3. \A b \in BronzeRun : bronze[b].rows \subseteq raw
    BY DEF LocalInv, BronzeInv, BronzeSound, Writable
  <2> QED
    BY <2>1, <2>2, <2>3 DEF Lineage
<1> QED
  BY <1>1, LocalInvAlways, PTL

\* Nothing is missing from Silver of a Bronze run that had finished when it was read, Gold counts an
\* event once for every finished Silver run that published it and not more than once for every run it
\* read, and exactly once over a chain of single runs.
THEOREM GoldCountsRunsAlways == Spec => []GoldCountsRuns
<1>1. ASSUME LocalInv, NEW s \in SilverRun
      PROVE  UNION {batch[b] : b \in settled[s]} \subseteq batch[s]
  BY <1>1 DEF LocalInv, InputInv, InputSound
<1>2. ASSUME LocalInv, NEW g \in GoldRun, NEW k \in Key
      PROVE  /\ Holding(settled[g], k) <= counted[g][k]
             /\ counted[g][k] <= Holding(reads[g], k)
  BY <1>2 DEF LocalInv, GoldInv, GoldSound, Bounds
<1>3. ASSUME LocalInv, NEW b \in BronzeRun, NEW s \in SilverRun, NEW g \in GoldRun, Chain(b, s, g)
      PROVE  /\ {k \in Key : counted[g][k] = 1} = Canonical(batch[b])
             /\ \A k \in Key : counted[g][k] <= 1
             /\ quarantine[s].rows = batch[b] \cap Malformed
  <2>1. batch[s] = batch[b]
    <3>1. InputSound(s) /\ reads[s] = {b} /\ settled[s] = {b}
      BY <1>3 DEF Chain, LocalInv, InputInv
    <3>2. batch[b] \subseteq batch[s]
      BY <3>1 DEF InputSound
    <3>3. batch[s] \subseteq batch[b]
      BY <3>1 DEF InputSound
    <3> QED
      BY <3>2, <3>3
  <2>2. ASSUME NEW k \in Key PROVE counted[g][k] = IF k \in Canonical(batch[b]) THEN 1 ELSE 0
    <3>1. Holding({s}, k) <= counted[g][k] /\ counted[g][k] <= Holding({s}, k)
      <4>1. reads[g] = {s} /\ settled[g] = {s}
        BY <1>3 DEF Chain
      <4> QED
        BY <1>2, <1>3, <4>1
    <3>4. counted[g][k] \in Nat
      BY <1>3 DEF LocalInv, LocalTypeOK
    <3>2. CASE k \in Canonical(batch[b])
      <4>1. {t \in {s} : k \in Canonical(batch[t])} = {s}
        BY <2>1, <3>2
      <4>2. Holding({s}, k) = 1
        BY <4>1, FS_Singleton DEF Holding
      <4> QED
        BY <3>1, <3>2, <3>4, <4>2
    <3>3. CASE k \notin Canonical(batch[b])
      <4>1. {t \in {s} : k \in Canonical(batch[t])} = {}
        BY <2>1, <3>3
      <4>2. Holding({s}, k) = 0
        BY <4>1, FS_EmptySet DEF Holding
      <4> QED
        BY <3>1, <3>3, <3>4, <4>2
    <3> QED
      BY <3>2, <3>3
  <2>3. Canonical(batch[b]) \subseteq Key
    BY <1>3, Keys DEF LocalInv, LocalTypeOK
  <2>4. manifest[s] = "succeeded"
    BY <1>3 DEF Chain, LocalInv, GoldInv, GoldSound, Succeeded
  <2>5. quarantine[s] = Whole(batch[s] \cap Malformed)
    BY <1>3, <2>4 DEF LocalInv, SilverInv, SilverSound, Manifests, Published
  <2> QED
    BY <2>1, <2>2, <2>3, <2>5 DEF Whole
<1>4. LocalInv => GoldCountsRuns
  BY <1>1, <1>2, <1>3 DEF GoldCountsRuns, ChainExact
<1> QED
  BY <1>4, LocalInvAlways, PTL

\* Once Bronze holds a bad event, an odd time, or a file that ends in a cut line, no run of Silver that starts later
\* publishes anything.
THEOREM NothingAfterPoisonAlways == Spec => NothingAfterPoison
<1>1. ASSUME LocalInv, [Next]_vars, NEW s \in SilverRun, pc[s] = "new", Poisoned
      PROVE  /\ \A d \in Dates : silver'[s][d] = NoFile
             /\ pc'[s] \in {"new", "raised", "reject"}
  <2> USE LocalAssumption DEF Run, files, memory, Goto
  <2>t. LocalTypeOK
    BY <1>1 DEF LocalInv
  <2>1. Clear(s)
    BY <1>1 DEF LocalInv, SilverInv, SilverSound, Progress
  <2>2. CASE ReadBronze(s)
    <3> DEFINE found == {b \in BronzeRun : bronze[b].there}
               rows == UNION {bronze[b].rows : b \in found}
    <3>1. PICK b \in found : \/ bronze[b].tail
                             \/ Canonical(bronze[b].rows) \cap Bad # {}
                             \/ bronze[b].rows \cap Raising # {}
      BY <1>1 DEF Poisoned
    <3>2. bronze[b].rows \subseteq rows
      BY <3>1
    <3>3. Canonical(bronze[b].rows) \subseteq Canonical(rows)
      BY <3>2, CanonicalGrows
    <3>4. (\E a \in found : bronze[a].tail) \/ rows \cap Raising # {} \/ ~GatePasses(rows)
      BY <3>1, <3>2, <3>3 DEF GatePasses
    <3>5. pc'[s] \in {"raised", "reject"} /\ silver' = silver
      BY <2>2, <2>t, <3>4 DEF ReadBronze, LocalTypeOK
    <3> QED
      BY <2>1, <3>5 DEF Clear
  <2>3. ASSUME ~ReadBronze(s) PROVE silver'[s] = silver[s] /\ pc'[s] = "new"
    <3> USE <2>t DEF LocalTypeOK
    <3>1. ASSUME NEW t \in SilverRun, ReadBronze(t) \/ WriteQuarantine(t) PROVE silver' = silver /\ pc'[s] = "new"
      BY <1>1, <2>3, <3>1 DEF ReadBronze, WriteQuarantine
    <3>2. ASSUME NEW t \in SilverRun, NEW d \in Dates, OpenDate(t, d) \/ CloseDate(t, d)
          PROVE  silver'[s] = silver[s] /\ pc'[s] = "new"
      <4>1. t # s
        BY <1>1, <3>2 DEF OpenDate, CloseDate
      <4>2. silver'[s] = silver[s]
        BY <3>2, <4>1 DEF OpenDate, CloseDate
      <4>3. pc'[s] = pc[s]
        BY <3>2, <4>1 DEF OpenDate, CloseDate
      <4> QED
        BY <1>1, <4>2, <4>3
    <3>3. ASSUME NEW b \in BronzeRun, BronzeStep(b) PROVE silver' = silver /\ pc'[s] = "new"
      BY <1>1, <3>3 DEF BronzeStep, OpenBronze, CloseBronze
    <3>4. ASSUME NEW g \in GoldRun, GoldStep(g) PROVE silver' = silver /\ pc'[s] = "new"
      BY <1>1, <3>4 DEF GoldStep, ReadSilver, FinishGold, WriteTable
    <3>5. ASSUME NEW r \in Run, OpenManifest(r) \/ CloseManifest(r) \/ Crash(r) PROVE silver' = silver /\ pc'[s] = "new"
      BY <1>1, <3>5 DEF OpenManifest, CloseManifest, Crash
    <3>6. ASSUME NEW d \in Later, Arrive(d) PROVE silver' = silver /\ pc'[s] = "new"
      BY <1>1, <3>6 DEF Arrive
    <3>7. ASSUME UNCHANGED vars PROVE silver' = silver /\ pc'[s] = "new"
      BY <1>1, <3>7 DEF vars
    <3> HIDE DEF LocalTypeOK
    <3> QED
      BY <1>1, <3>1, <3>2, <3>3, <3>4, <3>5, <3>6, <3>7 DEF Next, SilverStep
  <2> QED
    BY <2>1, <2>2, <2>3 DEF Clear
<1>2. LocalInv /\ [Next]_vars =>
        [\A s \in SilverRun : pc[s] = "new" /\ Poisoned =>
           /\ \A d \in Dates : silver'[s][d] = NoFile
           /\ pc'[s] \in {"new", "raised", "reject"}]_vars
  BY <1>1
<1> QED
  BY <1>2, LocalInvAlways, PTL DEF NothingAfterPoison, Spec
====
