---- MODULE MedallionProofs ----
(***************************************************************************)
(* What every run of the medallion jobs keeps true, whatever the jobs,     *)
(* batches, rows and tables: the tables and the manifest first, then Gold, *)
(* then runs and the runs of the same batch again.                         *)
(***************************************************************************)
EXTENDS Medallion, TLAPS

\* Every refresh has a first table.
LEMMA FirstTable ==
  ASSUME NEW j \in Job
  PROVE  1 \in 1 .. LastTable(j) /\ 1 \in Table
BY MedallionAssumption DEF LastTable, Table

\* A refresh that is not at its last table has a next one.
LEMMA NextTable ==
  ASSUME NEW j \in Job, NEW t \in 1 .. LastTable(j)
  PROVE  /\ t \in Table
         /\ LastTable(j) \in Nat
         /\ t # LastTable(j) => t + 1 \in 1 .. LastTable(j) /\ t + 1 \in Table
BY MedallionAssumption DEF LastTable, Table

\* Every step of a job keeps the type invariant.
LEMMA TypeStep == TypeOK /\ [Next]_vars => TypeOK'
<1> SUFFICES ASSUME TypeOK, [Next]_vars PROVE TypeOK'
  OBVIOUS
<1> USE MedallionAssumption DEF Table, TypeOK, PC, driver, tables
<1>1. ASSUME NEW j \in Job, NEW b \in Batch, NEW res \in BOOLEAN, NEW reset \in BOOLEAN,
             StartRun(j, b, res, reset)
      PROVE TypeOK'
  BY <1>1 DEF StartRun, Goto
<1>2. ASSUME NEW j \in Job, DropGold(j) PROVE TypeOK'
  BY <1>2 DEF DropGold, Goto
<1>3. ASSUME NEW j \in Job, DropSilver(j) PROVE TypeOK'
  BY <1>3 DEF DropSilver, Goto
<1>4. ASSUME NEW j \in Job, DropBronze(j) PROVE TypeOK'
  BY <1>4 DEF DropBronze, Goto
<1>5. ASSUME NEW j \in Job, OpenInput(j) PROVE TypeOK'
  BY <1>5 DEF OpenInput, Goto
<1>6. ASSUME NEW j \in Job, InsertNewBronzeRows(j) PROVE TypeOK'
  BY <1>6 DEF InsertNewBronzeRows, Goto
<1>7. ASSUME NEW j \in Job, AppendBronze(j) PROVE TypeOK'
  BY <1>7 DEF AppendBronze, Goto
<1>8. ASSUME NEW j \in Job, InsertNewSilverRows(j) PROVE TypeOK'
  BY <1>8 DEF InsertNewSilverRows, Goto, NewSilverKeys, SilverCandidates
<1>9. ASSUME NEW j \in Job, RejectSilver(j) PROVE TypeOK'
  BY <1>9 DEF RejectSilver, EndRun, Record, Status
<1>10. ASSUME NEW j \in Job, AppendSilver(j) PROVE TypeOK'
  BY <1>10 DEF AppendSilver, Goto, Dates
<1>11. ASSUME NEW j \in Job, SkipGold(j) PROVE TypeOK'
  BY <1>11 DEF SkipGold, Goto
<1>12. ASSUME NEW j \in Job, RefreshGold(j) PROVE TypeOK'
  BY <1>12, FirstTable DEF RefreshGold, Goto
<1>13. ASSUME NEW j \in Job, DeleteGold(j) PROVE TypeOK'
  BY <1>13 DEF DeleteGold, Goto, Scope, Dates
<1>14. ASSUME NEW j \in Job, AppendGold(j) PROVE TypeOK'
  <2>1. gold' \in [Table -> SUBSET ((Key \X Job) \X Job)] /\ owed' \in SUBSET (Table \X Date)
    BY <1>14 DEF AppendGold, Goto, Contributing
  <2>2. table[j] \in 1 .. LastTable(j)
    BY <1>14 DEF AppendGold, Goto
  <2>3. table' = [table EXCEPT ![j] = IF table[j] = LastTable(j) THEN table[j] ELSE table[j] + 1]
        /\ pc' = [pc EXCEPT ![j] = IF table[j] = LastTable(j) THEN "record_run" ELSE "delete_gold"]
    BY <1>14 DEF AppendGold, Goto
  <2>4. table'[j] \in Table /\ (pc'[j] = "delete_gold" => table'[j] \in 1 .. LastTable(j))
    BY <2>2, <2>3, NextTable
  <2>5. table' \in [Job -> 0 .. NInc + NAdv]
    BY <2>3, <2>4
  <2>6. ASSUME NEW i \in Job, pc'[i] \in {"delete_gold", "append_gold"}
        PROVE  table'[i] \in 1 .. LastTable(i)
    BY <2>3, <2>4, <2>6
  <2>7. QED
    BY <1>14, <2>1, <2>5, <2>6 DEF AppendGold, Goto
<1>15. ASSUME NEW j \in Job, RecordRun(j) PROVE TypeOK'
  BY <1>15 DEF RecordRun, EndRun, Record, Status
<1>16. ASSUME NEW j \in Job, Fail(j) PROVE TypeOK'
  BY <1>16 DEF Fail, EndRun, Record, Status
<1>17. ASSUME NEW j \in Job, Crash(j) PROVE TypeOK'
  BY <1>17 DEF Crash, EndRun
<1>18. CASE UNCHANGED vars
  BY <1>18 DEF vars
<1> HIDE DEF TypeOK
<1>19. QED
  BY <1>1, <1>2, <1>3, <1>4, <1>5, <1>6, <1>7, <1>8, <1>9, <1>10, <1>11, <1>12, <1>13, <1>14, <1>15, <1>16, <1>17, <1>18 DEF Next, Step

LEMMA TypeInit == Init => TypeOK
BY MedallionAssumption DEF Init, TypeOK, Table, PC, Status

\* The type invariant holds for any set of rows, jobs and tables.
THEOREM TypeCorrect == Spec => []TypeOK
BY TypeInit, TypeStep, PTL DEF Spec

-----------------------------------------------------------------------------

\* A reset runs alone, and drops Gold and Silver before Bronze.
ResetAlone ==
  /\ \A i, j \in Job : Resetting(i) /\ i # j => pc[j] = "idle"
  /\ \A j \in Job : pc[j] = "drop_bronze" => silver = {}

\* What a driver is about to publish has landed, and passed the gate.
InputLanded ==
  /\ \A j \in Job : pc[j] = "append_bronze" =>
       \A r \in rows[j] : r \in fresh[j] \/ HashOf[r] \in BronzeHashes
  /\ \A j \in Job : pc[j] \in {"insert_silver", "append_silver"} =>
       \A r \in rows[j] : HashOf[r] \in BronzeHashes
  /\ \A j \in Job : pc[j] = "append_silver" =>
       inserted[j] \subseteq SilverCandidates(rows[j]) /\ ~RejectedByDq(inserted[j])

\* An event whose record_hash is in Bronze has landed.
LEMMA HashLanded ==
  ASSUME TypeOK, NEW r \in Row, r \in Valid, HashOf[r] \in BronzeHashes
  PROVE  KeyOf[r] \in LandedKeys
<1>1. PICK c \in bronze : HashOf[c[1]] = HashOf[r]
  BY DEF BronzeHashes
<1>2. c[1] \in Row
  BY DEF TypeOK
<1>3. KeyOf[c[1]] = KeyOf[r] /\ c[1] \in Valid
  BY <1>1, <1>2, MedallionAssumption
<1>4. QED
  BY <1>1, <1>3 DEF LandedKeys, SilverCandidates

\* A reset starts when nothing runs, and nothing starts during one.
LEMMA ResetStep == TypeOK /\ ResetAlone /\ [Next]_vars => ResetAlone'
<1> SUFFICES ASSUME TypeOK, ResetAlone, [Next]_vars PROVE ResetAlone'
  OBVIOUS
<1> USE MedallionAssumption DEF TypeOK, PC, ResetAlone, Resetting, driver, tables
<1>1. ASSUME NEW j \in Job, NEW b \in Batch, NEW res \in BOOLEAN, NEW reset \in BOOLEAN,
             StartRun(j, b, res, reset)
      PROVE ResetAlone'
  BY <1>1 DEF StartRun, Goto, AllIdle
<1>2. ASSUME NEW j \in Job, DropGold(j) PROVE ResetAlone'
  BY <1>2 DEF DropGold, Goto
<1>3. ASSUME NEW j \in Job, DropSilver(j) PROVE ResetAlone'
  BY <1>3 DEF DropSilver, Goto
<1>4. ASSUME NEW j \in Job, DropBronze(j) PROVE ResetAlone'
  BY <1>4 DEF DropBronze, Goto
<1>5. ASSUME NEW j \in Job, OpenInput(j) PROVE ResetAlone'
  BY <1>5 DEF OpenInput, Goto
<1>6. ASSUME NEW j \in Job, InsertNewBronzeRows(j) PROVE ResetAlone'
  BY <1>6 DEF InsertNewBronzeRows, Goto
<1>7. ASSUME NEW j \in Job, AppendBronze(j) PROVE ResetAlone'
  BY <1>7 DEF AppendBronze, Goto
<1>8. ASSUME NEW j \in Job, InsertNewSilverRows(j) PROVE ResetAlone'
  BY <1>8 DEF InsertNewSilverRows, Goto
<1>9. ASSUME NEW j \in Job, RejectSilver(j) PROVE ResetAlone'
  BY <1>9 DEF RejectSilver, EndRun, Record
<1>10. ASSUME NEW j \in Job, AppendSilver(j) PROVE ResetAlone'
  BY <1>10 DEF AppendSilver, Goto
<1>11. ASSUME NEW j \in Job, SkipGold(j) PROVE ResetAlone'
  BY <1>11 DEF SkipGold, Goto
<1>12. ASSUME NEW j \in Job, RefreshGold(j) PROVE ResetAlone'
  BY <1>12 DEF RefreshGold, Goto
<1>13. ASSUME NEW j \in Job, DeleteGold(j) PROVE ResetAlone'
  BY <1>13 DEF DeleteGold, Goto
<1>14. ASSUME NEW j \in Job, AppendGold(j) PROVE ResetAlone'
  BY <1>14 DEF AppendGold, Goto
<1>15. ASSUME NEW j \in Job, RecordRun(j) PROVE ResetAlone'
  BY <1>15 DEF RecordRun, EndRun, Record
<1>16. ASSUME NEW j \in Job, Fail(j) PROVE ResetAlone'
  BY <1>16 DEF Fail, EndRun, Record
<1>17. ASSUME NEW j \in Job, Crash(j) PROVE ResetAlone'
  BY <1>17 DEF Crash, EndRun
<1>18. CASE UNCHANGED vars
  BY <1>18 DEF vars
<1> HIDE DEF TypeOK, ResetAlone
<1>19. QED
  BY <1>1, <1>2, <1>3, <1>4, <1>5, <1>6, <1>7, <1>8, <1>9, <1>10, <1>11, <1>12,
     <1>13, <1>14, <1>15, <1>16, <1>17, <1>18 DEF Next, Step

\* Appending to Bronze keeps the hashes it has.
LEMMA HashesGrow ==
  ASSUME bronze \subseteq bronze'
  PROVE  BronzeHashes \subseteq BronzeHashes'
BY DEF BronzeHashes

\* Drivers only publish what landed before.
LEMMA LandedStep == TypeOK /\ ResetAlone /\ InputLanded /\ [Next]_vars => InputLanded'
<1> SUFFICES ASSUME TypeOK, ResetAlone, InputLanded, [Next]_vars PROVE InputLanded'
  OBVIOUS
<1> USE DEF TypeOK, PC, ResetAlone, InputLanded, Resetting, driver, tables, BronzeHashes, SilverCandidates, RejectedByDq
<1>1. ASSUME NEW j \in Job, NEW b \in Batch, NEW res \in BOOLEAN, NEW reset \in BOOLEAN,
             StartRun(j, b, res, reset)
      PROVE InputLanded'
  BY <1>1 DEF StartRun, Goto, AllIdle
<1>2. ASSUME NEW j \in Job, DropGold(j) PROVE InputLanded'
  BY <1>2 DEF DropGold, Goto
<1>3. ASSUME NEW j \in Job, DropSilver(j) PROVE InputLanded'
  BY <1>3 DEF DropSilver, Goto
<1>4. ASSUME NEW j \in Job, DropBronze(j) PROVE InputLanded'
  BY <1>4 DEF DropBronze, Goto
<1>5. ASSUME NEW j \in Job, OpenInput(j) PROVE InputLanded'
  <2>1. ASSUME NEW r \in rows'[j], resume[j] PROVE HashOf[r] \in BronzeHashes
    <3>1. PICK i \in Job : <<r, i>> \in bronze
      BY <1>5, <2>1 DEF OpenInput
    <3>2. <<r, i>>[1] = r
      OBVIOUS
    <3>3. QED
      BY <3>1, <3>2
  <2>2. pc' = [pc EXCEPT ![j] = IF resume[j] THEN "insert_silver" ELSE "insert_bronze"]
    BY <1>5 DEF OpenInput, Goto
  <2>3. \A i \in Job \ {j} : rows'[i] = rows[i] /\ pc'[i] = pc[i]
    BY <1>5, <2>2 DEF OpenInput
  <2>4. BronzeHashes' = BronzeHashes /\ UNCHANGED <<fresh, inserted>>
    BY <1>5 DEF OpenInput
  <2>5. pc'[j] = IF resume[j] THEN "insert_silver" ELSE "insert_bronze"
    BY <2>2
  <2> HIDE DEF BronzeHashes
  <2>6. QED
    BY <2>1, <2>3, <2>4, <2>5
<1>6. ASSUME NEW j \in Job, InsertNewBronzeRows(j) PROVE InputLanded'
  BY <1>6 DEF InsertNewBronzeRows, Goto
<1>7. ASSUME NEW j \in Job, AppendBronze(j) PROVE InputLanded'
  <2>1. bronze' = bronze \cup (fresh[j] \X {j}) /\ UNCHANGED <<rows, fresh, inserted>>
    BY <1>7 DEF AppendBronze
  <2>2. BronzeHashes \subseteq BronzeHashes'
    BY <2>1, HashesGrow
  <2>3. ASSUME NEW r \in fresh[j] PROVE HashOf[r] \in BronzeHashes'
    <3>1. <<r, j>> \in bronze' /\ <<r, j>>[1] = r
      BY <2>1
    <3>2. QED
      BY <3>1
  <2>4. pc' = [pc EXCEPT ![j] = "insert_silver"] /\ pc[j] = "append_bronze"
    BY <1>7 DEF AppendBronze, Goto
  <2> HIDE DEF BronzeHashes
  <2>5. QED
    BY <2>1, <2>2, <2>3, <2>4
<1>8. ASSUME NEW j \in Job, InsertNewSilverRows(j) PROVE InputLanded'
  BY <1>8 DEF InsertNewSilverRows, Goto, NewSilverKeys
<1>9. ASSUME NEW j \in Job, RejectSilver(j) PROVE InputLanded'
  BY <1>9 DEF RejectSilver, EndRun, Record
<1>10. ASSUME NEW j \in Job, AppendSilver(j) PROVE InputLanded'
  BY <1>10 DEF AppendSilver, Goto
<1>11. ASSUME NEW j \in Job, SkipGold(j) PROVE InputLanded'
  BY <1>11 DEF SkipGold, Goto
<1>12. ASSUME NEW j \in Job, RefreshGold(j) PROVE InputLanded'
  BY <1>12 DEF RefreshGold, Goto
<1>13. ASSUME NEW j \in Job, DeleteGold(j) PROVE InputLanded'
  BY <1>13 DEF DeleteGold, Goto
<1>14. ASSUME NEW j \in Job, AppendGold(j) PROVE InputLanded'
  BY <1>14 DEF AppendGold, Goto
<1>15. ASSUME NEW j \in Job, RecordRun(j) PROVE InputLanded'
  BY <1>15 DEF RecordRun, EndRun, Record
<1>16. ASSUME NEW j \in Job, Fail(j) PROVE InputLanded'
  BY <1>16 DEF Fail, EndRun, Record
<1>17. ASSUME NEW j \in Job, Crash(j) PROVE InputLanded'
  BY <1>17 DEF Crash, EndRun
<1>18. CASE UNCHANGED vars
  BY <1>18 DEF vars
<1> HIDE DEF TypeOK, ResetAlone, InputLanded
<1>19. QED
  BY <1>1, <1>2, <1>3, <1>4, <1>5, <1>6, <1>7, <1>8, <1>9, <1>10, <1>11, <1>12,
     <1>13, <1>14, <1>15, <1>16, <1>17, <1>18 DEF Next, Step

\* Only four steps write Bronze or Silver.
LEMMA TableWrites ==
  ASSUME [Next]_vars
  PROVE  \/ UNCHANGED <<bronze, silver>>
         \/ \E j \in Job : DropSilver(j) \/ DropBronze(j) \/ AppendBronze(j) \/ AppendSilver(j)
<1>1. CASE UNCHANGED vars
  BY <1>1 DEF vars, tables
<1>2. ASSUME NEW j \in Job, Step(j)
      PROVE  \/ UNCHANGED <<bronze, silver>>
             \/ DropSilver(j) \/ DropBronze(j) \/ AppendBronze(j) \/ AppendSilver(j)
  BY <1>2 DEF Step, StartRun, DropGold, OpenInput, InsertNewBronzeRows, InsertNewSilverRows,
     RejectSilver, SkipGold, RefreshGold, DeleteGold, AppendGold, RecordRun, Fail, Crash, tables
<1>3. QED
  BY <1>1, <1>2 DEF Next

LEMMA InitLanded == Init => ResetAlone /\ InputLanded
BY DEF Init, ResetAlone, InputLanded, Resetting

\* What a driver appends to Silver has landed.
LEMMA InsertedLanded ==
  ASSUME TypeOK, InputLanded, NEW j \in Job, pc[j] = "append_silver"
  PROVE  inserted[j] \subseteq LandedKeys
<1>1. SUFFICES ASSUME NEW k \in inserted[j] PROVE k \in LandedKeys
  OBVIOUS
<1>2. PICK r \in rows[j] : r \in Valid /\ k = KeyOf[r]
  BY <1>1 DEF InputLanded, SilverCandidates
<1>3. r \in Row /\ HashOf[r] \in BronzeHashes
  BY DEF TypeOK, InputLanded
<1>4. QED
  BY <1>2, <1>3, HashLanded

\* Appending to Bronze takes no landed event away.
LEMMA LandedGrow ==
  ASSUME bronze \subseteq bronze'
  PROVE  LandedKeys \subseteq LandedKeys'
BY DEF LandedKeys, SilverCandidates

LEMMA SilverFromBronzeStep ==
  ASSUME TypeOK, ResetAlone, InputLanded, SilverFromBronze, [Next]_vars
  PROVE  SilverFromBronze'
<1>1. CASE UNCHANGED <<bronze, silver>>
  BY <1>1 DEF SilverFromBronze, SilverKeys, LandedKeys
<1>2. ASSUME NEW j \in Job, DropSilver(j) PROVE SilverFromBronze'
  BY <1>2 DEF DropSilver, SilverFromBronze, SilverKeys
<1>3. ASSUME NEW j \in Job, DropBronze(j) PROVE SilverFromBronze'
  BY <1>3 DEF DropBronze, Goto, ResetAlone, SilverFromBronze, SilverKeys
<1>4. ASSUME NEW j \in Job, AppendBronze(j) PROVE SilverFromBronze'
  <2>1. SilverKeys' = SilverKeys /\ bronze \subseteq bronze'
    BY <1>4 DEF AppendBronze, SilverKeys
  <2>2. QED
    BY <2>1, LandedGrow DEF SilverFromBronze
<1>5. ASSUME NEW j \in Job, AppendSilver(j) PROVE SilverFromBronze'
  <2>1. SilverKeys' \subseteq SilverKeys \cup inserted[j] /\ LandedKeys' = LandedKeys
    BY <1>5 DEF AppendSilver, SilverKeys, LandedKeys
  <2>2. inserted[j] \subseteq LandedKeys
    BY <1>5, InsertedLanded DEF AppendSilver, Goto
  <2>3. QED
    BY <2>1, <2>2 DEF SilverFromBronze
<1>6. QED
  BY <1>1, <1>2, <1>3, <1>4, <1>5, TableWrites

LEMMA SilverCleanStep ==
  ASSUME TypeOK, InputLanded, SilverClean, [Next]_vars
  PROVE  SilverClean'
<1>1. CASE UNCHANGED silver
  BY <1>1 DEF SilverClean, SilverKeys
<1>2. ASSUME NEW j \in Job, DropSilver(j) PROVE SilverClean'
  BY <1>2 DEF DropSilver, SilverClean, SilverKeys
<1>3. ASSUME NEW j \in Job, AppendSilver(j) PROVE SilverClean'
  <2>1. SilverKeys' \subseteq SilverKeys \cup inserted[j]
    BY <1>3 DEF AppendSilver, SilverKeys
  <2>2. DqFailOnError => inserted[j] \cap Bad = {}
    BY <1>3 DEF AppendSilver, Goto, InputLanded, RejectedByDq
  <2>3. QED
    BY <2>1, <2>2 DEF SilverClean
<1>4. QED
  BY <1>1, <1>2, <1>3, TableWrites DEF DropBronze, AppendBronze

\* What concurrent jobs keep, too.
SilverInv == TypeOK /\ ResetAlone /\ InputLanded /\ SilverFromBronze /\ SilverClean

LEMMA SilverInvariant == Spec => []SilverInv
<1>1. Init => SilverInv
  <2>1. Init => SilverFromBronze /\ SilverClean
    BY DEF Init, SilverFromBronze, SilverClean, SilverKeys
  <2>2. QED
    BY <2>1, InitLanded, TypeInit DEF SilverInv
<1>2. SilverInv /\ [Next]_vars => SilverInv'
  BY TypeStep, ResetStep, LandedStep, SilverFromBronzeStep, SilverCleanStep DEF SilverInv
<1>3. QED
  BY <1>1, <1>2, PTL DEF Spec

\* No job, alone or beside others, publishes an event that never landed.
THEOREM SilverFromBronzeAlways == Spec => []SilverFromBronze
<1>1. SilverInv => SilverFromBronze
  BY DEF SilverInv
<1>2. QED
  BY <1>1, SilverInvariant, PTL

\* No batch, whatever else it holds, gets a rejected event into Silver.
THEOREM SilverCleanAlways == Spec => []SilverClean
<1>1. SilverInv => SilverClean
  BY DEF SilverInv
<1>2. QED
  BY <1>1, SilverInvariant, PTL

\* Serial runs: when one job runs, no other does.
Alone == \A i, j \in Job : pc[i] # "idle" /\ pc[j] # "idle" => i = j

LEMMA AloneInit == Init => Alone
BY DEF Init, Alone

\* A run starts when all are idle, and stays the only one.
LEMMA AloneStep ==
  ASSUME ~Overlap, TypeOK, Alone, [Next]_vars
  PROVE  Alone'
<1> USE DEF TypeOK, PC, Alone, driver, tables
<1>1. ASSUME NEW j \in Job, NEW b \in Batch, NEW res \in BOOLEAN, NEW reset \in BOOLEAN,
             StartRun(j, b, res, reset)
      PROVE Alone'
  BY <1>1 DEF StartRun, Goto, AllIdle
<1>2. ASSUME NEW j \in Job, DropGold(j) PROVE Alone'
  BY <1>2 DEF DropGold, Goto
<1>3. ASSUME NEW j \in Job, DropSilver(j) PROVE Alone'
  BY <1>3 DEF DropSilver, Goto
<1>4. ASSUME NEW j \in Job, DropBronze(j) PROVE Alone'
  BY <1>4 DEF DropBronze, Goto
<1>5. ASSUME NEW j \in Job, OpenInput(j) PROVE Alone'
  BY <1>5 DEF OpenInput, Goto
<1>6. ASSUME NEW j \in Job, InsertNewBronzeRows(j) PROVE Alone'
  BY <1>6 DEF InsertNewBronzeRows, Goto
<1>7. ASSUME NEW j \in Job, AppendBronze(j) PROVE Alone'
  BY <1>7 DEF AppendBronze, Goto
<1>8. ASSUME NEW j \in Job, InsertNewSilverRows(j) PROVE Alone'
  BY <1>8 DEF InsertNewSilverRows, Goto
<1>9. ASSUME NEW j \in Job, RejectSilver(j) PROVE Alone'
  BY <1>9 DEF RejectSilver, EndRun, Record
<1>10. ASSUME NEW j \in Job, AppendSilver(j) PROVE Alone'
  BY <1>10 DEF AppendSilver, Goto
<1>11. ASSUME NEW j \in Job, SkipGold(j) PROVE Alone'
  BY <1>11 DEF SkipGold, Goto
<1>12. ASSUME NEW j \in Job, RefreshGold(j) PROVE Alone'
  BY <1>12 DEF RefreshGold, Goto
<1>13. ASSUME NEW j \in Job, DeleteGold(j) PROVE Alone'
  BY <1>13 DEF DeleteGold, Goto
<1>14. ASSUME NEW j \in Job, AppendGold(j) PROVE Alone'
  BY <1>14 DEF AppendGold, Goto
<1>15. ASSUME NEW j \in Job, RecordRun(j) PROVE Alone'
  BY <1>15 DEF RecordRun, EndRun, Record
<1>16. ASSUME NEW j \in Job, Fail(j) PROVE Alone'
  BY <1>16 DEF Fail, EndRun, Record
<1>17. ASSUME NEW j \in Job, Crash(j) PROVE Alone'
  BY <1>17 DEF Crash, EndRun
<1>18. CASE UNCHANGED vars
  BY <1>18 DEF vars
<1> HIDE DEF TypeOK, Alone
<1>19. QED
  BY <1>1, <1>2, <1>3, <1>4, <1>5, <1>6, <1>7, <1>8, <1>9, <1>10, <1>11, <1>12,
     <1>13, <1>14, <1>15, <1>16, <1>17, <1>18 DEF Next, Step

\* What a driver found missing is still missing when it appends.
StillNew ==
  /\ \A j \in Job : pc[j] = "append_bronze" =>
       \A r \in fresh[j] : HashOf[r] \notin BronzeHashes
  /\ \A j \in Job : pc[j] = "append_silver" => inserted[j] \cap SilverKeys = {}

LEMMA StillNewInit == Init => StillNew
BY DEF Init, StillNew

\* The anti-join finds every copy: a key's event_time fixes its partition.
LEMMA AntiJoin ==
  ASSUME TypeOK, NEW candidates \in SUBSET Key
  PROVE  /\ NewSilverKeys(candidates) \subseteq candidates
         /\ NewSilverKeys(candidates) \cap SilverKeys = {}
<1>1. ASSUME NEW k \in candidates, k \in SilverKeys PROVE k \notin NewSilverKeys(candidates)
  <2>1. PICK x \in silver : x[1] = k
    BY <1>1 DEF SilverKeys
  <2>2. DateOf[x[1]] \in Dates(candidates)
    BY <2>1 DEF Dates
  <2>3. QED
    BY <2>1, <2>2 DEF NewSilverKeys
<1>2. QED
  BY <1>1 DEF NewSilverKeys

LEMMA StillNewStep ==
  ASSUME TypeOK, Alone, ResetAlone, StillNew, [Next]_vars
  PROVE  StillNew'
<1> USE DEF TypeOK, PC, Alone, ResetAlone, Resetting, StillNew, driver, tables, BronzeHashes, SilverKeys
<1>1. ASSUME NEW j \in Job, NEW b \in Batch, NEW res \in BOOLEAN, NEW reset \in BOOLEAN,
             StartRun(j, b, res, reset)
      PROVE StillNew'
  BY <1>1 DEF StartRun, Goto, AllIdle
<1>2. ASSUME NEW j \in Job, DropGold(j) PROVE StillNew'
  BY <1>2 DEF DropGold, Goto
<1>3. ASSUME NEW j \in Job, DropSilver(j) PROVE StillNew'
  BY <1>3 DEF DropSilver, Goto
<1>4. ASSUME NEW j \in Job, DropBronze(j) PROVE StillNew'
  BY <1>4 DEF DropBronze, Goto
<1>5. ASSUME NEW j \in Job, OpenInput(j) PROVE StillNew'
  BY <1>5 DEF OpenInput, Goto
<1>6. ASSUME NEW j \in Job, InsertNewBronzeRows(j) PROVE StillNew'
  BY <1>6 DEF InsertNewBronzeRows, Goto
<1>7. ASSUME NEW j \in Job, AppendBronze(j) PROVE StillNew'
  BY <1>7 DEF AppendBronze, Goto
<1>8. ASSUME NEW j \in Job, InsertNewSilverRows(j) PROVE StillNew'
  <2>1. SilverCandidates(rows[j]) \in SUBSET Key
    BY MedallionAssumption DEF SilverCandidates
  <2>2. NewSilverKeys(SilverCandidates(rows[j])) \cap SilverKeys = {}
    BY <2>1, AntiJoin
  <2>3. inserted' = [inserted EXCEPT ![j] = NewSilverKeys(SilverCandidates(rows[j]))]
        /\ pc' = [pc EXCEPT ![j] = "append_silver"] /\ UNCHANGED <<bronze, silver, fresh>>
    BY <1>8 DEF InsertNewSilverRows, Goto
  <2> HIDE DEF SilverKeys
  <2>4. SilverKeys' = SilverKeys
    BY <2>3 DEF SilverKeys
  <2>5. \A i \in Job \ {j} : inserted'[i] = inserted[i] /\ pc'[i] = pc[i]
    BY <2>3
  <2>6. inserted'[j] = NewSilverKeys(SilverCandidates(rows[j])) /\ pc'[j] = "append_silver"
    BY <2>3
  <2>7. BronzeHashes' = BronzeHashes
    BY <2>3 DEF BronzeHashes
  <2> HIDE DEF BronzeHashes
  <2>8. QED
    BY <2>2, <2>3, <2>4, <2>5, <2>6, <2>7
<1>9. ASSUME NEW j \in Job, RejectSilver(j) PROVE StillNew'
  BY <1>9 DEF RejectSilver, EndRun, Record
<1>10. ASSUME NEW j \in Job, AppendSilver(j) PROVE StillNew'
  BY <1>10 DEF AppendSilver, Goto
<1>11. ASSUME NEW j \in Job, SkipGold(j) PROVE StillNew'
  BY <1>11 DEF SkipGold, Goto
<1>12. ASSUME NEW j \in Job, RefreshGold(j) PROVE StillNew'
  BY <1>12 DEF RefreshGold, Goto
<1>13. ASSUME NEW j \in Job, DeleteGold(j) PROVE StillNew'
  BY <1>13 DEF DeleteGold, Goto
<1>14. ASSUME NEW j \in Job, AppendGold(j) PROVE StillNew'
  BY <1>14 DEF AppendGold, Goto
<1>15. ASSUME NEW j \in Job, RecordRun(j) PROVE StillNew'
  BY <1>15 DEF RecordRun, EndRun, Record
<1>16. ASSUME NEW j \in Job, Fail(j) PROVE StillNew'
  BY <1>16 DEF Fail, EndRun, Record
<1>17. ASSUME NEW j \in Job, Crash(j) PROVE StillNew'
  BY <1>17 DEF Crash, EndRun
<1>18. CASE UNCHANGED vars
  BY <1>18 DEF vars
<1> HIDE DEF TypeOK, Alone, ResetAlone, StillNew
<1>19. QED
  BY <1>1, <1>2, <1>3, <1>4, <1>5, <1>6, <1>7, <1>8, <1>9, <1>10, <1>11, <1>12,
     <1>13, <1>14, <1>15, <1>16, <1>17, <1>18 DEF Next, Step

\* The invariant of runs one at a time.
SerialInv ==
  /\ TypeOK /\ ResetAlone /\ InputLanded /\ Alone /\ StillNew
  /\ SilverFromBronze /\ SilverClean /\ SilverUnique

LEMMA UniqueStep ==
  ASSUME TypeOK, StillNew, SilverUnique, [Next]_vars
  PROVE  SilverUnique'
<1>1. CASE UNCHANGED silver
  BY <1>1 DEF SilverUnique
<1>2. ASSUME NEW j \in Job, DropSilver(j) PROVE SilverUnique'
  BY <1>2 DEF DropSilver, SilverUnique
<1>3. ASSUME NEW j \in Job, AppendSilver(j) PROVE SilverUnique'
  <2>1. silver' = silver \cup (inserted[j] \X {j})
    BY <1>3 DEF AppendSilver
  <2>2. ASSUME NEW c \in silver PROVE c[1] \notin inserted[j]
    BY <1>3 DEF AppendSilver, Goto, StillNew, SilverKeys
  <2>3. \A c \in inserted[j] \X {j} : c[1] \in inserted[j] /\ c[2] = j /\ c = <<c[1], c[2]>>
    OBVIOUS
  <2>4. QED
    BY <2>1, <2>2, <2>3 DEF SilverUnique
<1>4. QED
  BY <1>1, <1>2, <1>3, TableWrites DEF DropBronze, AppendBronze

LEMMA SerialInvariant ==
  ASSUME ~Overlap
  PROVE  Spec => []SerialInv
<1>1. Init => SerialInv
  <2>1. Init => SilverUnique
    BY DEF Init, SilverUnique
  <2>2. Init => SilverFromBronze /\ SilverClean
    BY DEF Init, SilverFromBronze, SilverClean, SilverKeys
  <2>3. QED
    BY <2>1, <2>2, TypeInit, InitLanded, AloneInit, StillNewInit DEF SerialInv
<1>2. SerialInv /\ [Next]_vars => SerialInv'
  BY TypeStep, ResetStep, LandedStep, AloneStep, StillNewStep, UniqueStep,
     SilverFromBronzeStep, SilverCleanStep DEF SerialInv
<1>3. QED
  BY <1>1, <1>2, PTL DEF Spec

\* Runs that do not overlap publish every event once, whatever they rerun,
\* resume, redeliver or fail in the middle of.
THEOREM SilverUniqueSerial ==
  ASSUME ~Overlap
  PROVE  Spec => []SilverUnique
<1>1. SerialInv => SilverUnique
  BY DEF SerialInv
<1>2. QED
  BY <1>1, SerialInvariant, PTL

\* Runs that do not overlap never append a record_hash that Bronze has.
THEOREM BronzeHashOnceSerial ==
  ASSUME ~Overlap
  PROVE  Spec => BronzeHashOnce
<1>1. SerialInv /\ [Next]_vars => [\A c \in bronze' \ bronze : HashOf[c[1]] \notin BronzeHashes]_vars
  <2> SUFFICES ASSUME SerialInv, [Next]_vars, NEW c \in bronze' \ bronze
               PROVE  HashOf[c[1]] \notin BronzeHashes
    OBVIOUS
  <2>1. PICK j \in Job : DropBronze(j) \/ AppendBronze(j)
    BY TableWrites DEF DropSilver, AppendSilver
  <2>2. AppendBronze(j)
    BY <2>1 DEF DropBronze
  <2>3. c \in fresh[j] \X {j}
    BY <2>2 DEF AppendBronze
  <2>4. QED
    BY <2>2, <2>3 DEF AppendBronze, Goto, SerialInv, StillNew
<1>2. QED
  BY <1>1, SerialInvariant, PTL DEF Spec, BronzeHashOnce

\* Runs that do not overlap, with the quality gate on, keep the contract.
THEOREM ContractSerial ==
  ASSUME ~Overlap, DqFailOnError
  PROVE  Spec => ContractSpec
<1>1. Init => Contract!Init
  BY DEF Init, Contract!Init, LandedKeys, SilverCandidates
<1>2. SerialInv /\ [Next]_vars => [Contract!Next]_<<LandedKeys, silver>>
  <2> SUFFICES ASSUME SerialInv, [Next]_vars
               PROVE  Contract!Next \/ UNCHANGED <<LandedKeys, silver>>
    OBVIOUS
  <2>1. CASE UNCHANGED <<bronze, silver>>
    BY <2>1 DEF LandedKeys
  <2>2. ASSUME NEW j \in Job, DropSilver(j) PROVE Contract!ResetPublished
    BY <2>2 DEF DropSilver, Contract!ResetPublished, LandedKeys
  <2>3. ASSUME NEW j \in Job, DropBronze(j) PROVE Contract!ResetLanded
    BY <2>3 DEF DropBronze, Goto, Contract!ResetLanded, LandedKeys, SilverCandidates,
       SerialInv, ResetAlone
  <2>4. ASSUME NEW j \in Job, AppendBronze(j) PROVE Contract!Land(LandedKeys')
    <3>1. bronze \subseteq bronze' /\ silver' = silver
      BY <2>4 DEF AppendBronze
    <3>2. QED
      BY <3>1, LandedGrow DEF Contract!Land
  <2>5. ASSUME NEW j \in Job, AppendSilver(j) PROVE Contract!Publish(inserted[j], j)
    <3>1. inserted[j] \subseteq LandedKeys
      BY <2>5, InsertedLanded DEF AppendSilver, Goto, SerialInv
    <3>2. inserted[j] \cap Bad = {}
      BY <2>5 DEF AppendSilver, Goto, SerialInv, InputLanded, RejectedByDq
    <3>3. \A p \in silver : p[1] \notin inserted[j]
      BY <2>5 DEF AppendSilver, Goto, SerialInv, StillNew, SilverKeys
    <3>4. silver' = silver \cup (inserted[j] \X {j}) /\ UNCHANGED LandedKeys
      BY <2>5 DEF AppendSilver, LandedKeys
    <3>5. QED
      BY <3>1, <3>2, <3>3, <3>4 DEF Contract!Publish
  <2>6. LandedKeys' \in SUBSET Key
    BY TypeStep, MedallionAssumption DEF SerialInv, TypeOK, LandedKeys, SilverCandidates
  <2>7. \A j \in Job : inserted[j] \in SUBSET Key
    BY DEF SerialInv, TypeOK
  <2>8. QED
    BY <2>1, <2>2, <2>3, <2>4, <2>5, <2>6, <2>7, TableWrites DEF Contract!Next
<1>3. QED
  BY <1>1, <1>2, SerialInvariant, PTL DEF Spec, ContractSpec, Contract!Spec, Contract!vars


-----------------------------------------------------------------------------
(***************************************************************************)
(* Gold: what a refresh and a reset keep true of the published aggregates, *)
(* at every commit and between runs.                                       *)
(***************************************************************************)

\* Gold never gets ahead of Silver: a refresh reads a snapshot of it, and a
\* reset drops every Gold table, the last one first, before Silver.
GoldBehind ==
  /\ \A j \in Job : pc[j] \in {"delete_gold", "append_gold"} => snapshot[j] \subseteq silver
  /\ \A j \in Job, t \in Table : pc[j] = "drop_gold" /\ t > table[j] => gold[t] = {}
  /\ \A j \in Job, t \in Table : pc[j] = "drop_silver" => gold[t] = {}

LEMMA GoldBehindInit == Init => GoldBehind
BY DEF Init, GoldBehind

\* The drop of a table, then the one before it: all are dropped at the first.
LEMMA DropOrder ==
  ASSUME NEW s \in Table, NEW t \in Table
  PROVE  /\ t > s - 1 => t = s \/ t > s
         /\ s = 1 => t = s \/ t > s
         /\ ~(t > NInc + NAdv)
BY MedallionAssumption DEF Table

LEMMA GoldBehindStep ==
  ASSUME TypeOK, ResetAlone, GoldBehind, [Next]_vars
  PROVE  GoldBehind'
<1> USE DEF TypeOK, PC, ResetAlone, Resetting, GoldBehind, driver, tables
<1>1. ASSUME NEW j \in Job, NEW b \in Batch, NEW res \in BOOLEAN, NEW reset \in BOOLEAN,
             StartRun(j, b, res, reset)
      PROVE GoldBehind'
  BY <1>1, DropOrder DEF StartRun, Goto, AllIdle
<1>2. ASSUME NEW j \in Job, DropGold(j) PROVE GoldBehind'
  <2>1. /\ pc[j] = "drop_gold" /\ table[j] \in Table
        /\ pc' = [pc EXCEPT ![j] = IF table[j] = 1 THEN "drop_silver" ELSE "drop_gold"]
        /\ gold' = [gold EXCEPT ![table[j]] = {}]
        /\ table' = [table EXCEPT ![j] = table[j] - 1]
        /\ UNCHANGED <<silver, snapshot>>
    BY <1>2 DEF DropGold, Goto
  <2>2. \A i \in Job \ {j} : pc'[i] = "idle"
    BY <2>1
  <2>3. table'[j] = table[j] - 1
    BY <2>1
  <2>4. ASSUME NEW t \in Table, t > table[j] - 1 \/ table[j] = 1 PROVE gold'[t] = {}
    <3>1. t = table[j] \/ t > table[j]
      BY <2>1, <2>4, DropOrder
    <3>2. QED
      BY <2>1, <3>1
  <2>5. pc'[j] = IF table[j] = 1 THEN "drop_silver" ELSE "drop_gold"
    BY <2>1
  <2>6. QED
    BY <2>2, <2>3, <2>4, <2>5
<1>3. ASSUME NEW j \in Job, DropSilver(j) PROVE GoldBehind'
  BY <1>3 DEF DropSilver, Goto
<1>4. ASSUME NEW j \in Job, DropBronze(j) PROVE GoldBehind'
  BY <1>4 DEF DropBronze, Goto
<1>5. ASSUME NEW j \in Job, OpenInput(j) PROVE GoldBehind'
  BY <1>5 DEF OpenInput, Goto
<1>6. ASSUME NEW j \in Job, InsertNewBronzeRows(j) PROVE GoldBehind'
  BY <1>6 DEF InsertNewBronzeRows, Goto
<1>7. ASSUME NEW j \in Job, AppendBronze(j) PROVE GoldBehind'
  BY <1>7 DEF AppendBronze, Goto
<1>8. ASSUME NEW j \in Job, InsertNewSilverRows(j) PROVE GoldBehind'
  BY <1>8 DEF InsertNewSilverRows, Goto
<1>9. ASSUME NEW j \in Job, RejectSilver(j) PROVE GoldBehind'
  BY <1>9 DEF RejectSilver, EndRun, Record
<1>10. ASSUME NEW j \in Job, AppendSilver(j) PROVE GoldBehind'
  BY <1>10 DEF AppendSilver, Goto
<1>11. ASSUME NEW j \in Job, SkipGold(j) PROVE GoldBehind'
  BY <1>11 DEF SkipGold, Goto
<1>12. ASSUME NEW j \in Job, RefreshGold(j) PROVE GoldBehind'
  BY <1>12 DEF RefreshGold, Goto
<1>13. ASSUME NEW j \in Job, DeleteGold(j) PROVE GoldBehind'
  BY <1>13 DEF DeleteGold, Goto
<1>14. ASSUME NEW j \in Job, AppendGold(j) PROVE GoldBehind'
  BY <1>14 DEF AppendGold, Goto
<1>15. ASSUME NEW j \in Job, RecordRun(j) PROVE GoldBehind'
  BY <1>15 DEF RecordRun, EndRun, Record
<1>16. ASSUME NEW j \in Job, Fail(j) PROVE GoldBehind'
  BY <1>16 DEF Fail, EndRun, Record
<1>17. ASSUME NEW j \in Job, Crash(j) PROVE GoldBehind'
  BY <1>17 DEF Crash, EndRun
<1>18. CASE UNCHANGED vars
  BY <1>18 DEF vars
<1> HIDE DEF TypeOK, ResetAlone, GoldBehind
<1>19. QED
  BY <1>1, <1>2, <1>3, <1>4, <1>5, <1>6, <1>7, <1>8, <1>9, <1>10, <1>11, <1>12,
     <1>13, <1>14, <1>15, <1>16, <1>17, <1>18 DEF Next, Step

LEMMA GoldFromSilverStep ==
  ASSUME TypeOK, GoldBehind, GoldFromSilver, [Next]_vars
  PROVE  GoldFromSilver'
<1> USE DEF TypeOK, GoldBehind, GoldFromSilver, driver, tables
<1>1. ASSUME NEW j \in Job, NEW b \in Batch, NEW res \in BOOLEAN, NEW reset \in BOOLEAN,
             StartRun(j, b, res, reset)
      PROVE GoldFromSilver'
  BY <1>1 DEF StartRun
<1>2. ASSUME NEW j \in Job, DropGold(j) PROVE GoldFromSilver'
  BY <1>2 DEF DropGold, Goto
<1>3. ASSUME NEW j \in Job, DropSilver(j) PROVE GoldFromSilver'
  BY <1>3 DEF DropSilver, Goto
<1>4. ASSUME NEW j \in Job, DropBronze(j) PROVE GoldFromSilver'
  BY <1>4 DEF DropBronze, Goto
<1>5. ASSUME NEW j \in Job, OpenInput(j) PROVE GoldFromSilver'
  BY <1>5 DEF OpenInput, Goto
<1>6. ASSUME NEW j \in Job, InsertNewBronzeRows(j) PROVE GoldFromSilver'
  BY <1>6 DEF InsertNewBronzeRows, Goto
<1>7. ASSUME NEW j \in Job, AppendBronze(j) PROVE GoldFromSilver'
  BY <1>7 DEF AppendBronze, Goto
<1>8. ASSUME NEW j \in Job, InsertNewSilverRows(j) PROVE GoldFromSilver'
  BY <1>8 DEF InsertNewSilverRows, Goto
<1>9. ASSUME NEW j \in Job, RejectSilver(j) PROVE GoldFromSilver'
  BY <1>9 DEF RejectSilver, EndRun, Record
<1>10. ASSUME NEW j \in Job, AppendSilver(j) PROVE GoldFromSilver'
  BY <1>10 DEF AppendSilver, Goto
<1>11. ASSUME NEW j \in Job, SkipGold(j) PROVE GoldFromSilver'
  BY <1>11 DEF SkipGold, Goto
<1>12. ASSUME NEW j \in Job, RefreshGold(j) PROVE GoldFromSilver'
  BY <1>12 DEF RefreshGold, Goto
<1>13. ASSUME NEW j \in Job, DeleteGold(j) PROVE GoldFromSilver'
  BY <1>13 DEF DeleteGold, Goto
<1>14. ASSUME NEW j \in Job, AppendGold(j) PROVE GoldFromSilver'
  BY <1>14 DEF AppendGold, Goto, Contributing
<1>15. ASSUME NEW j \in Job, RecordRun(j) PROVE GoldFromSilver'
  BY <1>15 DEF RecordRun, EndRun, Record
<1>16. ASSUME NEW j \in Job, Fail(j) PROVE GoldFromSilver'
  BY <1>16 DEF Fail, EndRun, Record
<1>17. ASSUME NEW j \in Job, Crash(j) PROVE GoldFromSilver'
  BY <1>17 DEF Crash, EndRun
<1>18. CASE UNCHANGED vars
  BY <1>18 DEF vars
<1> HIDE DEF TypeOK, GoldBehind, GoldFromSilver
<1>19. QED
  BY <1>1, <1>2, <1>3, <1>4, <1>5, <1>6, <1>7, <1>8, <1>9, <1>10, <1>11, <1>12,
     <1>13, <1>14, <1>15, <1>16, <1>17, <1>18 DEF Next, Step

\* What concurrent jobs keep true of Gold.
GoldInv == SilverInv /\ GoldBehind /\ GoldFromSilver

LEMMA GoldInvariant == Spec => []GoldInv
<1>1. Init => GoldInv
  <2>1. Init => SilverFromBronze /\ SilverClean
    BY DEF Init, SilverFromBronze, SilverClean, SilverKeys
  <2>2. Init => GoldFromSilver
    BY DEF Init, GoldFromSilver
  <2>3. QED
    BY <2>1, <2>2, InitLanded, TypeInit, GoldBehindInit DEF GoldInv, SilverInv
<1>2. GoldInv /\ [Next]_vars => GoldInv'
  BY TypeStep, ResetStep, LandedStep, SilverFromBronzeStep, SilverCleanStep,
     GoldBehindStep, GoldFromSilverStep DEF GoldInv, SilverInv
<1>3. QED
  BY <1>1, <1>2, PTL DEF Spec

\* However many jobs refresh Gold and at whatever step they fail, readers only
\* see aggregates of rows that Silver has.
THEOREM GoldFromSilverAlways == Spec => []GoldFromSilver
<1>1. GoldInv => GoldFromSilver
  BY DEF GoldInv
<1>2. QED
  BY <1>1, GoldInvariant, PTL

\* One run at a time reads the Silver that stays, and a table it is to append
\* to has no row left of the dates it recomputes.
RefreshInv ==
  /\ \A j \in Job : pc[j] \in {"delete_gold", "append_gold"} => snapshot[j] = silver
  /\ \A j \in Job : pc[j] = "append_gold" =>
       \A c \in gold[table[j]] : DateOf[c[1][1]] \notin Scope(j, table[j])

LEMMA RefreshInvInit == Init => RefreshInv
BY DEF Init, RefreshInv

LEMMA RefreshInvStep ==
  ASSUME TypeOK, Alone, RefreshInv, [Next]_vars
  PROVE  RefreshInv'
<1> USE DEF TypeOK, PC, Alone, RefreshInv, Scope, driver, tables
<1>1. ASSUME NEW j \in Job, NEW b \in Batch, NEW res \in BOOLEAN, NEW reset \in BOOLEAN,
             StartRun(j, b, res, reset)
      PROVE RefreshInv'
  BY <1>1 DEF StartRun, Goto, AllIdle
<1>2. ASSUME NEW j \in Job, DropGold(j) PROVE RefreshInv'
  BY <1>2 DEF DropGold, Goto
<1>3. ASSUME NEW j \in Job, DropSilver(j) PROVE RefreshInv'
  BY <1>3 DEF DropSilver, Goto
<1>4. ASSUME NEW j \in Job, DropBronze(j) PROVE RefreshInv'
  BY <1>4 DEF DropBronze, Goto
<1>5. ASSUME NEW j \in Job, OpenInput(j) PROVE RefreshInv'
  BY <1>5 DEF OpenInput, Goto
<1>6. ASSUME NEW j \in Job, InsertNewBronzeRows(j) PROVE RefreshInv'
  BY <1>6 DEF InsertNewBronzeRows, Goto
<1>7. ASSUME NEW j \in Job, AppendBronze(j) PROVE RefreshInv'
  BY <1>7 DEF AppendBronze, Goto
<1>8. ASSUME NEW j \in Job, InsertNewSilverRows(j) PROVE RefreshInv'
  BY <1>8 DEF InsertNewSilverRows, Goto
<1>9. ASSUME NEW j \in Job, RejectSilver(j) PROVE RefreshInv'
  BY <1>9 DEF RejectSilver, EndRun, Record
<1>10. ASSUME NEW j \in Job, AppendSilver(j) PROVE RefreshInv'
  BY <1>10 DEF AppendSilver, Goto
<1>11. ASSUME NEW j \in Job, SkipGold(j) PROVE RefreshInv'
  BY <1>11 DEF SkipGold, Goto
<1>12. ASSUME NEW j \in Job, RefreshGold(j) PROVE RefreshInv'
  BY <1>12 DEF RefreshGold, Goto
<1>13. ASSUME NEW j \in Job, DeleteGold(j) PROVE RefreshInv'
  <2>1. /\ table[j] \in Table /\ pc[j] = "delete_gold"
        /\ pc' = [pc EXCEPT ![j] = "append_gold"] /\ UNCHANGED <<silver, driver>>
    BY <1>13, NextTable DEF DeleteGold, Goto
  <2>2. gold' = [gold EXCEPT ![table[j]] =
                   {c \in gold[table[j]] : DateOf[c[1][1]] \notin Scope(j, table[j])}]
    BY <1>13 DEF DeleteGold
  <2>3. \A c \in gold'[table[j]] : DateOf[c[1][1]] \notin Scope(j, table[j])
    BY <2>1, <2>2
  <2>4. \A i \in Job : pc'[i] = "append_gold" => i = j
    BY <2>1
  <2>5. QED
    BY <2>1, <2>3, <2>4
<1>14. ASSUME NEW j \in Job, AppendGold(j) PROVE RefreshInv'
  BY <1>14 DEF AppendGold, Goto
<1>15. ASSUME NEW j \in Job, RecordRun(j) PROVE RefreshInv'
  BY <1>15 DEF RecordRun, EndRun, Record
<1>16. ASSUME NEW j \in Job, Fail(j) PROVE RefreshInv'
  BY <1>16 DEF Fail, EndRun, Record
<1>17. ASSUME NEW j \in Job, Crash(j) PROVE RefreshInv'
  BY <1>17 DEF Crash, EndRun
<1>18. CASE UNCHANGED vars
  BY <1>18 DEF vars
<1> HIDE DEF TypeOK, Alone, RefreshInv
<1>19. QED
  BY <1>1, <1>2, <1>3, <1>4, <1>5, <1>6, <1>7, <1>8, <1>9, <1>10, <1>11, <1>12,
     <1>13, <1>14, <1>15, <1>16, <1>17, <1>18 DEF Next, Step

\* Every step that changes a partition, or the Silver rows it aggregates,
\* owes it a refresh, and only a completed refresh settles the debt.
LEMMA ExactStep ==
  ASSUME TypeOK, Alone, GoldBehind, RefreshInv, GoldExactUnlessOwed, [Next]_vars
  PROVE  GoldExactUnlessOwed'
<1> SUFFICES ASSUME NEW t \in Table, NEW d \in Date, <<t, d>> \notin owed' PROVE Exact(t, d)'
  BY DEF GoldExactUnlessOwed
<1>1. ASSUME UNCHANGED <<gold, silver, owed>> PROVE Exact(t, d)'
  BY <1>1 DEF GoldExactUnlessOwed, Exact, Partition, Contributing
<1>2. ASSUME NEW j \in Job, DropGold(j) PROVE Exact(t, d)'
  <2>1. t # table[j] /\ <<t, d>> \notin owed
    BY <1>2 DEF DropGold
  <2>2. gold'[t] = gold[t] /\ silver' = silver
    BY <1>2, <2>1 DEF DropGold, TypeOK
  <2>3. QED
    BY <2>1, <2>2 DEF GoldExactUnlessOwed, Exact, Partition
<1>3. ASSUME NEW j \in Job, DropSilver(j) PROVE Exact(t, d)'
  <2>1. gold'[t] = {} /\ silver' = {}
    BY <1>3 DEF DropSilver, Goto, GoldBehind
  <2>2. QED
    BY <2>1 DEF Exact, Partition, Contributing
<1>4. ASSUME NEW j \in Job, AppendSilver(j) PROVE Exact(t, d)'
  <2>1. <<t, d>> \notin owed /\ d \notin Dates(inserted[j])
    BY <1>4 DEF AppendSilver
  <2>2. silver' = silver \cup (inserted[j] \X {j}) /\ gold' = gold
    BY <1>4 DEF AppendSilver
  <2>3. \A c \in inserted[j] \X {j} : DateOf[c[1]] # d
    BY <2>1 DEF Dates
  <2>4. Contributing(silver', t, {d}) = Contributing(silver, t, {d})
    BY <2>2, <2>3 DEF Contributing
  <2>5. QED
    BY <2>1, <2>2, <2>4 DEF GoldExactUnlessOwed, Exact, Partition
<1>5. ASSUME NEW j \in Job, DeleteGold(j) PROVE Exact(t, d)'
  <2>1. <<t, d>> \notin owed /\ (t = table[j] => d \notin Scope(j, t)) /\ silver' = silver
    BY <1>5 DEF DeleteGold
  <2>2. gold' = [gold EXCEPT ![table[j]] =
                   {c \in gold[table[j]] : DateOf[c[1][1]] \notin Scope(j, table[j])}]
    BY <1>5 DEF DeleteGold
  <2>3. Partition(t, d)' = Partition(t, d)
    BY <2>1, <2>2 DEF Partition, TypeOK
  <2>4. QED
    BY <2>1, <2>3 DEF GoldExactUnlessOwed, Exact
<1>6. ASSUME NEW j \in Job, AppendGold(j) PROVE Exact(t, d)'
  <2> DEFINE new == Contributing(silver, t, Scope(j, t)) \X {j}
  <2>1. gold' = [gold EXCEPT ![table[j]] =
                   gold[table[j]] \cup (Contributing(silver, table[j], Scope(j, table[j])) \X {j})]
        /\ owed' = owed \ ({table[j]} \X Scope(j, table[j])) /\ silver' = silver
    BY <1>6 DEF AppendGold, Goto, RefreshInv
  <2>2. CASE t = table[j] /\ d \in Scope(j, t)
    <3>1. gold'[t] = gold[t] \cup new
      BY <2>1, <2>2 DEF TypeOK
    <3>2. \A c \in gold[t] : DateOf[c[1][1]] # d
      BY <1>6, <2>2 DEF AppendGold, Goto, RefreshInv
    <3>3. Partition(t, d)' = {c \in new : DateOf[c[1][1]] = d}
      BY <3>1, <3>2 DEF Partition
    <3>4. {c \in new : DateOf[c[1][1]] = d} = Contributing(silver, t, {d}) \X {j}
      BY <2>2 DEF Contributing
    <3>5. QED
      <4>1. \A c \in Contributing(silver, t, {d}) \X {j} : c[2] = j /\ c[1] \in Contributing(silver, t, {d})
        OBVIOUS
      <4>2. \A s \in Contributing(silver, t, {d}) :
              <<s, j>> \in Contributing(silver, t, {d}) \X {j} /\ <<s, j>>[1] = s
        OBVIOUS
      <4>3. {c[1] : c \in Partition(t, d)'} = Contributing(silver, t, {d})
        BY <3>3, <3>4, <4>1, <4>2
      <4>4. QED
        BY <2>1, <3>3, <3>4, <4>1, <4>3 DEF Exact
  <2>3. CASE t = table[j] /\ d \notin Scope(j, t)
    <3>1. gold'[t] = gold[t] \cup new
      BY <2>1, <2>3 DEF TypeOK
    <3>2. \A c \in new : DateOf[c[1][1]] # d
      BY <2>3 DEF Contributing
    <3>3. Partition(t, d)' = Partition(t, d)
      BY <3>1, <3>2 DEF Partition
    <3>4. QED
      BY <2>1, <2>3, <3>3 DEF GoldExactUnlessOwed, Exact
  <2>4. CASE t # table[j]
    <3>1. gold'[t] = gold[t] /\ <<t, d>> \notin owed
      BY <2>1, <2>4 DEF TypeOK
    <3>2. QED
      BY <2>1, <3>1 DEF GoldExactUnlessOwed, Exact, Partition
  <2>5. QED
    BY <2>2, <2>3, <2>4
<1>7. ASSUME NEW j \in Job, Step(j)
      PROVE  \/ UNCHANGED <<gold, silver, owed>>
             \/ DropGold(j) \/ DropSilver(j) \/ AppendSilver(j) \/ DeleteGold(j) \/ AppendGold(j)
  BY <1>7 DEF Step, StartRun, DropBronze, OpenInput, InsertNewBronzeRows, AppendBronze,
     InsertNewSilverRows, RejectSilver, SkipGold, RefreshGold, RecordRun, Fail, Crash, tables
<1>8. QED
  BY <1>1, <1>2, <1>3, <1>4, <1>5, <1>6, <1>7 DEF Next, vars, tables

\* The invariant of Gold under runs one at a time.
SerialGoldInv ==
  /\ TypeOK /\ ResetAlone /\ Alone /\ GoldBehind /\ RefreshInv /\ GoldExactUnlessOwed

LEMMA SerialGoldInvariant ==
  ASSUME ~Overlap
  PROVE  Spec => []SerialGoldInv
<1>1. Init => SerialGoldInv
  <2>1. Init => GoldExactUnlessOwed
    BY DEF Init, GoldExactUnlessOwed, Exact, Partition, Contributing
  <2>2. QED
    BY <2>1, TypeInit, InitLanded, AloneInit, GoldBehindInit, RefreshInvInit DEF SerialGoldInv
<1>2. SerialGoldInv /\ [Next]_vars => SerialGoldInv'
  BY TypeStep, ResetStep, AloneStep, GoldBehindStep, RefreshInvStep, ExactStep DEF SerialGoldInv
<1>3. QED
  BY <1>1, <1>2, PTL DEF Spec

\* Runs that do not overlap leave every partition exact but for those whose
\* refresh is still owed, also when a run fails between two Gold commits.
THEOREM GoldExactSerial ==
  ASSUME ~Overlap
  PROVE  Spec => []GoldExactUnlessOwed
<1>1. SerialGoldInv => GoldExactUnlessOwed
  BY DEF SerialGoldInv
<1>2. QED
  BY <1>1, SerialGoldInvariant, PTL

NothingOwed == \A t \in Table, d \in Date : CommonTable(t) => <<t, d>> \notin owed

\* What is owed between the Silver append and the last Gold append.
Paid ==
  /\ AllIdle => NothingOwed
  /\ \A j \in Job : pc[j] \in {"drop_bronze", "open", "insert_bronze", "append_bronze",
                               "insert_silver", "append_silver", "record_run"} => NothingOwed
  /\ \A j \in Job, t \in Table, d \in Date :
       CommonTable(t) /\ <<t, d>> \in owed =>
         /\ pc[j] = "refresh_gold" => d \in Dates(inserted[j])
         /\ pc[j] \in {"delete_gold", "append_gold"} => t >= table[j] /\ d \in Scope(j, t)

LEMMA PaidInit == Init => Paid
BY DEF Init, Paid, NothingOwed

\* The tables of a refresh come one after the other.
LEMMA TableOrder ==
  ASSUME NEW j \in Job, NEW s \in 1 .. LastTable(j), NEW t \in Table
  PROVE  /\ t >= 1
         /\ t = s => t >= s
         /\ t >= s /\ t # s => t >= s + 1
         /\ t >= s /\ t # s /\ s = LastTable(j) => ~(t <= LastTable(j))
BY MedallionAssumption DEF LastTable, Table

LEMMA ScopeOfDates ==
  ASSUME NEW j \in Job, NEW t \in Table, NEW d \in Date, d \in Dates(inserted[j])
  PROVE  d \in Scope(j, t)
BY DEF Scope

LEMMA PaidStep ==
  ASSUME ~Overlap, ~Faults, TypeOK, Alone, Paid, [Next]_vars
  PROVE  Paid'
<1> USE DEF TypeOK, PC, Alone, AllIdle, Paid, NothingOwed, CommonTable, driver, tables
<1>1. ASSUME NEW j \in Job, NEW b \in Batch, NEW res \in BOOLEAN, NEW reset \in BOOLEAN,
             StartRun(j, b, res, reset)
      PROVE Paid'
  BY <1>1 DEF StartRun, Goto, AllIdle
<1>2. ASSUME NEW j \in Job, DropGold(j) PROVE Paid'
  BY <1>2 DEF DropGold, Goto
<1>3. ASSUME NEW j \in Job, DropSilver(j) PROVE Paid'
  BY <1>3 DEF DropSilver, Goto
<1>4. ASSUME NEW j \in Job, DropBronze(j) PROVE Paid'
  BY <1>4 DEF DropBronze, Goto
<1>5. ASSUME NEW j \in Job, OpenInput(j) PROVE Paid'
  BY <1>5 DEF OpenInput, Goto
<1>6. ASSUME NEW j \in Job, InsertNewBronzeRows(j) PROVE Paid'
  BY <1>6 DEF InsertNewBronzeRows, Goto
<1>7. ASSUME NEW j \in Job, AppendBronze(j) PROVE Paid'
  BY <1>7 DEF AppendBronze, Goto
<1>8. ASSUME NEW j \in Job, InsertNewSilverRows(j) PROVE Paid'
  BY <1>8 DEF InsertNewSilverRows, Goto
<1>9. ASSUME NEW j \in Job, RejectSilver(j) PROVE Paid'
  BY <1>9 DEF RejectSilver, EndRun, Record
<1>10. ASSUME NEW j \in Job, AppendSilver(j) PROVE Paid'
  BY <1>10 DEF AppendSilver, Goto
<1>11. ASSUME NEW j \in Job, SkipGold(j) PROVE Paid'
  BY <1>11 DEF SkipGold, Goto, Dates
<1>12. ASSUME NEW j \in Job, RefreshGold(j) PROVE Paid'
  <2>1. /\ pc[j] = "refresh_gold" /\ pc' = [pc EXCEPT ![j] = "delete_gold"]
        /\ table'[j] = 1 /\ UNCHANGED <<owed, inserted>>
    BY <1>12 DEF RefreshGold, Goto
  <2>2. ASSUME NEW t \in Table, NEW d \in Date, CommonTable(t), <<t, d>> \in owed
        PROVE  t >= 1 /\ d \in Scope(j, t)'
    <3>1. d \in Scope(j, t) /\ t >= 1
      BY <2>1, <2>2, ScopeOfDates, FirstTable, TableOrder
    <3>2. QED
      BY <2>1, <3>1 DEF Scope
  <2>3. \A i \in Job \ {j} : pc'[i] = "idle"
    BY <2>1
  <2>4. pc'[j] = "delete_gold"
    BY <2>1
  <2>5. QED
    BY <2>1, <2>2, <2>3, <2>4
<1>13. ASSUME NEW j \in Job, DeleteGold(j) PROVE Paid'
  <2>1. /\ pc[j] = "delete_gold" /\ pc' = [pc EXCEPT ![j] = "append_gold"]
        /\ owed' = owed \cup ({table[j]} \X Scope(j, table[j])) /\ UNCHANGED <<table, inserted>>
        /\ table[j] \in 1 .. LastTable(j)
    BY <1>13 DEF DeleteGold, Goto
  <2>2. ASSUME NEW t \in Table, NEW d \in Date, CommonTable(t), <<t, d>> \in owed'
        PROVE  t >= table[j] /\ d \in Scope(j, t)'
    <3>1. t >= table[j] /\ d \in Scope(j, t)
      BY <2>1, <2>2, TableOrder
    <3>2. QED
      BY <2>1, <3>1 DEF Scope
  <2>3. (\A i \in Job \ {j} : pc'[i] = "idle") /\ pc'[j] = "append_gold"
    BY <2>1
  <2>4. QED
    BY <2>1, <2>2, <2>3
<1>14. ASSUME NEW j \in Job, AppendGold(j) PROVE Paid'
  <2>1. /\ pc[j] = "append_gold" /\ table[j] \in 1 .. LastTable(j)
        /\ pc' = [pc EXCEPT ![j] = IF table[j] = LastTable(j) THEN "record_run" ELSE "delete_gold"]
        /\ owed' = owed \ ({table[j]} \X Scope(j, table[j])) /\ UNCHANGED inserted
        /\ table'[j] = IF table[j] = LastTable(j) THEN table[j] ELSE table[j] + 1
    BY <1>14 DEF AppendGold, Goto
  <2>2. ASSUME NEW t \in Table, NEW d \in Date, CommonTable(t), <<t, d>> \in owed'
        PROVE  table[j] # LastTable(j) /\ t >= table[j] + 1 /\ d \in Scope(j, t)'
    <3>1. t >= table[j] /\ d \in Scope(j, t) /\ t # table[j]
      BY <2>1, <2>2
    <3>2. table[j] # LastTable(j) /\ t >= table[j] + 1
      BY <2>1, <2>2, <3>1, TableOrder
    <3>3. QED
      BY <2>1, <3>1, <3>2 DEF Scope
  <2>3. \A i \in Job \ {j} : pc'[i] = "idle"
    BY <2>1
  <2>4. pc'[j] = IF table[j] = LastTable(j) THEN "record_run" ELSE "delete_gold"
    BY <2>1
  <2>5. QED
    BY <2>1, <2>2, <2>3, <2>4
<1>15. ASSUME NEW j \in Job, RecordRun(j) PROVE Paid'
  BY <1>15 DEF RecordRun, EndRun, Record
<1>16. ASSUME NEW j \in Job, Fail(j) PROVE Paid'
  BY <1>16 DEF Fail, EndRun, Record
<1>17. ASSUME NEW j \in Job, Crash(j) PROVE Paid'
  BY <1>17 DEF Crash, EndRun
<1>18. CASE UNCHANGED vars
  BY <1>18 DEF vars, Scope, LastTable
<1> HIDE DEF TypeOK, Alone, Paid
<1>19. QED
  BY <1>1, <1>2, <1>3, <1>4, <1>5, <1>6, <1>7, <1>8, <1>9, <1>10, <1>11, <1>12,
     <1>13, <1>14, <1>15, <1>16, <1>17, <1>18 DEF Next, Step

\* Without failures, runs that do not overlap leave every table they all
\* refresh in agreement with Silver.
THEOREM GoldReconcilesFaultFree ==
  ASSUME ~Overlap, ~Faults
  PROVE  Spec => []GoldReconciles
<1> DEFINE IInv == SerialGoldInv /\ Paid
<1>1. Init /\ SerialGoldInv => IInv
  BY PaidInit
<1>2. IInv /\ [Next]_vars /\ SerialGoldInv' => IInv'
  BY PaidStep DEF SerialGoldInv
<1>3. IInv => GoldReconciles
  BY DEF SerialGoldInv, Paid, NothingOwed, GoldExactUnlessOwed, GoldReconciles
<1>4. QED
  BY <1>1, <1>2, <1>3, SerialGoldInvariant, PTL DEF Spec


-----------------------------------------------------------------------------
(***************************************************************************)
(* Runs: what a succeeded manifest is worth, and what running its batch    *)
(* again does, with any number of jobs, failures and crashes around it.    *)
(***************************************************************************)

PastBronze == {"insert_silver", "append_silver", "refresh_gold", "delete_gold",
               "append_gold", "record_run"}
PastSilver == {"refresh_gold", "delete_gold", "append_gold", "record_run"}

\* How far a run has got shows in the tables, and no reset takes it back.
Progress ==
  /\ \A j \in Job : ~Resetting(j)
  /\ \A j \in Job : pc[j] \notin {"idle", "open"} /\ ~resume[j] => rows[j] = RowsOf[batch[j]]
  /\ \A j \in Job : pc[j] \in PastBronze => \A r \in rows[j] : HashOf[r] \in BronzeHashes
  /\ \A j \in Job : pc[j] = "append_silver" =>
       SilverCandidates(rows[j]) \subseteq SilverKeys \cup inserted[j]
  /\ \A j \in Job : pc[j] \in PastSilver => SilverCandidates(rows[j]) \subseteq SilverKeys

LEMMA ProgressInit == Init => Progress
BY DEF Init, Progress, Resetting, PastBronze, PastSilver

\* Without a reset, the tables only grow.
LEMMA Growth ==
  ASSUME Progress, [Next]_vars
  PROVE  BronzeHashes \subseteq BronzeHashes' /\ SilverKeys \subseteq SilverKeys'
<1>1. bronze \subseteq bronze' /\ silver \subseteq silver'
  BY TableWrites DEF Progress, Resetting, DropSilver, DropBronze, AppendBronze, AppendSilver, Goto
<1>2. QED
  BY <1>1 DEF BronzeHashes, SilverKeys

\* A candidate that the anti-join leaves out is in Silver.
LEMMA LeftOut ==
  ASSUME TypeOK, NEW candidates \in SUBSET Key
  PROVE  candidates \subseteq SilverKeys \cup NewSilverKeys(candidates)
BY DEF NewSilverKeys, SilverKeys

LEMMA ProgressStep ==
  ASSUME ~MayReset, TypeOK, InputLanded, Progress, [Next]_vars
  PROVE  Progress'
<1>0. BronzeHashes \subseteq BronzeHashes' /\ SilverKeys \subseteq SilverKeys'
  BY Growth
<1> USE DEF TypeOK, PC, Progress, PastBronze, PastSilver, Resetting, SilverCandidates, driver, tables
<1>1. ASSUME NEW j \in Job, NEW b \in Batch, NEW res \in BOOLEAN, NEW reset \in BOOLEAN,
             StartRun(j, b, res, reset)
      PROVE Progress'
  BY <1>0, <1>1 DEF StartRun, Goto
<1>2. ASSUME NEW j \in Job, DropGold(j) PROVE Progress'
  BY <1>0, <1>2 DEF DropGold, Goto
<1>3. ASSUME NEW j \in Job, DropSilver(j) PROVE Progress'
  BY <1>0, <1>3 DEF DropSilver, Goto
<1>4. ASSUME NEW j \in Job, DropBronze(j) PROVE Progress'
  BY <1>0, <1>4 DEF DropBronze, Goto
<1>5. ASSUME NEW j \in Job, OpenInput(j) PROVE Progress'
  <2>1. pc' = [pc EXCEPT ![j] = IF resume[j] THEN "insert_silver" ELSE "insert_bronze"]
        /\ UNCHANGED <<resume, batch, inserted>>
    BY <1>5 DEF OpenInput, Goto
  <2>2. rows' = [rows EXCEPT ![j] =
           IF resume[j] THEN {r \in SliceOf[batch[j]] : \E i \in Job : <<r, i>> \in bronze}
           ELSE RowsOf[batch[j]]]
    BY <1>5 DEF OpenInput
  <2>3. ASSUME NEW r \in rows'[j], resume[j] PROVE HashOf[r] \in BronzeHashes
    <3>1. PICK i \in Job : <<r, i>> \in bronze
      BY <2>2, <2>3
    <3>2. <<r, i>>[1] = r
      OBVIOUS
    <3>3. QED
      BY <3>1, <3>2 DEF BronzeHashes
  <2>4. ~resume[j] => rows'[j] = RowsOf[batch[j]]
    BY <2>2
  <2>5. \A i \in Job \ {j} : rows'[i] = rows[i] /\ pc'[i] = pc[i]
    BY <2>1, <2>2
  <2>6. pc'[j] = IF resume[j] THEN "insert_silver" ELSE "insert_bronze"
    BY <2>1
  <2>7. QED
    BY <1>0, <2>1, <2>3, <2>4, <2>5, <2>6
<1>6. ASSUME NEW j \in Job, InsertNewBronzeRows(j) PROVE Progress'
  BY <1>0, <1>6 DEF InsertNewBronzeRows, Goto
<1>7. ASSUME NEW j \in Job, AppendBronze(j) PROVE Progress'
  <2>1. bronze' = bronze \cup (fresh[j] \X {j}) /\ pc[j] = "append_bronze"
    BY <1>7 DEF AppendBronze, Goto
  <2>2. ASSUME NEW r \in rows[j] PROVE HashOf[r] \in BronzeHashes'
    <3>1. CASE r \in fresh[j]
      <4>1. <<r, j>> \in bronze' /\ <<r, j>>[1] = r
        BY <2>1, <3>1
      <4>2. QED
        BY <4>1 DEF BronzeHashes
    <3>2. CASE HashOf[r] \in BronzeHashes
      BY <1>0, <3>2
    <3>3. QED
      BY <2>1, <3>1, <3>2 DEF InputLanded
  <2>3. QED
    BY <1>0, <1>7, <2>2 DEF AppendBronze, Goto
<1>8. ASSUME NEW j \in Job, InsertNewSilverRows(j) PROVE Progress'
  <2>1. SilverCandidates(rows[j]) \subseteq SilverKeys \cup NewSilverKeys(SilverCandidates(rows[j]))
    BY LeftOut, MedallionAssumption
  <2>2. QED
    BY <1>0, <1>8, <2>1 DEF InsertNewSilverRows, Goto
<1>9. ASSUME NEW j \in Job, RejectSilver(j) PROVE Progress'
  BY <1>0, <1>9 DEF RejectSilver, EndRun, Record
<1>10. ASSUME NEW j \in Job, AppendSilver(j) PROVE Progress'
  <2>1. silver' = silver \cup (inserted[j] \X {j}) /\ pc[j] = "append_silver"
    BY <1>10 DEF AppendSilver, Goto
  <2>2. inserted[j] \subseteq SilverKeys'
    <3>1. ASSUME NEW k \in inserted[j] PROVE k \in SilverKeys'
      <4>1. <<k, j>> \in silver' /\ <<k, j>>[1] = k
        BY <2>1
      <4>2. QED
        BY <4>1 DEF SilverKeys
    <3>2. QED
      BY <3>1
  <2>3. SilverCandidates(rows[j]) \subseteq SilverKeys'
    BY <1>0, <2>1, <2>2
  <2>4. QED
    BY <1>0, <1>10, <2>3 DEF AppendSilver, Goto
<1>11. ASSUME NEW j \in Job, SkipGold(j) PROVE Progress'
  BY <1>0, <1>11 DEF SkipGold, Goto
<1>12. ASSUME NEW j \in Job, RefreshGold(j) PROVE Progress'
  BY <1>0, <1>12 DEF RefreshGold, Goto
<1>13. ASSUME NEW j \in Job, DeleteGold(j) PROVE Progress'
  BY <1>0, <1>13 DEF DeleteGold, Goto
<1>14. ASSUME NEW j \in Job, AppendGold(j) PROVE Progress'
  BY <1>0, <1>14 DEF AppendGold, Goto
<1>15. ASSUME NEW j \in Job, RecordRun(j) PROVE Progress'
  BY <1>0, <1>15 DEF RecordRun, EndRun, Record
<1>16. ASSUME NEW j \in Job, Fail(j) PROVE Progress'
  BY <1>0, <1>16 DEF Fail, EndRun, Record
<1>17. ASSUME NEW j \in Job, Crash(j) PROVE Progress'
  BY <1>0, <1>17 DEF Crash, EndRun
<1>18. CASE UNCHANGED vars
  BY <1>0, <1>18 DEF vars
<1> HIDE DEF TypeOK, Progress
<1>19. QED
  BY <1>1, <1>2, <1>3, <1>4, <1>5, <1>6, <1>7, <1>8, <1>9, <1>10, <1>11, <1>12,
     <1>13, <1>14, <1>15, <1>16, <1>17, <1>18 DEF Next, Step

\* Only the end of a run writes its manifest.
LEMMA ManifestWrites ==
  ASSUME [Next]_vars
  PROVE  \/ UNCHANGED manifest
         \/ \E j \in Job : RejectSilver(j) \/ RecordRun(j) \/ Fail(j)
<1>1. CASE UNCHANGED vars
  BY <1>1 DEF vars
<1>2. ASSUME NEW j \in Job, Step(j)
      PROVE  UNCHANGED manifest \/ RejectSilver(j) \/ RecordRun(j) \/ Fail(j)
  BY <1>2 DEF Step, StartRun, DropGold, DropSilver, DropBronze, OpenInput, InsertNewBronzeRows,
     AppendBronze, InsertNewSilverRows, AppendSilver, SkipGold, RefreshGold, DeleteGold,
     AppendGold, Crash
<1>3. QED
  BY <1>1, <1>2 DEF Next

\* ManifestTruth without its condition on resets.
Truth ==
  \A b \in Batch : manifest[b] = "succeeded" =>
    /\ {HashOf[r] : r \in RowsOf[b]} \subseteq BronzeHashes
    /\ SilverCandidates(RowsOf[b]) \subseteq SilverKeys

LEMMA TruthStep ==
  ASSUME TypeOK, Progress, Truth, [Next]_vars
  PROVE  Truth'
<1>0. BronzeHashes \subseteq BronzeHashes' /\ SilverKeys \subseteq SilverKeys'
  BY Growth
<1>1. CASE UNCHANGED manifest
  <2> SUFFICES ASSUME NEW b \in Batch, manifest[b] = "succeeded"
               PROVE  /\ {HashOf[r] : r \in RowsOf[b]} \subseteq BronzeHashes'
                      /\ SilverCandidates(RowsOf[b]) \subseteq SilverKeys'
    BY <1>1 DEF Truth, SilverCandidates
  <2>1. QED
    BY <1>0 DEF Truth
<1>2. ASSUME NEW j \in Job, RejectSilver(j) \/ Fail(j) PROVE Truth'
  <2>1. manifest' = [manifest EXCEPT ![batch[j]] = "failed"] /\ UNCHANGED <<bronze, silver>>
    BY <1>2 DEF RejectSilver, Fail, Record, tables
  <2>2. \A b \in Batch : manifest'[b] = "succeeded" => manifest[b] = "succeeded"
    BY <2>1 DEF TypeOK
  <2>3. QED
    BY <2>1, <2>2 DEF Truth, BronzeHashes, SilverKeys, SilverCandidates
<1>3. ASSUME NEW j \in Job, RecordRun(j) PROVE Truth'
  <2>1. /\ manifest' = [manifest EXCEPT ![batch[j]] = IF resume[j] THEN "resumed" ELSE "succeeded"]
        /\ pc[j] = "record_run" /\ UNCHANGED <<bronze, silver>>
    BY <1>3 DEF RecordRun, Record, tables
  <2>2. ASSUME NEW b \in Batch, manifest'[b] = "succeeded"
        PROVE  manifest[b] = "succeeded" \/ (b = batch[j] /\ rows[j] = RowsOf[b])
    BY <2>1, <2>2 DEF TypeOK, Progress
  <2>3. /\ \A r \in rows[j] : HashOf[r] \in BronzeHashes
        /\ SilverCandidates(rows[j]) \subseteq SilverKeys
    BY <2>1 DEF Progress, PastBronze, PastSilver
  <2>4. UNCHANGED <<BronzeHashes, SilverKeys>>
    BY <2>1 DEF BronzeHashes, SilverKeys
  <2>5. QED
    BY <2>2, <2>3, <2>4 DEF Truth, SilverCandidates
<1>4. QED
  BY <1>1, <1>2, <1>3, ManifestWrites

\* The invariant of runs without a reset.
RunInv == TypeOK /\ ResetAlone /\ InputLanded /\ Progress /\ Truth

LEMMA RunInvariant ==
  ASSUME ~MayReset
  PROVE  Spec => []RunInv
<1>1. Init => RunInv
  <2>1. Init => Truth
    BY DEF Init, Truth
  <2>2. QED
    BY <2>1, TypeInit, InitLanded, ProgressInit DEF RunInv
<1>2. RunInv /\ [Next]_vars => RunInv'
  BY TypeStep, ResetStep, LandedStep, ProgressStep, TruthStep DEF RunInv
<1>3. QED
  BY <1>1, <1>2, PTL DEF Spec

\* While nobody resets, a succeeded manifest is the truth: the batch is in
\* Bronze and its events in Silver, whatever jobs ran beside it.
THEOREM ManifestTruthNoReset ==
  ASSUME ~MayReset
  PROVE  Spec => []ManifestTruth
<1>1. RunInv => ManifestTruth
  BY DEF RunInv, Truth, ManifestTruth
<1>2. QED
  BY <1>1, RunInvariant, PTL

-----------------------------------------------------------------------------

\* No two jobs write the manifest of one run.
DisjointBatches == \A i, j \in Job : i # j => BatchOf[i] \cap BatchOf[j] = {}

\* The rerun of a succeeded batch finds nothing new, and never reaches Gold.
Rerun(j) == pc[j] # "idle" /\ ~resume[j] /\ manifest[batch[j]] = "succeeded"
Idempotent ==
  \A j \in Job :
    /\ pc[j] # "idle" => batch[j] \in BatchOf[j]
    /\ Rerun(j) /\ pc[j] = "append_bronze" => fresh[j] = {}
    /\ Rerun(j) /\ pc[j] \in {"append_silver", "refresh_gold"} => inserted[j] = {}
    /\ ~(Rerun(j) /\ pc[j] \in {"delete_gold", "append_gold"})

LEMMA IdempotentInit == Init => Idempotent
BY DEF Init, Idempotent, Rerun

LEMMA IdempotentStep ==
  ASSUME DisjointBatches, RunInv, Idempotent, [Next]_vars
  PROVE  Idempotent'
<1> USE MedallionAssumption DEF TypeOK, PC, DisjointBatches, Idempotent, Rerun, RunInv, Progress, Resetting, driver, tables
<1>1. ASSUME NEW j \in Job, NEW b \in Batch, NEW res \in BOOLEAN, NEW reset \in BOOLEAN,
             StartRun(j, b, res, reset)
      PROVE Idempotent'
  BY <1>1 DEF StartRun, Goto
<1>2. ASSUME NEW j \in Job, DropGold(j) PROVE Idempotent'
  BY <1>2 DEF DropGold, Goto
<1>3. ASSUME NEW j \in Job, DropSilver(j) PROVE Idempotent'
  BY <1>3 DEF DropSilver, Goto
<1>4. ASSUME NEW j \in Job, DropBronze(j) PROVE Idempotent'
  BY <1>4 DEF DropBronze, Goto
<1>5. ASSUME NEW j \in Job, OpenInput(j) PROVE Idempotent'
  BY <1>5 DEF OpenInput, Goto
<1>6. ASSUME NEW j \in Job, InsertNewBronzeRows(j) PROVE Idempotent'
  <2>1. ASSUME Rerun(j) PROVE fresh'[j] = {}
    <3>1. \A r \in rows[j] : HashOf[r] \in BronzeHashes
      <4>1. rows[j] = RowsOf[batch[j]] /\ batch[j] \in Batch
        BY <1>6, <2>1 DEF InsertNewBronzeRows, Goto
      <4>2. {HashOf[r] : r \in RowsOf[batch[j]]} \subseteq BronzeHashes
        BY <2>1, <4>1 DEF Truth
      <4>3. \A r \in rows[j] : HashOf[r] \in {HashOf[s] : s \in RowsOf[batch[j]]}
        BY <4>1
      <4>4. QED
        BY <4>2, <4>3
    <3>2. QED
      BY <1>6, <3>1 DEF InsertNewBronzeRows
  <2>2. QED
    BY <1>6, <2>1 DEF InsertNewBronzeRows, Goto
<1>7. ASSUME NEW j \in Job, AppendBronze(j) PROVE Idempotent'
  BY <1>7 DEF AppendBronze, Goto
<1>8. ASSUME NEW j \in Job, InsertNewSilverRows(j) PROVE Idempotent'
  <2>1. ASSUME Rerun(j) PROVE inserted'[j] = {}
    <3>1. SilverCandidates(rows[j]) \subseteq SilverKeys
      BY <1>8, <2>1 DEF InsertNewSilverRows, Goto, Truth
    <3>2. SilverCandidates(rows[j]) \in SUBSET Key
      BY DEF SilverCandidates
    <3>3. NewSilverKeys(SilverCandidates(rows[j])) = {}
      BY <3>1, <3>2, AntiJoin
    <3>4. QED
      BY <1>8, <3>3 DEF InsertNewSilverRows
  <2>2. QED
    BY <1>8, <2>1 DEF InsertNewSilverRows, Goto
<1>9. ASSUME NEW j \in Job, RejectSilver(j) PROVE Idempotent'
  BY <1>9 DEF RejectSilver, EndRun, Record
<1>10. ASSUME NEW j \in Job, AppendSilver(j) PROVE Idempotent'
  BY <1>10 DEF AppendSilver, Goto
<1>11. ASSUME NEW j \in Job, SkipGold(j) PROVE Idempotent'
  BY <1>11 DEF SkipGold, Goto
<1>12. ASSUME NEW j \in Job, RefreshGold(j) PROVE Idempotent'
  BY <1>12 DEF RefreshGold, Goto
<1>13. ASSUME NEW j \in Job, DeleteGold(j) PROVE Idempotent'
  BY <1>13 DEF DeleteGold, Goto
<1>14. ASSUME NEW j \in Job, AppendGold(j) PROVE Idempotent'
  BY <1>14 DEF AppendGold, Goto
<1>15. ASSUME NEW j \in Job, RecordRun(j) PROVE Idempotent'
  BY <1>15 DEF RecordRun, EndRun, Record
<1>16. ASSUME NEW j \in Job, Fail(j) PROVE Idempotent'
  BY <1>16 DEF Fail, EndRun, Record
<1>17. ASSUME NEW j \in Job, Crash(j) PROVE Idempotent'
  BY <1>17 DEF Crash, EndRun
<1>18. CASE UNCHANGED vars
  BY <1>18 DEF vars
<1> HIDE DEF TypeOK, Idempotent, RunInv, Progress
<1>19. QED
  BY <1>1, <1>2, <1>3, <1>4, <1>5, <1>6, <1>7, <1>8, <1>9, <1>10, <1>11, <1>12,
     <1>13, <1>14, <1>15, <1>16, <1>17, <1>18 DEF Next, Step

\* At-least-once delivery and reruns are harmless: running a succeeded batch
\* again commits nothing, also while other jobs commit.
THEOREM RerunIsNoopNoReset ==
  ASSUME ~MayReset, DisjointBatches
  PROVE  Spec => RerunIsNoop
<1> DEFINE IInv == RunInv /\ Idempotent
           Quiet == \A j \in Job :
             (/\ ~MayReset /\ pc[j] # "idle" /\ ~resume[j]
              /\ manifest[batch[j]] = "succeeded" /\ <<pc[j], table[j]>>' # <<pc[j], table[j]>>)
             => UNCHANGED tables
<1>1. Init /\ RunInv => IInv
  BY IdempotentInit
<1>2. IInv /\ [Next]_vars /\ RunInv' => IInv'
  BY IdempotentStep
<1>3. IInv /\ [Next]_vars => [Quiet]_vars
  <2> SUFFICES ASSUME RunInv, Idempotent, [Next]_vars, NEW j \in Job, Rerun(j),
                      <<pc[j], table[j]>>' # <<pc[j], table[j]>>
               PROVE  UNCHANGED tables
    BY DEF Rerun
  <2>1. ASSUME UNCHANGED vars PROVE FALSE
    BY <2>1 DEF vars, driver
  <2>2. ASSUME NEW i \in Job, Step(i), i # j PROVE FALSE
    BY <2>2 DEF RunInv, TypeOK, Step, StartRun, DropGold, DropSilver, DropBronze, OpenInput,
       InsertNewBronzeRows, AppendBronze, InsertNewSilverRows, RejectSilver, AppendSilver,
       SkipGold, RefreshGold, DeleteGold, AppendGold, RecordRun, Fail, Crash, Goto, EndRun,
       driver
  <2>3. ASSUME Step(j) PROVE UNCHANGED tables
    <3>1. CASE UNCHANGED tables
      BY <3>1
    <3>2. CASE AppendBronze(j)
      BY <3>2 DEF AppendBronze, Goto, Idempotent, tables
    <3>3. CASE AppendSilver(j)
      BY <3>3 DEF AppendSilver, Goto, Idempotent, tables
    <3>4. CASE DeleteGold(j) \/ AppendGold(j)
      BY <3>4 DEF DeleteGold, AppendGold, Goto, Idempotent
    <3>5. CASE DropGold(j) \/ DropSilver(j) \/ DropBronze(j)
      BY <3>5 DEF DropGold, DropSilver, DropBronze, Goto, RunInv, Progress, Resetting
    <3>6. QED
      BY <2>3, <3>1, <3>2, <3>3, <3>4, <3>5 DEF Step, StartRun, OpenInput, InsertNewBronzeRows,
         InsertNewSilverRows, RejectSilver, SkipGold, RefreshGold, RecordRun, Fail, Crash
  <2>4. QED
    BY <2>1, <2>2, <2>3 DEF Next
<1>4. QED
  BY <1>1, <1>2, <1>3, RunInvariant, PTL DEF Spec, RerunIsNoop


====
