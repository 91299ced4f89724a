---- MODULE StreamQueryProofs ----
(***************************************************************************)
(* The streaming job: types, that the checkpoint never passes a record     *)
(* that Silver does not have, that committed batches and finished runs are *)
(* recorded as what they were, and the refinement of the reader of a log.  *)
(***************************************************************************)
EXTENDS StreamQuery, TLAPS

Living == Stages \cup {"idle", "commit"}

\* The offset log is at most one batch ahead of the commit log, and is so
\* exactly while the thread has a batch to process or to redeliver.
Plan ==
  /\ Len(planned) \in commits .. commits + 1
  /\ thread \in Stages \cup {"commit"} => Len(planned) = commits + 1
  /\ thread = "idle" => Len(planned) = commits
  /\ initial = -1 => planned = <<>>
  /\ thread \in Living => initial # -1
  /\ main \in {"down", "load"} => thread = "none"
  /\ \A b \in 1 .. Len(planned) : b <= planned[b]

\* Bronze has what the topic still has of a batch that Silver is to get.
Landed == thread = "silver" => Rows \subseteq bronze

TypeInv == TypeOK /\ Plan /\ Landed

\* How far the tables are with the batch in hand.
Done(m) == m \in silver \/ (~FailOnLoss /\ m <= low)
Batch ==
  thread \in {"gold", "log", "commit"} => \A m \in BatchRange : Done(m)

\* What the manifest of the batch in hand says.
Recorded ==
  /\ thread = "log" => manifest[commits + 1] = "succeeded"
  /\ thread = "commit" =>
       manifest[commits + 1] = "succeeded" \/ \A m \in BatchRange : m <= low

\* A batch in hand has a number and a range of offsets of the topic.
LEMMA InHand ==
  ASSUME TypeInv, thread \in Stages \cup {"commit"}
  PROVE  commits + 1 \in BatchId /\ BatchRange \subseteq Offset
BY StreamAssumption DEF TypeInv, TypeOK, Plan, Living, Stages, BatchRange, EndOf, Offset, BatchId

\* While the checkpoint stays, so do the offsets of its batches.
LEMMA SameLog ==
  ASSUME UNCHANGED checkpoint
  PROVE  (\A b : EndOf(b)' = EndOf(b)) /\ BatchRange' = BatchRange
BY DEF checkpoint, EndOf, BatchRange

\* The topic only ever loses records of the batch in hand.
LEMMA RowsShrink ==
  ASSUME TypeInv, thread \in Stages \cup {"commit"}, UNCHANGED checkpoint,
         low' = low \/ low' = low + 1
  PROVE  Rows' \subseteq Rows
<1>1. BatchRange' = BatchRange /\ BatchRange \subseteq Offset
  BY SameLog, InHand
<1>2. low \in Int /\ \A m \in Offset : m \in Int
  BY DEF TypeInv, TypeOK, Offset
<1>3. QED
  BY <1>1, <1>2 DEF Rows

\* What an evaluation that does not raise finds of the batch in hand.
LEMMA Readable ==
  ASSUME TypeInv, thread \in Stages, ~Lost
  PROVE  /\ Rows \subseteq BatchRange
         /\ \A m \in BatchRange : m \in Rows \/ (~FailOnLoss /\ m <= low)
<1>1. low \in Int /\ \A m \in BatchRange : m \in Int
  BY InHand DEF TypeInv, TypeOK, Offset
<1>2. QED
  BY <1>1 DEF Rows, Lost

LEMMA LandedStep ==
  ASSUME TypeInv, [Next]_vars
  PROVE  Landed'
<1>1. ASSUME AppendBronze PROVE Landed'
  <2>1. Rows' \subseteq Rows
    BY RowsShrink, <1>1 DEF AppendBronze, topic, Stages
  <2>2. QED
    BY <2>1, <1>1 DEF AppendBronze, Landed
<1>2. ASSUME Produce \/ Expire \/ UNCHANGED vars PROVE Landed'
  <2>1. /\ UNCHANGED <<checkpoint, thread, bronze>>
        /\ low' = low \/ low' = low + 1
    BY <1>2 DEF Produce, Expire, vars, tables, query, topic
  <2>2. CASE thread = "silver"
    BY RowsShrink, <2>1, <2>2 DEF Landed, TypeInv, Stages
  <2>3. QED
    BY <2>1, <2>2 DEF Landed
<1>3. ASSUME UNCHANGED <<checkpoint, topic, thread, bronze>> PROVE Landed'
  <2>1. CASE thread = "silver"
    BY RowsShrink, <1>3, <2>1 DEF Landed, TypeInv, Stages, topic
  <2>2. QED
    BY <1>3, <2>1 DEF Landed
<1>4. ASSUME thread' # "silver" PROVE Landed'
  BY <1>4 DEF Landed
<1>5. ASSUME StartRun \/ CheckQuery \/ AwaitQuery \/ CheckDeadline \/ LeaveLoop \/ Stopped
             \/ RecordRun \/ LogRun \/ RecordFailedRun \/ PassDeadline \/ FailMain
      PROVE  Landed'
  BY <1>3, <1>5 DEF StartRun, CheckQuery, AwaitQuery, CheckDeadline, LeaveLoop, Stopped, RecordRun,
     LogRun, RecordFailedRun, PassDeadline, FailMain, tables, query
<1>6. ASSUME StartThread \/ PlanBatch \/ ReadBatch \/ PublishSilver \/ RecordBatch \/ WriteProgress
             \/ CommitBatch \/ HaltThread \/ FailBatch \/ FailUnrecorded \/ StartQuery
      PROVE  Landed'
  BY <1>4, <1>6 DEF StartThread, PlanBatch, ReadBatch, PublishSilver, RecordBatch, WriteProgress,
     CommitBatch, HaltThread, FailBatch, FailUnrecorded, StartQuery
<1>7. ASSUME StopSpark \/ Crash \/ Reset PROVE Landed'
  <2>1. thread' = "none"
    BY <1>7 DEF StopSpark, Crash, Reset, Exit, query, TypeInv, Plan
  <2>2. QED
    BY <1>4, <2>1
<1>8. QED
  BY <1>1, <1>2, <1>5, <1>6, <1>7 DEF Next, Thread, Main

LEMMA TypeInit == Init => TypeInv
<1>1. <<>> \in Seq(Offset) /\ Len(<<>>) = 0
  OBVIOUS
<1>2. ASSUME Init PROVE TypeOK
  <2>1. stopping \in BOOLEAN
    BY <1>2, Zenon DEF Init
  <2>2. QED
    BY <1>1, <1>2, <2>1, StreamAssumption DEF Init, TypeOK, Offset, BatchId
<1>3. ASSUME Init PROVE Plan
  BY <1>1, <1>3 DEF Init, Plan, Living, Stages
<1>4. QED
  BY <1>2, <1>3 DEF TypeInv, Landed, Init

LEMMA TypeStep ==
  ASSUME TypeInv, [Next]_vars
  PROVE  TypeInv'
<1>0. Landed
  BY DEF TypeInv
<1> USE StreamAssumption DEF TypeInv, TypeOK, Plan, Living, Stages,
        topic, checkpoint, tables, driver, query, Offset, BatchId
<1>1. ASSUME Produce PROVE (TypeOK /\ Plan)'
  BY <1>1 DEF Produce
<1>2. ASSUME Expire PROVE (TypeOK /\ Plan)'
  BY <1>2 DEF Expire
<1>3. ASSUME Reset PROVE (TypeOK /\ Plan)'
  BY <1>3 DEF Reset
<1>4. ASSUME StartThread PROVE (TypeOK /\ Plan)'
  BY <1>4 DEF StartThread
<1>5. ASSUME PlanBatch PROVE (TypeOK /\ Plan)'
  <2> DEFINE start == EndOf(commits)
             last == IF end <= MaxEnd(start) THEN end ELSE MaxEnd(start)
  <2>1. start \in 0 .. Last /\ commits <= start /\ start < end
    BY <1>5 DEF PlanBatch, EndOf
  <2>2. last \in Offset /\ start < last
    BY <2>1 DEF MaxEnd
  <2>3. planned' = Append(planned, last) /\ Len(planned) = commits /\ thread' = "read"
    BY <1>5 DEF PlanBatch
  <2> HIDE DEF last, start
  <2>4. planned' \in Seq(Offset) /\ Len(planned') = commits + 1
    BY <2>2, <2>3
  <2>5. \A b \in 1 .. Len(planned') : b <= planned'[b]
    BY <2>1, <2>2, <2>3, <2>4
  <2>6. UNCHANGED <<topic, initial, commits, tables, run, driver, stopping, results, since, faults>>
    BY <1>5 DEF PlanBatch
  <2>7. initial # -1 /\ thread = "idle" /\ thread' = "read"
    BY <1>5 DEF PlanBatch
  <2>8. TypeOK'
    <3>1. Len(planned) = commits
      BY <2>3
    <3>2. QED
      BY <2>4, <2>6, <2>7, <3>1
  <2>9. Plan'
    BY <2>4, <2>5, <2>6, <2>7
  <2>10. QED
    BY <2>8, <2>9
<1>6. ASSUME ReadBatch PROVE (TypeOK /\ Plan)'
  BY InHand, <1>6 DEF ReadBatch
<1>7. ASSUME AppendBronze PROVE (TypeOK /\ Plan)'
  <2>1. Rows \subseteq Offset
    BY InHand, <1>7 DEF AppendBronze, Rows
  <2>2. QED
    BY <1>7, <2>1 DEF AppendBronze
<1>8. ASSUME PublishSilver PROVE (TypeOK /\ Plan)'
  BY <1>0, <1>8 DEF PublishSilver, Landed
<1>9. ASSUME RecordBatch PROVE (TypeOK /\ Plan)'
  BY InHand, <1>9 DEF RecordBatch
<1>10. ASSUME WriteProgress PROVE (TypeOK /\ Plan)'
  BY <1>10 DEF WriteProgress
<1>11. ASSUME CommitBatch PROVE (TypeOK /\ Plan)'
  BY <1>11 DEF CommitBatch
<1>12. ASSUME HaltThread PROVE (TypeOK /\ Plan)'
  BY <1>12 DEF HaltThread
<1>13. ASSUME FailBatch PROVE (TypeOK /\ Plan)'
  <2>1. commits + 1 \in BatchId /\ thread \in Stages \cup {"commit"}
    BY InHand, <1>13 DEF FailBatch
  <2>2. faults' \in 0 .. MaxFaults
    BY <1>13 DEF FailBatch, Fault
  <2>3. manifest' \in [BatchId -> {"none", "failed", "succeeded"}]
        /\ results' \subseteq BatchId \X {"skipped", "failed", "succeeded"}
        /\ thread' \in {"stopped", "failed"}
    BY <1>13, <2>1 DEF FailBatch
  <2>4. UNCHANGED <<topic, checkpoint, bronze, silver, run, driver, stopping, since>>
    BY <1>13 DEF FailBatch
  <2>5. main \notin {"down", "load"}
    BY <2>1
  <2>6. QED
    BY <2>2, <2>3, <2>4, <2>5
<1>14. ASSUME FailUnrecorded PROVE (TypeOK /\ Plan)'
  BY <1>14 DEF FailUnrecorded, Fault
<1>15. ASSUME StartRun PROVE (TypeOK /\ Plan)'
  BY <1>15 DEF StartRun
<1>16. ASSUME StartQuery PROVE (TypeOK /\ Plan)'
  BY <1>16 DEF StartQuery
<1>17. ASSUME CheckQuery PROVE (TypeOK /\ Plan)'
  BY <1>17 DEF CheckQuery
<1>18. ASSUME AwaitQuery PROVE (TypeOK /\ Plan)'
  BY <1>18 DEF AwaitQuery
<1>19. ASSUME CheckDeadline PROVE (TypeOK /\ Plan)'
  <2>1. stopping' \in BOOLEAN
    BY <1>19 DEF CheckDeadline, StopQuery
  <2>2. QED
    BY <1>19, <2>1 DEF CheckDeadline, StopQuery
<1>20. ASSUME LeaveLoop PROVE (TypeOK /\ Plan)'
  <2>1. stopping' \in BOOLEAN
    BY <1>20 DEF LeaveLoop, StopQuery
  <2>2. QED
    BY <1>20, <2>1 DEF LeaveLoop, StopQuery
<1>21. ASSUME Stopped PROVE (TypeOK /\ Plan)'
  BY <1>21 DEF Stopped
<1>22. ASSUME RecordRun \/ LogRun PROVE (TypeOK /\ Plan)'
  <2>1. CASE RecordRun
    BY <2>1 DEF RecordRun
  <2>2. CASE LogRun
    BY <2>2 DEF LogRun
  <2>3. QED
    BY <1>22, <2>1, <2>2
<1>23. ASSUME RecordFailedRun PROVE (TypeOK /\ Plan)'
  BY <1>23 DEF RecordFailedRun
<1>24. ASSUME StopSpark PROVE (TypeOK /\ Plan)'
  <2>0. stopping' \in BOOLEAN
    BY <1>24, Zenon DEF StopSpark, Exit
  <2>1. TypeOK'
    BY <1>24, <2>0 DEF StopSpark, Exit
  <2>2. Plan'
    BY <1>24 DEF StopSpark, Exit
  <2>3. QED
    BY <2>1, <2>2
<1>25. ASSUME PassDeadline PROVE (TypeOK /\ Plan)'
  BY <1>25 DEF PassDeadline
<1>26. ASSUME FailMain PROVE (TypeOK /\ Plan)'
  BY <1>26 DEF FailMain, Fault
<1>27. ASSUME Crash PROVE (TypeOK /\ Plan)'
  <2>0. stopping' \in BOOLEAN
    BY <1>27, Zenon DEF Crash, Exit, Fault
  <2>1. TypeOK'
    BY <1>27, <2>0 DEF Crash, Exit, Fault
  <2>2. Plan'
    BY <1>27 DEF Crash, Exit, Fault
  <2>3. QED
    BY <2>1, <2>2
<1>28. ASSUME UNCHANGED vars PROVE (TypeOK /\ Plan)'
  BY <1>28 DEF vars
<1>c. (TypeOK /\ Plan)'
  BY <1>1, <1>2, <1>3, <1>4, <1>5, <1>6, <1>7, <1>8, <1>9, <1>10, <1>11, <1>12, <1>13, <1>14,
     <1>15, <1>16, <1>17, <1>18, <1>19, <1>20, <1>21, <1>22, <1>23, <1>24, <1>25, <1>26, <1>27, <1>28 DEF Next, Thread, Main
<1> HIDE DEF TypeInv, TypeOK, Plan
<1>29. QED
  BY <1>c, LandedStep DEF TypeInv

LEMMA TypeAlways == Spec => []TypeInv
BY TypeInit, TypeStep, PTL DEF Spec

\* A new batch leaves the others as they are.
LEMMA PlanGrows ==
  ASSUME TypeInv, PlanBatch
  PROVE  \A b \in 0 .. commits : EndOf(b)' = EndOf(b)
<1> DEFINE start == EndOf(commits)
           last == IF end <= MaxEnd(start) THEN end ELSE MaxEnd(start)
<1>1. planned' = Append(planned, last) /\ UNCHANGED initial /\ Len(planned) = commits
  BY DEF PlanBatch, TypeInv, Plan
<1>2. planned \in Seq(Offset) /\ commits \in Nat
  BY DEF TypeInv, TypeOK
<1> HIDE DEF last, start
<1>3. \A b \in 1 .. commits : planned'[b] = planned[b]
  BY <1>1, <1>2
<1>4. QED
  BY <1>1, <1>2, <1>3 DEF EndOf

LEMMA Integral ==
  ASSUME TypeInv
  PROVE  commits \in Nat /\ low \in Int /\ initial \in Int /\ \A b \in 0 .. Len(planned) : EndOf(b) \in Int
<1>1. commits \in Nat /\ low \in Int /\ initial \in Int
  BY DEF TypeInv, TypeOK
<1>2. planned \in Seq(Offset)
  BY DEF TypeInv, TypeOK
<1>3. \A b \in 1 .. Len(planned) : planned[b] \in Int
  <2>1. \A b \in 1 .. Len(planned) : planned[b] \in Offset
    BY <1>2
  <2>2. \A m \in Offset : m \in Int
    BY DEF Offset
  <2>3. QED
    BY <2>1, <2>2
<1>4. \A b \in 0 .. Len(planned) : b = 0 \/ b \in 1 .. Len(planned)
  BY <1>2
<1>5. QED
  BY <1>1, <1>3, <1>4 DEF EndOf

SkipInv == TypeInv /\ Batch /\ NothingSkipped

LEMMA SkipStep ==
  ASSUME SkipInv, [Next]_vars
  PROVE  (Batch /\ NothingSkipped)'
<1>0. TypeInv /\ TypeInv'
  BY TypeStep DEF SkipInv
<1>t. commits \in Nat /\ low \in Int /\ initial \in Int /\ \A b \in 0 .. Len(planned) : EndOf(b) \in Int
  BY <1>0, Integral
<1>p. Len(planned) \in commits .. commits + 1
  BY <1>0 DEF TypeInv, Plan
<1> USE DEF SkipInv, Batch, NothingSkipped, Done, Stages, topic, checkpoint, tables, driver, query
<1>1. ASSUME Produce PROVE (Batch /\ NothingSkipped)'
  BY <1>t, <1>p, SameLog, <1>1 DEF Produce
<1>2. ASSUME Expire PROVE (Batch /\ NothingSkipped)'
  <2>1. low' = low + 1 /\ UNCHANGED <<checkpoint, silver, thread>>
    BY <1>2 DEF Expire
  <2>2. BatchRange' = BatchRange /\ EndOf(commits)' = EndOf(commits) /\ UNCHANGED initial
    BY <2>1, SameLog
  <2>3. \A m \in Int : m <= low => m <= low'
    BY <1>t, <2>1
  <2>4. BatchRange \subseteq Int /\ initial + 1 .. EndOf(commits) \subseteq Int
    BY <1>t DEF BatchRange
  <2>5. QED
    BY <2>1, <2>2, <2>3, <2>4
<1>3. ASSUME Reset PROVE (Batch /\ NothingSkipped)'
  BY <1>0, <1>3 DEF Reset, EndOf, TypeInv, Plan
<1>4. ASSUME StartThread PROVE (Batch /\ NothingSkipped)'
  <2>1. CASE initial = -1
    <3>1. commits = 0 /\ Len(planned) = 0
      BY <1>0, <2>1 DEF TypeInv, TypeOK, Plan
    <3>2. EndOf(commits)' = initial' /\ thread' = "idle"
      BY <1>4, <3>1 DEF StartThread, EndOf
    <3>3. initial' \in Int
      BY <1>0 DEF TypeInv, TypeOK
    <3>4. \A n \in Int : \A m \in n + 1 .. n : FALSE
      OBVIOUS
    <3>5. \A m \in initial' + 1 .. EndOf(commits)' : FALSE
      BY <3>2, <3>3, <3>4, Zenon
    <3>6. QED
      BY <3>2, <3>5
  <2>2. CASE initial # -1
    <3>1. UNCHANGED <<checkpoint, silver, low>> /\ thread' \in {"read", "idle"}
      BY <1>4, <2>2 DEF StartThread
    <3>2. QED
      BY <1>t, <1>p, <3>1, SameLog
  <2>3. QED
    BY <2>1, <2>2
<1>5. ASSUME PlanBatch PROVE (Batch /\ NothingSkipped)'
  <2>1. UNCHANGED <<initial, commits, silver, low>> /\ thread' = "read"
    BY <1>5 DEF PlanBatch
  <2>2. EndOf(commits)' = EndOf(commits)
    BY <1>0, <1>t, <1>5, <2>1, PlanGrows
  <2>3. QED
    BY <2>1, <2>2
<1>6. ASSUME ReadBatch PROVE (Batch /\ NothingSkipped)'
  <2>1. UNCHANGED <<checkpoint, silver, low>> /\ thread' = IF Rows = {} THEN "commit" ELSE "bronze"
    BY <1>6 DEF ReadBatch
  <2>2. BatchRange' = BatchRange /\ EndOf(commits)' = EndOf(commits)
    BY <2>1, SameLog
  <2>3. CASE thread' = "commit"
    <3>1. Rows = {}
      BY <2>1, <2>3
    <3>2. \A m \in BatchRange : ~FailOnLoss /\ m <= low
      BY Readable, <1>0, <1>6, <3>1 DEF ReadBatch
    <3>3. QED
      BY <2>1, <2>2, <3>2
  <2>4. QED
    BY <2>1, <2>2, <2>3
<1>7. ASSUME AppendBronze PROVE (Batch /\ NothingSkipped)'
  BY <1>t, <1>p, SameLog, <1>7 DEF AppendBronze
<1>8. ASSUME PublishSilver PROVE (Batch /\ NothingSkipped)'
  <2>1. UNCHANGED <<checkpoint, low>> /\ silver' = silver \cup Rows
    BY <1>8 DEF PublishSilver
  <2>2. \A m \in BatchRange : m \in Rows \/ (~FailOnLoss /\ m <= low)
    BY Readable, <1>0, <1>8 DEF PublishSilver
  <2>3. BatchRange' = BatchRange /\ EndOf(commits)' = EndOf(commits)
    BY <2>1, SameLog
  <2>4. QED
    BY <2>1, <2>2, <2>3
<1>9. ASSUME RecordBatch PROVE (Batch /\ NothingSkipped)'
  BY <1>t, <1>p, SameLog, <1>9 DEF RecordBatch
<1>10. ASSUME WriteProgress PROVE (Batch /\ NothingSkipped)'
  BY <1>t, <1>p, SameLog, <1>10 DEF WriteProgress
<1>11. ASSUME CommitBatch PROVE (Batch /\ NothingSkipped)'
  <2>1. UNCHANGED <<initial, planned, silver, low>> /\ commits' = commits + 1 /\ thread' \in {"stopped", "idle"}
    BY <1>11 DEF CommitBatch
  <2>2. EndOf(commits)' = EndOf(commits + 1)
    BY <2>1 DEF EndOf
  <2>3. EndOf(commits) \in Int /\ EndOf(commits + 1) \in Int
    BY <1>0, <1>t, <1>11 DEF TypeInv, Plan, CommitBatch
  <2>4. ASSUME NEW m \in initial + 1 .. EndOf(commits + 1) PROVE Done(m)
    <3>1. CASE m <= EndOf(commits)
      BY <1>t, <2>3, <2>4, <3>1
    <3>2. CASE ~(m <= EndOf(commits))
      <4>1. m \in BatchRange
        BY <1>t, <2>3, <2>4, <3>2 DEF BatchRange
      <4>2. QED
        BY <1>11, <4>1 DEF CommitBatch
    <3>3. QED
      BY <3>1, <3>2
  <2>5. QED
    BY <2>1, <2>2, <2>4
<1>12. ASSUME HaltThread PROVE (Batch /\ NothingSkipped)'
  BY <1>t, <1>p, SameLog, <1>12 DEF HaltThread
<1>13. ASSUME FailBatch PROVE (Batch /\ NothingSkipped)'
  BY <1>t, <1>p, SameLog, <1>13 DEF FailBatch, Fault
<1>14. ASSUME FailUnrecorded PROVE (Batch /\ NothingSkipped)'
  BY <1>t, <1>p, SameLog, <1>14 DEF FailUnrecorded, Fault
<1>15. ASSUME StartRun PROVE (Batch /\ NothingSkipped)'
  BY <1>t, <1>p, SameLog, <1>15 DEF StartRun
<1>16. ASSUME StartQuery PROVE (Batch /\ NothingSkipped)'
  BY <1>t, <1>p, SameLog, <1>16 DEF StartQuery
<1>17. ASSUME CheckQuery PROVE (Batch /\ NothingSkipped)'
  BY <1>t, <1>p, SameLog, <1>17 DEF CheckQuery
<1>18. ASSUME AwaitQuery PROVE (Batch /\ NothingSkipped)'
  BY <1>t, <1>p, SameLog, <1>18 DEF AwaitQuery
<1>19. ASSUME CheckDeadline PROVE (Batch /\ NothingSkipped)'
  BY <1>t, <1>p, SameLog, <1>19 DEF CheckDeadline, StopQuery
<1>20. ASSUME LeaveLoop PROVE (Batch /\ NothingSkipped)'
  BY <1>t, <1>p, SameLog, <1>20 DEF LeaveLoop, StopQuery
<1>21. ASSUME Stopped PROVE (Batch /\ NothingSkipped)'
  BY <1>t, <1>p, SameLog, <1>21 DEF Stopped
<1>22. ASSUME RecordRun \/ LogRun PROVE (Batch /\ NothingSkipped)'
  BY <1>t, <1>p, SameLog, <1>22 DEF RecordRun, LogRun
<1>23. ASSUME RecordFailedRun PROVE (Batch /\ NothingSkipped)'
  BY <1>t, <1>p, SameLog, <1>23 DEF RecordFailedRun
<1>24. ASSUME StopSpark PROVE (Batch /\ NothingSkipped)'
  BY <1>t, <1>p, SameLog, <1>24 DEF StopSpark, Exit
<1>25. ASSUME PassDeadline PROVE (Batch /\ NothingSkipped)'
  BY <1>t, <1>p, SameLog, <1>25 DEF PassDeadline
<1>26. ASSUME FailMain PROVE (Batch /\ NothingSkipped)'
  BY <1>t, <1>p, SameLog, <1>26 DEF FailMain, Fault
<1>27. ASSUME Crash PROVE (Batch /\ NothingSkipped)'
  BY <1>t, <1>p, SameLog, <1>27 DEF Crash, Exit, Fault
<1>28. CASE UNCHANGED vars
  BY <1>t, <1>p, SameLog, <1>28 DEF vars
<1> HIDE DEF Batch, NothingSkipped, SkipInv
<1>29. QED
  BY <1>1, <1>2, <1>3, <1>4, <1>5, <1>6, <1>7, <1>8, <1>9, <1>10, <1>11, <1>12, <1>13, <1>14,
     <1>15, <1>16, <1>17, <1>18, <1>19, <1>20, <1>21, <1>22, <1>23, <1>24, <1>25, <1>26, <1>27, <1>28 DEF Next, Thread, Main

LEMMA SkipInit == Init => SkipInv
BY TypeInit DEF Init, SkipInv, Batch, NothingSkipped, EndOf

\* The checkpoint never passes a record that Silver lacks, whatever fails,
\* crashes, stops or is reset, for any batch size and either offset policy.
THEOREM NothingSkippedAlways == Spec => []NothingSkipped
<1>1. SkipInv /\ [Next]_vars => SkipInv'
  BY SkipStep, TypeStep DEF SkipInv
<1>2. SkipInv => NothingSkipped
  BY DEF SkipInv
<1>3. QED
  BY SkipInit, <1>1, <1>2, PTL DEF Spec

\* Types, for any topic, deadlines and number of faults.
THEOREM StreamTypes == Spec => []TypeOK
<1>1. TypeInv => TypeOK
  BY DEF TypeInv
<1>2. QED
  BY TypeAlways, <1>1, PTL

-----------------------------------------------------------------------------

RecordInv == TypeInv /\ Recorded /\ CommittedIsRecorded

LEMMA RecordStep ==
  ASSUME RecordInv, [Next]_vars
  PROVE  (Recorded /\ CommittedIsRecorded)'
<1>0. TypeInv /\ TypeInv'
  BY TypeStep DEF RecordInv
<1>t. commits \in Nat /\ low \in Int /\ initial \in Int /\ \A b \in 0 .. Len(planned) : EndOf(b) \in Int
  BY <1>0, Integral
<1>p. Len(planned) \in commits .. commits + 1
  BY <1>0 DEF TypeInv, Plan
<1>m. manifest \in [BatchId -> {"none", "failed", "succeeded"}]
  BY <1>0 DEF TypeInv, TypeOK
<1> USE DEF RecordInv, Recorded, CommittedIsRecorded, Stages, topic, checkpoint, tables, driver, query
<1>1. ASSUME Produce PROVE (Recorded /\ CommittedIsRecorded)'
  BY <1>t, <1>p, SameLog, <1>1 DEF Produce
<1>2. ASSUME Expire PROVE (Recorded /\ CommittedIsRecorded)'
  <2>1. low' = low + 1 /\ UNCHANGED <<checkpoint, manifest, thread>>
    BY <1>2 DEF Expire
  <2>2. BatchRange' = BatchRange /\ \A b : EndOf(b)' = EndOf(b)
    BY <2>1, SameLog
  <2>3. \A m \in Int : m <= low => m <= low'
    BY <1>t, <2>1
  <2>4. BatchRange \subseteq Int
        /\ \A b \in 1 .. commits : EndOf(b - 1) + 1 .. EndOf(b) \subseteq Int
    BY <1>t DEF BatchRange
  <2>5. QED
    BY <2>1, <2>2, <2>3, <2>4
<1>3. ASSUME Reset PROVE (Recorded /\ CommittedIsRecorded)'
  BY <1>0, <1>3 DEF Reset, TypeInv, Plan
<1>4. ASSUME StartThread PROVE (Recorded /\ CommittedIsRecorded)'
  <2>1. CASE initial = -1
    <3>1. commits = 0 /\ Len(planned) = 0
      BY <1>0, <2>1 DEF TypeInv, TypeOK, Plan
    <3>2. commits' = 0 /\ thread' = "idle"
      BY <1>4, <3>1 DEF StartThread
    <3>3. QED
      BY <3>2
  <2>2. CASE initial # -1
    <3>1. UNCHANGED <<checkpoint, manifest, low>> /\ thread' \in {"read", "idle"}
      BY <1>4, <2>2 DEF StartThread
    <3>2. QED
      BY <1>t, <1>p, <3>1, SameLog
  <2>3. QED
    BY <2>1, <2>2
<1>5. ASSUME PlanBatch PROVE (Recorded /\ CommittedIsRecorded)'
  <2>1. UNCHANGED <<commits, manifest, low>> /\ thread' = "read"
    BY <1>5 DEF PlanBatch
  <2>2. \A b \in 0 .. commits : EndOf(b)' = EndOf(b)
    BY <1>0, <1>5, PlanGrows
  <2>3. \A b \in 1 .. commits : b \in 0 .. commits /\ b - 1 \in 0 .. commits
    BY <1>t
  <2>4. QED
    BY <2>1, <2>2, <2>3
<1>6. ASSUME ReadBatch PROVE (Recorded /\ CommittedIsRecorded)'
  <2>1. UNCHANGED <<checkpoint, manifest, low>> /\ thread' = IF Rows = {} THEN "commit" ELSE "bronze"
    BY <1>6 DEF ReadBatch
  <2>2. thread' = "commit" => Rows = {}
    BY <2>1
  <2>3. thread' = "commit" => \A m \in BatchRange : m <= low
    BY Readable, <1>0, <1>6, <2>2 DEF ReadBatch
  <2>4. QED
    BY <2>1, <2>3, SameLog
<1>7. ASSUME AppendBronze PROVE (Recorded /\ CommittedIsRecorded)'
  BY <1>t, <1>p, SameLog, <1>7 DEF AppendBronze
<1>8. ASSUME PublishSilver PROVE (Recorded /\ CommittedIsRecorded)'
  BY <1>t, <1>p, SameLog, <1>8 DEF PublishSilver
<1>9. ASSUME RecordBatch PROVE (Recorded /\ CommittedIsRecorded)'
  <2>1. UNCHANGED <<checkpoint, low>> /\ thread' = "log"
        /\ manifest' = [manifest EXCEPT ![commits + 1] = "succeeded"]
    BY <1>9 DEF RecordBatch
  <2>2. commits + 1 \in BatchId /\ \A b \in 1 .. commits : b # commits + 1
    BY InHand, <1>0, <1>t, <1>9 DEF RecordBatch
  <2>3. manifest'[commits + 1] = "succeeded" /\ \A b \in 1 .. commits : manifest'[b] = manifest[b]
    BY <1>m, <2>1, <2>2
  <2>4. QED
    BY <2>1, <2>3, SameLog
<1>10. ASSUME WriteProgress PROVE (Recorded /\ CommittedIsRecorded)'
  BY <1>t, <1>p, SameLog, <1>10 DEF WriteProgress
<1>11. ASSUME CommitBatch PROVE (Recorded /\ CommittedIsRecorded)'
  <2>1. UNCHANGED <<initial, planned, manifest, low>> /\ commits' = commits + 1
        /\ thread' \in {"stopped", "idle"} /\ thread = "commit"
    BY <1>11 DEF CommitBatch
  <2>2. \A b : EndOf(b)' = EndOf(b)
    BY <2>1 DEF EndOf
  <2>3. BatchRange = EndOf((commits + 1) - 1) + 1 .. EndOf(commits + 1)
    BY <1>t DEF BatchRange
  <2>4. \A b \in 1 .. commits + 1 : b \in 1 .. commits \/ b = commits + 1
    BY <1>t
  <2>5. QED
    BY <2>1, <2>2, <2>3, <2>4
<1>12. ASSUME HaltThread PROVE (Recorded /\ CommittedIsRecorded)'
  BY <1>t, <1>p, SameLog, <1>12 DEF HaltThread
<1>13. ASSUME FailBatch PROVE (Recorded /\ CommittedIsRecorded)'
  <2>1. UNCHANGED <<checkpoint, low>> /\ thread' \in {"stopped", "failed"}
        /\ manifest' = [manifest EXCEPT ![commits + 1] = "failed"]
    BY <1>13 DEF FailBatch
  <2>2. commits + 1 \in BatchId /\ \A b \in 1 .. commits : b # commits + 1
    BY InHand, <1>0, <1>t, <1>13 DEF FailBatch
  <2>3. \A b \in 1 .. commits : manifest'[b] = manifest[b]
    BY <1>m, <2>1, <2>2
  <2>4. QED
    BY <2>1, <2>3, SameLog
<1>14. ASSUME FailUnrecorded PROVE (Recorded /\ CommittedIsRecorded)'
  BY <1>t, <1>p, SameLog, <1>14 DEF FailUnrecorded, Fault
<1>15. ASSUME StartRun PROVE (Recorded /\ CommittedIsRecorded)'
  BY <1>t, <1>p, SameLog, <1>15 DEF StartRun
<1>16. ASSUME StartQuery PROVE (Recorded /\ CommittedIsRecorded)'
  BY <1>t, <1>p, SameLog, <1>16 DEF StartQuery
<1>17. ASSUME CheckQuery PROVE (Recorded /\ CommittedIsRecorded)'
  BY <1>t, <1>p, SameLog, <1>17 DEF CheckQuery
<1>18. ASSUME AwaitQuery PROVE (Recorded /\ CommittedIsRecorded)'
  BY <1>t, <1>p, SameLog, <1>18 DEF AwaitQuery
<1>19. ASSUME CheckDeadline PROVE (Recorded /\ CommittedIsRecorded)'
  BY <1>t, <1>p, SameLog, <1>19 DEF CheckDeadline, StopQuery
<1>20. ASSUME LeaveLoop PROVE (Recorded /\ CommittedIsRecorded)'
  BY <1>t, <1>p, SameLog, <1>20 DEF LeaveLoop, StopQuery
<1>21. ASSUME Stopped PROVE (Recorded /\ CommittedIsRecorded)'
  BY <1>t, <1>p, SameLog, <1>21 DEF Stopped
<1>22. ASSUME RecordRun \/ LogRun PROVE (Recorded /\ CommittedIsRecorded)'
  BY <1>t, <1>p, SameLog, <1>22 DEF RecordRun, LogRun
<1>23. ASSUME RecordFailedRun PROVE (Recorded /\ CommittedIsRecorded)'
  BY <1>t, <1>p, SameLog, <1>23 DEF RecordFailedRun
<1>24. ASSUME StopSpark PROVE (Recorded /\ CommittedIsRecorded)'
  BY <1>t, <1>p, SameLog, <1>24 DEF StopSpark, Exit
<1>25. ASSUME PassDeadline PROVE (Recorded /\ CommittedIsRecorded)'
  BY <1>t, <1>p, SameLog, <1>25 DEF PassDeadline
<1>26. ASSUME FailMain PROVE (Recorded /\ CommittedIsRecorded)'
  BY <1>t, <1>p, SameLog, <1>26 DEF FailMain, Fault
<1>27. ASSUME Crash PROVE (Recorded /\ CommittedIsRecorded)'
  BY <1>t, <1>p, SameLog, <1>27 DEF Crash, Exit, Fault
<1>28. CASE UNCHANGED vars
  BY <1>t, <1>p, SameLog, <1>28 DEF vars
<1> HIDE DEF Recorded, CommittedIsRecorded, RecordInv
<1>29. QED
  BY <1>1, <1>2, <1>3, <1>4, <1>5, <1>6, <1>7, <1>8, <1>9, <1>10, <1>11, <1>12, <1>13, <1>14,
     <1>15, <1>16, <1>17, <1>18, <1>19, <1>20, <1>21, <1>22, <1>23, <1>24, <1>25, <1>26, <1>27, <1>28 DEF Next, Thread, Main

LEMMA RecordInit == Init => RecordInv
BY TypeInit DEF Init, RecordInv, Recorded, CommittedIsRecorded

\* A batch that the checkpoint has done is recorded as succeeded.
THEOREM CommittedIsRecordedAlways == Spec => []CommittedIsRecorded
<1>1. RecordInv /\ [Next]_vars => RecordInv'
  BY RecordStep, TypeStep DEF RecordInv
<1>2. RecordInv => CommittedIsRecorded
  BY DEF RecordInv
<1>3. QED
  BY RecordInit, <1>1, <1>2, PTL DEF Spec

-----------------------------------------------------------------------------

\* The batch in hand is a window of the topic right behind what is done.
Ahead ==
  Len(planned) = commits + 1 =>
    EndOf(commits) < EndOf(commits + 1) /\ EndOf(commits + 1) <= MaxEnd(EndOf(commits))

LEMMA AheadStep ==
  ASSUME TypeInv, Ahead, [Next]_vars
  PROVE  Ahead'
<1>0. TypeInv /\ TypeInv'
  BY TypeStep
<1>t. commits \in Nat /\ low \in Int /\ initial \in Int /\ \A b \in 0 .. Len(planned) : EndOf(b) \in Int
  BY <1>0, Integral
<1>p. Len(planned) \in commits .. commits + 1
  BY <1>0 DEF TypeInv, Plan
<1> USE DEF Ahead, Stages, topic, checkpoint, tables, driver, query
<1>1. ASSUME Produce PROVE Ahead'
  BY <1>t, <1>p, SameLog, <1>1 DEF Produce
<1>2. ASSUME Expire PROVE Ahead'
  BY <1>t, <1>p, SameLog, <1>2 DEF Expire
<1>3. ASSUME Reset PROVE Ahead'
  <2>1. commits' = 0 /\ Len(planned') = 0 /\ thread' = "none"
    BY <1>0, <1>3 DEF Reset, TypeInv, Plan
  <2>2. QED
    BY <2>1
<1>4. ASSUME StartThread PROVE Ahead'
  <2>1. CASE initial = -1
    <3>1. commits = 0 /\ Len(planned) = 0
      BY <1>0, <2>1 DEF TypeInv, TypeOK, Plan
    <3>2. commits' = 0 /\ Len(planned') = 0 /\ thread' = "idle"
      BY <1>4, <3>1 DEF StartThread
    <3>3. QED
      BY <3>2
  <2>2. CASE initial # -1
    <3>1. UNCHANGED checkpoint /\ thread' \in {"read", "idle"}
      BY <1>4, <2>2 DEF StartThread
    <3>2. QED
      BY <3>1, SameLog
  <2>3. QED
    BY <2>1, <2>2
<1>5. ASSUME PlanBatch PROVE Ahead'
  <2> DEFINE start == EndOf(commits)
             last == IF end <= MaxEnd(start) THEN end ELSE MaxEnd(start)
  <2>1. UNCHANGED commits /\ thread' = "read" /\ planned' = Append(planned, last) /\ start < end
    BY <1>5 DEF PlanBatch
  <2>2. EndOf(commits)' = start
    BY <1>0, <1>t, <1>5, <2>1, PlanGrows
  <2>3. Len(planned) = commits /\ planned \in Seq(Offset) /\ end \in 0 .. Last
    BY <1>0, <1>5 DEF PlanBatch, TypeInv, TypeOK, Plan
  <2>4. start \in Int /\ start <= Last
    BY <1>t, <2>1, <2>3, StreamAssumption
  <2>5. start < last /\ last <= MaxEnd(start)
    BY <2>1, <2>3, <2>4, StreamAssumption DEF MaxEnd
  <2> HIDE DEF last, start
  <2>6. EndOf(commits + 1)' = last
    BY <1>t, <2>1, <2>3 DEF EndOf
  <2>7. MaxEnd(EndOf(commits))' = MaxEnd(start)
    BY <2>1, <2>2 DEF MaxEnd
  <2>8. QED
    BY <2>1, <2>2, <2>5, <2>6, <2>7
<1>6. ASSUME ReadBatch PROVE Ahead'
  BY <1>t, <1>p, SameLog, <1>6 DEF ReadBatch
<1>7. ASSUME AppendBronze PROVE Ahead'
  BY <1>t, <1>p, SameLog, <1>7 DEF AppendBronze
<1>8. ASSUME PublishSilver PROVE Ahead'
  BY <1>t, <1>p, SameLog, <1>8 DEF PublishSilver
<1>9. ASSUME RecordBatch PROVE Ahead'
  BY <1>t, <1>p, SameLog, <1>9 DEF RecordBatch
<1>10. ASSUME WriteProgress PROVE Ahead'
  BY <1>t, <1>p, SameLog, <1>10 DEF WriteProgress
<1>11. ASSUME CommitBatch PROVE Ahead'
  <2>1. Len(planned') # commits' + 1 /\ thread' \in {"stopped", "idle"}
    BY <1>0, <1>t, <1>11 DEF CommitBatch, TypeInv, Plan
  <2>2. QED
    BY <2>1
<1>12. ASSUME HaltThread PROVE Ahead'
  BY <1>t, <1>p, SameLog, <1>12 DEF HaltThread
<1>13. ASSUME FailBatch PROVE Ahead'
  BY <1>t, <1>p, SameLog, <1>13 DEF FailBatch, Fault
<1>14. ASSUME FailUnrecorded PROVE Ahead'
  BY <1>t, <1>p, SameLog, <1>14 DEF FailUnrecorded, Fault
<1>15. ASSUME StartRun PROVE Ahead'
  BY <1>t, <1>p, SameLog, <1>15 DEF StartRun
<1>16. ASSUME StartQuery PROVE Ahead'
  BY <1>t, <1>p, SameLog, <1>16 DEF StartQuery
<1>17. ASSUME CheckQuery PROVE Ahead'
  BY <1>t, <1>p, SameLog, <1>17 DEF CheckQuery
<1>18. ASSUME AwaitQuery PROVE Ahead'
  BY <1>t, <1>p, SameLog, <1>18 DEF AwaitQuery
<1>19. ASSUME CheckDeadline PROVE Ahead'
  BY <1>t, <1>p, SameLog, <1>19 DEF CheckDeadline, StopQuery
<1>20. ASSUME LeaveLoop PROVE Ahead'
  BY <1>t, <1>p, SameLog, <1>20 DEF LeaveLoop, StopQuery
<1>21. ASSUME Stopped PROVE Ahead'
  BY <1>t, <1>p, SameLog, <1>21 DEF Stopped
<1>22. ASSUME RecordRun \/ LogRun PROVE Ahead'
  BY <1>t, <1>p, SameLog, <1>22 DEF RecordRun, LogRun
<1>23. ASSUME RecordFailedRun PROVE Ahead'
  BY <1>t, <1>p, SameLog, <1>23 DEF RecordFailedRun
<1>24. ASSUME StopSpark PROVE Ahead'
  BY <1>t, <1>p, SameLog, <1>24 DEF StopSpark, Exit
<1>25. ASSUME PassDeadline PROVE Ahead'
  BY <1>t, <1>p, SameLog, <1>25 DEF PassDeadline
<1>26. ASSUME FailMain PROVE Ahead'
  BY <1>t, <1>p, SameLog, <1>26 DEF FailMain, Fault
<1>27. ASSUME Crash PROVE Ahead'
  BY <1>t, <1>p, SameLog, <1>27 DEF Crash, Exit, Fault
<1>28. CASE UNCHANGED vars
  BY <1>t, <1>p, SameLog, <1>28 DEF vars
<1> HIDE DEF Ahead
<1>29. QED
  BY <1>1, <1>2, <1>3, <1>4, <1>5, <1>6, <1>7, <1>8, <1>9, <1>10, <1>11, <1>12, <1>13, <1>14,
     <1>15, <1>16, <1>17, <1>18, <1>19, <1>20, <1>21, <1>22, <1>23, <1>24, <1>25, <1>26, <1>27, <1>28 DEF Next, Thread, Main

LEMMA AheadInit == Init => Ahead
BY DEF Init, Ahead

-----------------------------------------------------------------------------

position == IF initial = -1 THEN -1 ELSE EndOf(commits)

LEMMA ReaderInit == Init => Reader!Init
BY DEF Init, Reader!Init

LEMMA ReaderStep ==
  ASSUME FailOnLoss, Window # 0, ~MayReset, SkipInv, Ahead, [Next]_vars
  PROVE  [Reader!Next]_<<position, silver>>
<1>0. TypeInv /\ Batch
  BY DEF SkipInv
<1>t. commits \in Nat /\ initial \in Int /\ \A b \in 0 .. Len(planned) : EndOf(b) \in Int
  BY <1>0, Integral
<1>w. Window \in Nat \ {0} /\ Last \in Nat
  BY StreamAssumption
<1>1. UNCHANGED <<checkpoint, silver>> \/ StartThread \/ PlanBatch \/ PublishSilver \/ CommitBatch
  BY DEF Next, Thread, Main, vars, checkpoint, tables,
        Produce, Expire, Reset, ReadBatch, AppendBronze, RecordBatch, WriteProgress, HaltThread,
        FailBatch, FailUnrecorded, StartRun, StartQuery, CheckQuery, AwaitQuery, CheckDeadline,
        LeaveLoop, Stopped, RecordRun, LogRun, RecordFailedRun, StopSpark, PassDeadline, FailMain, Crash,
        Exit
<1>2. CASE UNCHANGED <<checkpoint, silver>>
  <2>1. UNCHANGED position
    BY <1>2, SameLog DEF position, checkpoint
  <2>2. QED
    BY <1>2, <2>1
<1>3. CASE StartThread
  <2>1. UNCHANGED <<planned, commits, silver>>
    BY <1>3 DEF StartThread, tables
  <2>2. CASE initial = -1
    <3>1. commits = 0
      BY <1>0, <2>2 DEF TypeInv, TypeOK, Plan
    <3>2. position = -1 /\ initial' \in 0 .. Last
      <4>1. initial' = IF Earliest THEN low ELSE end
        BY <1>3, <2>2 DEF StartThread
      <4>2. end \in 0 .. Last /\ low \in 0 .. end
        BY <1>0 DEF TypeInv, TypeOK
      <4>3. QED
        BY <1>w, <2>2, <4>1, <4>2 DEF position
    <3>3. position' = initial'
      BY <2>1, <3>1, <3>2 DEF position, EndOf
    <3>4. Reader!Seek
      BY <2>1, <3>2, <3>3 DEF Reader!Seek, position
    <3>5. QED
      BY <3>4 DEF Reader!Next, position
  <2>3. CASE initial # -1
    <3>1. UNCHANGED checkpoint
      BY <1>3, <2>3 DEF StartThread, checkpoint
    <3>2. UNCHANGED position
      BY <3>1, SameLog DEF position, checkpoint
    <3>3. QED
      BY <2>1, <3>2
  <2>4. QED
    BY <2>2, <2>3
<1>4. CASE PlanBatch
  <2>1. UNCHANGED <<initial, commits, silver>>
    BY <1>4 DEF PlanBatch, tables
  <2>2. EndOf(commits)' = EndOf(commits)
    BY <1>0, <1>t, <1>4, <2>1, PlanGrows
  <2>3. QED
    BY <2>1, <2>2 DEF position
<1>5. ASSUME thread \in Stages \cup {"commit"}
      PROVE  /\ position = EndOf(commits) /\ 0 <= position
             /\ EndOf(commits + 1) \in position + 1 .. position + Window
             /\ BatchRange = position + 1 .. EndOf(commits + 1)
  <2>1. initial # -1 /\ initial >= 0 /\ Len(planned) = commits + 1 /\ planned \in Seq(Offset)
    BY <1>0, <1>5 DEF TypeInv, TypeOK, Plan, Living
  <2>2. EndOf(commits) \in Int /\ EndOf(commits + 1) \in Int
    BY <1>t, <2>1
  <2>3. EndOf(commits) >= 0
    <3>1. CASE commits = 0
      BY <2>1, <3>1 DEF EndOf
    <3>2. CASE commits # 0
      <4>1. planned[commits] \in Offset
        BY <1>t, <2>1, <3>2
      <4>2. QED
        BY <3>2, <4>1 DEF EndOf, Offset
    <3>3. QED
      BY <3>1, <3>2
  <2>4. EndOf(commits) < EndOf(commits + 1) /\ EndOf(commits + 1) <= EndOf(commits) + Window
    BY <1>w, <2>1 DEF Ahead, MaxEnd
  <2>5. QED
    BY <1>w, <2>1, <2>2, <2>3, <2>4 DEF position, BatchRange
<1>6. CASE PublishSilver
  <2>1. thread = "silver" /\ silver' = silver \cup Rows /\ UNCHANGED checkpoint
    BY <1>6 DEF PublishSilver
  <2>2. Rows \subseteq BatchRange /\ Rows \subseteq Offset
    BY Readable, InHand, <1>0, <1>6 DEF PublishSilver, Stages
  <2>3. 0 <= position /\ BatchRange \subseteq position + 1 .. position + Window
    <3>1. position \in Int /\ EndOf(commits + 1) \in Int
      BY <1>0, <1>t, <1>5, <2>1 DEF Stages, TypeInv, Plan
    <3>2. QED
      BY <1>5, <1>w, <2>1, <3>1 DEF Stages
  <2>4. Rows \in SUBSET ((position + 1 .. position + Window) \cap (1 .. Last))
    BY <2>2, <2>3 DEF Offset
  <2>5. UNCHANGED position
    BY <2>1, SameLog DEF position, checkpoint
  <2>6. Reader!Apply
    BY <2>1, <2>3, <2>4, <2>5 DEF Reader!Apply, position
  <2>7. QED
    BY <2>6 DEF Reader!Next, position
<1>7. CASE CommitBatch
  <2>1. thread = "commit" /\ commits' = commits + 1 /\ UNCHANGED <<initial, planned, silver>>
    BY <1>7 DEF CommitBatch, tables
  <2>2. initial # -1
    BY <1>0, <2>1 DEF TypeInv, Plan, Living
  <2>3. position' = EndOf(commits + 1)
    BY <1>t, <2>1, <2>2 DEF position, EndOf
  <2>4. BatchRange \subseteq silver
    BY <1>0, <2>1 DEF Batch, Done
  <2>5. /\ 0 <= position /\ position' \in position + 1 .. position + Window
        /\ position + 1 .. position' \subseteq silver
    BY <1>5, <2>1, <2>3, <2>4
  <2>6. Reader!Advance
    BY <2>1, <2>5 DEF Reader!Advance, position
  <2>7. QED
    BY <2>6 DEF Reader!Next, position
<1>8. QED
  BY <1>1, <1>2, <1>3, <1>4, <1>6, <1>7

\* Spark's checkpoint and the handler together read the topic like LogReader:
\* batch by batch, at least once, never over a record that is not in Silver.
THEOREM ReadsLogWhenLossFails ==
  ASSUME FailOnLoss, Window # 0, ~MayReset
  PROVE  Spec => ReadsLog
<1>1. SkipInv /\ Ahead /\ [Next]_vars => (SkipInv /\ Ahead)'
  BY SkipStep, TypeStep, AheadStep DEF SkipInv
<1>2. Init => SkipInv /\ Ahead
  BY SkipInit, AheadInit
<1>3. SkipInv /\ Ahead /\ [Next]_vars => [Reader!Next]_<<position, silver>>
  BY ReaderStep
<1>4. QED
  BY ReaderInit, <1>1, <1>2, <1>3, PTL DEF Spec, ReadsLog, Reader!Spec, position
-----------------------------------------------------------------------------

\* The micro-batches that this run counts as done.
DoneIds == {r[1] : r \in {x \in results : x[2] # "failed"}}

\* They are those that the checkpoint took in this run, and at most the one in hand.
Counted ==
  /\ main \in {"down", "load"} => results = {}
  /\ main # "down" => /\ since <= commits
                      /\ since + 1 .. commits \subseteq DoneIds
                      /\ DoneIds \subseteq since + 1 .. commits + 1
  /\ thread \in {"log", "commit"} => commits + 1 \in DoneIds

\* Main gets to its summary when the query has ended, and only main ends it.
Ended ==
  /\ stopping => main \in {"stopping", "record", "progress", "failed", "exit"}
  /\ main \in {"check", "await", "deadline", "stop", "stopping", "record"} => thread # "none"
  /\ main = "record" => thread \in {"stopped", "failed"}

SumInv == TypeInv /\ Counted /\ Ended

LEMMA EndedStep ==
  ASSUME TypeInv, Ended, [Next]_vars
  PROVE  Ended'
<1> USE DEF Ended, Stages, topic, checkpoint, tables, driver, query
<1>t. /\ thread \in Stages \cup {"none", "start", "idle", "commit", "failed", "stopped"}
      /\ stopping \in BOOLEAN
  BY DEF TypeInv, TypeOK
<1>1. ASSUME UNCHANGED <<main, thread, stopping>> PROVE Ended'
  BY <1>1
<1>2. ASSUME UNCHANGED <<main, stopping>>, thread' # "none",
             thread \notin {"none", "stopped", "failed"}
      PROVE  Ended'
  BY <1>2
<1>3. ASSUME Thread \/ FailBatch \/ FailUnrecorded PROVE Ended'
  BY <1>2, <1>3 DEF Thread, StartThread, PlanBatch, ReadBatch, AppendBronze, PublishSilver,
     RecordBatch, WriteProgress, CommitBatch, HaltThread, FailBatch, FailUnrecorded
<1>4. ASSUME StartQuery \/ CheckQuery \/ AwaitQuery \/ Stopped \/ RecordRun \/ LogRun \/ RecordFailedRun
             \/ FailMain \/ StartRun
      PROVE  Ended'
  BY <1>t, <1>4 DEF StartQuery, CheckQuery, AwaitQuery, Stopped, RecordRun, LogRun, RecordFailedRun,
     FailMain, StartRun
<1>5. ASSUME StopSpark \/ Crash PROVE Ended'
  BY <1>5 DEF StopSpark, Crash, Exit
<1>6. ASSUME CheckDeadline PROVE Ended'
  BY <1>t, <1>6 DEF CheckDeadline, StopQuery
<1>7. ASSUME LeaveLoop PROVE Ended'
  <2>1. main = "stop" /\ ~stopping /\ thread # "none" /\ thread' = thread
    BY <1>7 DEF LeaveLoop
  <2>2. CASE Active
    BY <2>1, <2>2, <1>7 DEF LeaveLoop, StopQuery
  <2>3. CASE ~Active
    <3>1. thread \in {"failed", "stopped"}
      BY <1>t, <2>1, <2>3 DEF Active
    <3>2. main' = "record"
      BY <2>3, <1>7 DEF LeaveLoop
    <3>3. QED
      BY <2>1, <3>1, <3>2
  <2>4. QED
    BY <2>2, <2>3
<1> HIDE DEF Ended
<1>8. QED
  BY <1>1, <1>3, <1>4, <1>5, <1>6, <1>7 DEF Next, Main, vars, Produce, Expire, Reset, PassDeadline

LEMMA CountedStep ==
  ASSUME TypeInv, Counted, [Next]_vars
  PROVE  Counted'
<1>0. TypeInv'
  BY TypeStep
<1>t. commits \in Nat /\ since \in Int /\ thread \in Stages \cup {"none", "start", "idle", "commit", "failed", "stopped"}
  BY DEF TypeInv, TypeOK
<1>d. main \in {"down", "load"} => thread = "none"
  BY DEF TypeInv, Plan
<1>1. ASSUME UNCHANGED <<commits, since, results>>,
             main' \in {"down", "load"} => main \in {"down", "load"}, main' # "down" => main # "down",
             thread' \in {"log", "commit"} => thread \in {"log", "commit"}
      PROVE  Counted'
  BY <1>1 DEF Counted, DoneIds
<1>2. ASSUME Produce \/ Expire \/ PassDeadline \/ UNCHANGED vars PROVE Counted'
  BY <1>1, <1>2 DEF Produce, Expire, PassDeadline, vars, checkpoint, query, driver
<1>3. ASSUME StartThread \/ PlanBatch \/ AppendBronze \/ PublishSilver \/ WriteProgress \/ HaltThread \/ FailUnrecorded
      PROVE  Counted'
  BY <1>1, <1>3 DEF StartThread, PlanBatch, AppendBronze, PublishSilver, WriteProgress, HaltThread, FailUnrecorded,
     checkpoint, driver
<1>4. ASSUME StartQuery \/ CheckQuery \/ AwaitQuery \/ CheckDeadline \/ LeaveLoop \/ Stopped \/ RecordRun
             \/ LogRun \/ RecordFailedRun \/ FailMain
      PROVE  Counted'
  <2>1. UNCHANGED <<commits, since, results>> /\ main' \notin {"down", "load"} /\ main # "down"
    BY <1>4 DEF StartQuery, CheckQuery, AwaitQuery, CheckDeadline, LeaveLoop, Stopped, RecordRun,
       LogRun, RecordFailedRun, FailMain, StopQuery, checkpoint, query
  <2>2. thread' = thread \/ thread' = "start"
    BY <1>4 DEF StartQuery, CheckQuery, AwaitQuery, CheckDeadline, LeaveLoop, Stopped, RecordRun,
       LogRun, RecordFailedRun, FailMain, query
  <2>3. QED
    BY <1>1, <2>1, <2>2
<1>5. ASSUME StartRun PROVE Counted'
  <2>1. main = "down" /\ main' = "load" /\ since' = commits /\ UNCHANGED <<commits, results, thread>>
    BY <1>5 DEF StartRun, checkpoint, query
  <2>2. results = {} /\ thread = "none"
    BY <2>1, <1>d DEF Counted
  <2>3. DoneIds' = {} /\ since' + 1 .. commits' = {} /\ since' <= commits'
    BY <2>1, <2>2, <1>t DEF DoneIds
  <2>4. QED
    BY <2>1, <2>2, <2>3 DEF Counted
<1>6. ASSUME StopSpark \/ Crash \/ Reset PROVE Counted'
  <2>1. main' = "down" /\ thread' = "none" /\ results' = {}
    BY <1>6, <1>d DEF StopSpark, Crash, Reset, Exit, driver, query, Counted
  <2>2. QED
    BY <2>1 DEF Counted
<1>l. ASSUME thread \in Stages \cup {"commit"} PROVE main \notin {"down", "load"}
  BY <1>l, <1>d DEF Stages
<1>7. ASSUME NEW s, s # "failed", results' = results \cup {<<commits + 1, s>>},
             UNCHANGED <<commits, since, main>>, thread \in Stages
      PROVE  Counted'
  <2>1. DoneIds' = DoneIds \cup {commits + 1}
    <3>1. \A i : i \in DoneIds <=> \E x \in results : x[2] # "failed" /\ x[1] = i
      BY DEF DoneIds
    <3>2. \A i : i \in DoneIds' <=> \E x \in results' : x[2] # "failed" /\ x[1] = i
      BY DEF DoneIds
    <3>3. \A x : x \in results' <=> x \in results \/ x = <<commits + 1, s>>
      BY <1>7
    <3>4. <<commits + 1, s>>[1] = commits + 1 /\ <<commits + 1, s>>[2] = s
      OBVIOUS
    <3>5. \A i : i \in DoneIds' <=> i \in DoneIds \/ i = commits + 1
      BY <1>7, <3>1, <3>2, <3>3, <3>4
    <3>6. QED
      BY <3>5
  <2>2. main \notin {"down", "load"}
    BY <1>7, <1>l
  <2>3. since + 1 .. commits \subseteq DoneIds /\ DoneIds \subseteq since + 1 .. commits + 1 /\ since <= commits
    BY <2>2 DEF Counted
  <2>4. commits + 1 \in since + 1 .. commits + 1
    BY <2>3, <1>t
  <2>5. QED
    BY <1>7, <2>1, <2>2, <2>3, <2>4 DEF Counted
<1>8. ASSUME ReadBatch PROVE Counted'
  <2>1. UNCHANGED <<commits, since, main>> /\ thread \in Stages
    BY <1>8 DEF ReadBatch, checkpoint, driver, Stages
  <2>2. CASE results' = results \cup {<<commits + 1, "skipped">>}
    BY <1>7, <2>1, <2>2
  <2>3. CASE results' = results /\ thread' = "bronze"
    BY <1>1, <2>1, <2>3
  <2>4. QED
    BY <1>8, <2>2, <2>3 DEF ReadBatch
<1>9. ASSUME RecordBatch PROVE Counted'
  BY <1>7, <1>9 DEF RecordBatch, checkpoint, driver, Stages
<1>10. ASSUME FailBatch PROVE Counted'
  <2>1. /\ UNCHANGED <<commits, since, main>> /\ thread \in Stages /\ thread' \in {"failed", "stopped"}
        /\ results' = results \cup {<<commits + 1, "failed">>}
    BY <1>10 DEF FailBatch, checkpoint, driver, Stages
  <2>2. DoneIds' = DoneIds
    BY <2>1 DEF DoneIds
  <2>3. QED
    BY <2>1, <2>2, <1>l DEF Counted
<1>11. ASSUME CommitBatch PROVE Counted'
  <2>1. /\ UNCHANGED <<results, since, main>> /\ commits' = commits + 1 /\ thread = "commit"
        /\ thread' \in {"stopped", "idle"}
    BY <1>11 DEF CommitBatch, driver
  <2>2. main \notin {"down", "load"} /\ DoneIds' = DoneIds /\ commits + 1 \in DoneIds
    BY <2>1, <1>l DEF DoneIds, Counted
  <2>3. since + 1 .. commits \subseteq DoneIds /\ DoneIds \subseteq since + 1 .. commits + 1
        /\ since <= commits
    BY <2>2 DEF Counted
  <2>4. since + 1 .. commits + 1 \subseteq DoneIds /\ DoneIds \subseteq since + 1 .. commits + 1 + 1
        /\ since <= commits + 1
    BY <2>2, <2>3, <1>t
  <2>5. QED
    BY <2>1, <2>2, <2>4 DEF Counted
<1>12. QED
  BY <1>2, <1>3, <1>4, <1>5, <1>6, <1>8, <1>9, <1>10, <1>11 DEF Next, Thread, Main

\* A run whose summary says succeeded has ended its query, and counts as done
\* exactly the micro-batches that the checkpoint took in it, and at most one more.
THEOREM SummaryTruthAlways == Spec => SummaryTruth
<1>1. Init => SumInv
  BY TypeInit DEF Init, SumInv, Counted, Ended
<1>2. SumInv /\ [Next]_vars => SumInv'
  BY TypeStep, CountedStep, EndedStep DEF SumInv
<1>3. SumInv /\ [Next]_vars =>
        [run' # run /\ run'.status = "succeeded" =>
           LET done == {r[1] : r \in {x \in results : x[2] # "failed"}} IN
           /\ thread \in {"stopped", "failed"}
           /\ since + 1 .. commits \subseteq done /\ done \subseteq since + 1 .. commits + 1]_vars
  <2> SUFFICES ASSUME SumInv, Next, run' # run, run'.status = "succeeded"
               PROVE  /\ thread \in {"stopped", "failed"}
                      /\ since + 1 .. commits \subseteq DoneIds /\ DoneIds \subseteq since + 1 .. commits + 1
    BY DEF DoneIds, vars
  <2>1. RecordRun \/ LogRun \/ RecordFailedRun
    BY DEF Next, Thread, Main, Produce, Expire, Reset, StartThread, PlanBatch, ReadBatch, AppendBronze,
       PublishSilver, RecordBatch, WriteProgress, CommitBatch, HaltThread, FailBatch, FailUnrecorded,
       StartRun, StartQuery, CheckQuery, AwaitQuery, CheckDeadline, LeaveLoop, Stopped, StopSpark,
       PassDeadline, FailMain, Crash, Exit
  <2>2. main = "record"
    BY <2>1 DEF RecordRun, LogRun, RecordFailedRun
  <2>3. QED
    BY <2>2 DEF SumInv, Ended, Counted
<1>4. QED
  BY <1>1, <1>2, <1>3, PTL DEF Spec, SummaryTruth
====
