---- MODULE LakehouseContract ----
(***************************************************************************)
(* What the lakehouse promises its readers, whatever jobs, retries and     *)
(* failures produce it: an event lands in Bronze before it is published in *)
(* Silver, it is published once, an event that breaks a critical quality   *)
(* rule is never published, and only a reset takes anything back, Silver   *)
(* before Bronze.                                                          *)
(***************************************************************************)
CONSTANTS Key, Job, Bad

VARIABLES landed, published

vars == <<landed, published>>

Init == landed = {} /\ published = {}

Land(keys) ==
  /\ landed' = landed \cup keys
  /\ UNCHANGED published

Publish(keys, j) ==
  /\ keys \subseteq landed \ Bad
  /\ \A p \in published : p[1] \notin keys
  /\ published' = published \cup (keys \X {j})
  /\ UNCHANGED landed

ResetPublished ==
  /\ published' = {}
  /\ UNCHANGED landed

ResetLanded ==
  /\ published = {}
  /\ landed' = {}
  /\ UNCHANGED published

Next ==
  \/ \E keys \in SUBSET Key : Land(keys)
  \/ \E keys \in SUBSET Key, j \in Job : Publish(keys, j)
  \/ ResetPublished
  \/ ResetLanded

Spec == Init /\ [][Next]_vars

=============================================================================
