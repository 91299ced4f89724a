---- MODULE LogReader ----
(***************************************************************************)
(* What the streaming job promises of a Kafka topic: the records are       *)
(* applied in batches of consecutive offsets, at least once, and the       *)
(* position only moves over records that have been applied.                *)
(***************************************************************************)
EXTENDS Integers

CONSTANTS
  Last,    \* offset of the last record the topic ever gets; the first is 1
  Window   \* records of one batch at most

VARIABLES
  position,  \* records up to it are done with; -1 before the query first starts
  applied    \* records that reached Silver

Init == position = -1 /\ applied = {}

\* The place in the topic where reading starts.
Seek ==
  /\ position = -1
  /\ position' \in 0 .. Last
  /\ UNCHANGED applied

\* One batch commits, in part or again, without the position moving.
Apply ==
  /\ position >= 0
  /\ \E batch \in SUBSET ((position + 1 .. position + Window) \cap (1 .. Last)) :
       applied' = applied \cup batch
  /\ UNCHANGED position

Advance ==
  /\ position >= 0
  /\ position' \in position + 1 .. position + Window
  /\ (position + 1 .. position') \subseteq applied
  /\ UNCHANGED applied

Next == Seek \/ Apply \/ Advance
Spec == Init /\ [][Next]_<<position, applied>>
====
