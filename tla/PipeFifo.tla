------------------------------ MODULE PipeFifo ------------------------------
(***************************************************************************)
(* What a pipe promises: a bounded first-in first-out queue of bytes with  *)
(* two ends.  A write appends as much as fits, a read takes from the front *)
(* as much as there is, and a closed end never opens again.                *)
(***************************************************************************)
EXTENDS Integers, Sequences

CONSTANTS Capacity, Bytes, MaxLen

VARIABLES queue, got, readOpen, writeOpen

vars == <<queue, got, readOpen, writeOpen>>

Messages == UNION {[1 .. n -> Bytes] : n \in 0 .. MaxLen}

Init ==
  /\ queue = <<>> /\ got = <<>>
  /\ readOpen = TRUE /\ writeOpen = TRUE

Write ==
  /\ readOpen /\ writeOpen
  /\ \E data \in Messages, n \in 0 .. MaxLen :
       /\ n <= Len(data) /\ n <= Capacity - Len(queue)
       /\ n = Len(data) \/ n = Capacity - Len(queue)
       /\ queue' = queue \o SubSeq(data, 1, n)
  /\ UNCHANGED <<got, readOpen, writeOpen>>

Read ==
  /\ readOpen
  /\ \E length \in 0 .. MaxLen, n \in 0 .. MaxLen :
       /\ n <= length /\ n <= Len(queue)
       /\ n = length \/ n = Len(queue)
       /\ got' = SubSeq(queue, 1, n)
       /\ queue' = SubSeq(queue, n + 1, Len(queue))
  /\ UNCHANGED <<readOpen, writeOpen>>

Close ==
  /\ readOpen' \in {FALSE, readOpen} /\ writeOpen' \in {FALSE, writeOpen}
  /\ UNCHANGED <<queue, got>>

Next == Write \/ Read \/ Close

Spec == Init /\ [][Next]_vars
=============================================================================
