------------------------------ MODULE RecentLog ------------------------------
(***************************************************************************)
(* What the log buffer promises: a queue of the newest log messages, the   *)
(* newest last, that drops the oldest when it is full.                     *)
(***************************************************************************)
EXTENDS Naturals, Sequences

CONSTANTS Messages, Capacity

VARIABLE recent

NewestOf(s) == IF Len(s) > Capacity THEN Tail(s) ELSE s

Init == recent = <<>>
Next == \E m \in Messages : recent' = NewestOf(Append(recent, m))

Spec == Init /\ [][Next]_recent
=============================================================================
