------------------------------ MODULE LogBuffer ------------------------------
(***************************************************************************)
(* The ring of recent log entries (logbuf.Buffer).  Add and Entries hold   *)
(* the lock, so that each is one step; an entry is its message.  The       *)
(* module RecentLog says what the ring stands for.                         *)
(***************************************************************************)
EXTENDS Integers, Sequences

CONSTANTS Messages, Capacity,
          NoMessage            \* what a slot holds before its first use

ASSUME CapacityAssumption == Capacity \in Nat \ {0}

VARIABLES entries, start, count

logVars == <<entries, start, count>>

LogInit ==
  /\ entries = [i \in 0..(Capacity - 1) |-> NoMessage]
  /\ start = 0 /\ count = 0

\* Mutation of Wrap: the slot after the last one is used.
WrapLate(i) == IF i > Capacity THEN i - Capacity ELSE i

\* Index arithmetic modulo the capacity.
Wrap(i) == i % Capacity

\* Mutation of Add: a full ring does not move its start.
AddKeepingStart(m) ==
  /\ entries' = [entries EXCEPT ![Wrap(start + count)] = m]
  /\ count' = IF count < Capacity THEN count + 1 ELSE count
  /\ start' = start

Add(m) ==
  /\ entries' = [entries EXCEPT ![Wrap(start + count)] = m]
  /\ IF count < Capacity
     THEN count' = count + 1 /\ start' = start
     ELSE count' = count /\ start' = Wrap(start + 1)

LogNext == \E m \in Messages : Add(m)

\* The entries up to the end of the array, then those before start.
Entries ==
  LET n == (IF start + count < Capacity THEN start + count ELSE Capacity) - start
  IN [i \in 1..count |-> IF i <= n THEN entries[start + i - 1] ELSE entries[i - n - 1]]

\* The page shows them newest first.
LogPage == [i \in 1..count |-> Entries[count - i + 1]]

-----------------------------------------------------------------------------
LogTypeOK ==
  /\ entries \in [0..(Capacity - 1) -> Messages \cup {NoMessage}]
  /\ start \in 0..(Capacity - 1) /\ count \in 0..Capacity

Queue == INSTANCE RecentLog WITH recent <- Entries

LogSpec == LogInit /\ [][LogNext]_logVars

\* The ring implements the queue of the newest messages: no slot that was
\* never written shows, none shows twice, and the order is that of the calls,
\* before, at and across the wrap.
RingIsRecentLog == Queue!Spec

\* Lines of the panel are in use only: the newest message is on top.
NoEmptyLine == \A i \in 1..count : LogPage[i] \in Messages
=============================================================================
