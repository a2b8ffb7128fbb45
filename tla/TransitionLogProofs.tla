------------------------ MODULE TransitionLogProofs ------------------------
(* The promises of TransitionLog, for every set of tunnels and statuses.   *)
EXTENDS TransitionLog, TLAPS

\* The history is ordered by transaction, one row of a tunnel in each.
Numbered ==
  /\ \A r \in history : r.seq <= commits
  /\ \A r, s \in history : r.tunnel = s.tunnel /\ r.seq = s.seq => r = s

Inv == TypeOK /\ Numbered /\ Agreement /\ Transitions

\* Two different rows of a tunnel are ordered one way or the other.
LEMMA Total ==
  ASSUME TypeOK, Numbered, NEW r \in history, NEW s \in history,
         r.tunnel = s.tunnel, r # s
  PROVE  Precedes(r, s) \/ Precedes(s, r)
<1>1. r.seq # s.seq /\ {r.seq, s.seq, r.at, s.at} \subseteq Nat
  BY DEF TypeOK, Numbered, Row
<1>2. QED BY <1>1 DEF Precedes

\* A snapshot's rows are new, and every stored row precedes them.
LEMMA NewRows ==
  ASSUME TypeOK, Numbered, NEW before \in [Tunnels -> Statuses \cup {None}],
         NEW snapshot \in [Tunnels -> Statuses \cup {None}],
         NEW at \in Nat, \A r \in history : r.at <= at
  PROVE  /\ RowsOf(before, snapshot, at) \subseteq Row
         /\ \A n \in RowsOf(before, snapshot, at), r \in history :
              Precedes(r, n) /\ ~Precedes(n, r) /\ n # r /\ n.seq # r.seq
         /\ \A n, m \in RowsOf(before, snapshot, at) :
              ~Precedes(n, m) /\ (n.tunnel = m.tunnel => n = m) /\ n.seq = commits + 1
<1> DEFINE rows == RowsOf(before, snapshot, at)
<1>1. \A n \in rows : n \in Row /\ n.seq = commits + 1 /\ n.at = at
  BY DEF RowsOf, Row, Changed, TypeOK
<1>2. \A n \in rows, r \in history :
        Precedes(r, n) /\ ~Precedes(n, r) /\ n # r /\ n.seq # r.seq
  <2> SUFFICES ASSUME NEW n \in rows, NEW r \in history
               PROVE  Precedes(r, n) /\ ~Precedes(n, r) /\ n # r /\ n.seq # r.seq
    OBVIOUS
  <2>1. n.seq = commits + 1 /\ n.at = at /\ r.at \in Nat /\ r.seq \in Nat
    BY <1>1 DEF TypeOK, Row
  <2>2. commits \in Nat /\ r.seq <= commits /\ r.at <= at
    BY DEF TypeOK, Numbered
  <2>3. QED BY <2>1, <2>2 DEF Precedes
<1>3. \A n, m \in rows : ~Precedes(n, m) /\ (n.tunnel = m.tunnel => n = m)
  <2>1. \A n, m \in rows : ~Precedes(n, m)
    BY <1>1 DEF Precedes, TypeOK
  <2>2. \A n, m \in rows : n.tunnel = m.tunnel => n = m
    BY DEF RowsOf
  <2>3. QED BY <2>1, <2>2
<1>4. QED BY <1>1, <1>2, <1>3

\* Committing a snapshot keeps the invariant.
LEMMA ObservePreserves ==
  ASSUME Inv, NEW snapshot \in [Tunnels -> Statuses \cup {None}], NEW at \in Nat,
         Observe(snapshot, at)
  PROVE  Inv'
<1> DEFINE rows == RowsOf(tunnels, snapshot, at)
<1>1. /\ tunnels \in [Tunnels -> Statuses \cup {None}]
      /\ tunnels' = snapshot
      /\ history' = history \cup rows
      /\ commits \in Nat /\ history \subseteq Row
      /\ commits' = IF rows = {} THEN commits ELSE commits + 1
  BY DEF Inv, TypeOK, Observe, AppendRows
<1>2. /\ rows \subseteq Row
      /\ \A n \in rows, r \in history :
           Precedes(r, n) /\ ~Precedes(n, r) /\ n # r /\ n.seq # r.seq
      /\ \A n, m \in rows :
           ~Precedes(n, m) /\ (n.tunnel = m.tunnel => n = m) /\ n.seq = commits + 1
  BY <1>1, NewRows DEF Inv, Observe
<1>3. \A n \in rows : n.tunnel \in Changed(tunnels, snapshot)
                      /\ n.from = tunnels[n.tunnel] /\ n.status = snapshot[n.tunnel]
  BY DEF RowsOf
<1>4. \A t \in Changed(tunnels, snapshot) : \E n \in rows : n.tunnel = t
  <2> TAKE t \in Changed(tunnels, snapshot)
  <2> DEFINE n == [seq |-> commits + 1, tunnel |-> t, from |-> tunnels[t],
                   status |-> snapshot[t], at |-> at]
  <2>1. n \in rows /\ n.tunnel = t
    BY DEF RowsOf
  <2>2. QED BY <2>1
<1> HIDE DEF rows
<1>5. TypeOK'
  BY <1>1, <1>2 DEF TypeOK
<1>6. Numbered'
  <2>1. \A r \in history' : r.seq <= commits'
    <3> SUFFICES ASSUME NEW r \in history' PROVE r.seq <= commits'
      OBVIOUS
    <3>1. CASE r \in rows
      BY <1>1, <1>2, <3>1
    <3>2. CASE r \in history
      <4>1. r.seq \in Nat /\ r.seq <= commits
        BY <3>2, <1>1 DEF Inv, Numbered, Row
      <4>2. QED BY <4>1, <1>1
    <3>3. QED BY <3>1, <3>2, <1>1
  <2>2. \A r, s \in history' : r.tunnel = s.tunnel /\ r.seq = s.seq => r = s
    BY <1>1, <1>2 DEF Inv, Numbered
  <2>3. QED BY <2>1, <2>2 DEF Numbered
<1>7. Agreement'
  <2> SUFFICES ASSUME NEW r \in history', Latest(r)'
               PROVE  snapshot[r.tunnel] \in {None, r.status}
    BY <1>1 DEF Agreement
  <2>1. CASE r \in rows
    BY <1>3, <2>1
  <2>2. CASE r \in history /\ r.tunnel \in Changed(tunnels, snapshot)
    <3>1. PICK n \in rows : n.tunnel = r.tunnel
      BY <1>4, <2>2
    <3>2. n # r /\ ~Precedes(n, r)
      BY <1>2, <2>2
    <3>3. Precedes(n, r)
      BY <1>1, <3>1, <3>2 DEF Latest, Precedes
    <3>4. QED BY <3>2, <3>3
  <2>3. CASE r \in history /\ r.tunnel \notin Changed(tunnels, snapshot)
    <3>1. Latest(r)
      BY <1>1, <2>3 DEF Latest, Precedes
    <3>2. tunnels[r.tunnel] \in {None, r.status}
      BY <3>1, <2>3 DEF Inv, Agreement
    <3>3. r.tunnel \in Tunnels
      BY <1>1, <2>3 DEF Row
    <3>4. QED BY <2>3, <3>2, <3>3 DEF Changed
  <2>4. QED BY <1>1, <2>1, <2>2, <2>3
<1>8. Transitions'
  <2>1. \A r \in history' : r.from # r.status
    BY <1>1, <1>3 DEF Inv, Transitions, Changed
  <2>2. ASSUME NEW r \in history', NEW s \in history', r.tunnel = s.tunnel, Precedes(r, s),
               \A q \in history' : q.tunnel = r.tunnel => ~(Precedes(r, q) /\ Precedes(q, s))
        PROVE  s.from \in {None, r.status}
    <3>1. CASE r \in history /\ s \in history
      BY <1>1, <2>2, <3>1 DEF Inv, Transitions
    <3>2. CASE r \in rows
      BY <1>1, <1>2, <2>2, <3>2
    <3>3. CASE r \in history /\ s \in rows
      <4>1. ASSUME NEW q \in history, q.tunnel = r.tunnel, q # r
            PROVE  Precedes(q, r)
        <5>1. Precedes(q, s) /\ ~Precedes(r, q)
          BY <1>1, <1>2, <2>2, <3>3, <4>1
        <5>2. QED BY <5>1, <3>3, <4>1, Total DEF Inv
      <4>2. Latest(r)
        BY <4>1 DEF Latest
      <4>3. QED BY <4>2, <1>3, <2>2, <3>3 DEF Inv, Agreement
    <3>4. QED BY <1>1, <3>1, <3>2, <3>3
  <2>3. QED BY <2>1, <2>2 DEF Transitions, Precedes
<1>9. QED BY <1>5, <1>6, <1>7, <1>8 DEF Inv

\* Deleting the rows older than a cutoff keeps it too.
LEMMA PrunePreserves ==
  ASSUME Inv, NEW cutoff \in Int, Prune(cutoff)
  PROVE  Inv'
<1>1. /\ history' = {r \in history : r.at >= cutoff}
      /\ tunnels' = tunnels /\ commits' = commits /\ history \subseteq Row
  BY DEF Prune, Inv, TypeOK
<1>2. TypeOK' /\ Numbered'
  BY <1>1 DEF Inv, TypeOK, Numbered
<1>3. \A r, s \in history : Precedes(r, s) /\ r.at >= cutoff => s.at >= cutoff
  BY <1>1 DEF Precedes, Row
<1>4. Agreement'
  <2> SUFFICES ASSUME NEW r \in history', Latest(r)'
               PROVE  tunnels[r.tunnel] \in {None, r.status}
    BY <1>1 DEF Agreement
  <2>1. Latest(r)
    <3> SUFFICES ASSUME NEW s \in history, s.tunnel = r.tunnel, s # r
                 PROVE  Precedes(s, r)
      BY DEF Latest
    <3>1. CASE s \in history'
      BY <3>1, <1>1 DEF Latest, Precedes
    <3>2. CASE s \notin history'
      BY <3>2, <1>1, <1>3, Total DEF Inv
    <3>3. QED BY <3>1, <3>2
  <2>2. QED BY <2>1, <1>1 DEF Inv, Agreement
<1>5. Transitions'
  <2>1. \A r \in history' : r.from # r.status
    BY <1>1 DEF Inv, Transitions
  <2>2. ASSUME NEW r \in history', NEW s \in history', r.tunnel = s.tunnel, Precedes(r, s),
               \A q \in history' : q.tunnel = r.tunnel => ~(Precedes(r, q) /\ Precedes(q, s))
        PROVE  s.from \in {None, r.status}
    BY <1>1, <1>3, <2>2 DEF Inv, Transitions
  <2>3. QED BY <2>1, <2>2 DEF Transitions, Precedes
<1>6. QED BY <1>2, <1>4, <1>5 DEF Inv

\* One step of the abstract store keeps the invariant.
LEMMA StepPreserves ==
  ASSUME Times \subseteq Nat, Inv, [Next]_vars
  PROVE  Inv'
<1>1. ASSUME NEW snapshot \in [Tunnels -> Statuses \cup {None}], NEW at \in Times,
             Observe(snapshot, at)
      PROVE  Inv'
  BY <1>1, ObservePreserves
<1>2. ASSUME NEW cutoff \in Times, Prune(cutoff)
      PROVE  Inv'
  BY <1>2, PrunePreserves
<1>3. CASE UNCHANGED vars
  BY <1>3 DEF vars, Inv, TypeOK, Numbered, Agreement, Transitions, Latest, Precedes
<1>4. QED BY <1>1, <1>2, <1>3 DEF Next

\* The invariant holds initially.
LEMMA InitInv == Init => Inv
BY DEF Init, Inv, TypeOK, Numbered, Agreement, Transitions

\* In every reachable state the stored status of a tunnel is that of its newest
\* history row, and the rows of a tunnel form a chain of real transitions.
THEOREM LogCorrect ==
  ASSUME Times \subseteq Nat
  PROVE  Spec => [](Agreement /\ Transitions)
<1>1. Inv => Agreement /\ Transitions
  BY DEF Inv
<1>2. Inv /\ [Next]_vars => Inv'
  BY Times \subseteq Nat, StepPreserves
<1>3. QED BY <1>1, <1>2, InitInv, PTL DEF Spec
=============================================================================
