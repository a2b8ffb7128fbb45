--------------------------- MODULE ProcessProofs ---------------------------
(***************************************************************************)
(* What the process promises around the collection.  The store is closed   *)
(* last, and the rounds of a button stay few, for any loops and buttons,   *)
(* any deadlines and any spacing of the throttle.  No handled event that   *)
(* is urgent stays silent, and a condition is not announced more often     *)
(* than the workers that may ask the outbox at the same time, and the rows *)
(* that were lost, account for.  The ring of log entries implements the    *)
(* queue of the newest messages, for every capacity.                       *)
(***************************************************************************)
EXTENDS Lifecycle, Notifications, LogBuffer, FiniteSetTheorems, TLAPS

-----------------------------------------------------------------------------
(* The inductive invariant.                                                *)

LifeTypeOK ==
  /\ mainPc \in {"serving", "shutdown", "waiting", "closed", "exited"}
  /\ loops \in [Loops -> {"working", "waiting", "jitter", "done"}]
  /\ manual \in [Buttons -> SUBSET Nat]
  /\ lastManual \in [Buttons -> Nat \cup {Never}]
  /\ time \in Nat
  /\ shutdownAt \in Nat \cup {Never}

\* Shutdown came to its end: no manual round is left, or it waited its time out.
ShutdownOver == NoManualRound \/ time >= shutdownAt + ShutdownTimeout

ClosingInv ==
  /\ mainPc \in {"waiting", "closed", "exited"} => shutdownAt # Never /\ ShutdownOver
  /\ mainPc = "shutdown" => shutdownAt # Never
  /\ mainPc \in {"closed", "exited"} => LoopsDone

\* The running rounds of a button began within the last deadline, no later
\* than the throttle remembers, and at the throttle's spacing.
Spaced(b) ==
  /\ \A begun \in manual[b] : begun <= lastManual[b] /\ begun <= time /\ time <= begun + RoundTimeout
  /\ \A x, y \in manual[b] : x < y => y - x >= ManualInterval

LifeInv == LifeTypeOK /\ ClosingInv /\ \A b \in Buttons : Spaced(b)

-----------------------------------------------------------------------------
\* The invariant holds at the start, and every step keeps it.
LEMMA LifeInvInit == LifeInit => LifeInv
BY TimeAssumption DEF LifeInit, LifeInv, LifeTypeOK, ClosingInv, Spaced, Never

LEMMA LifeInvStep == LifeInv /\ [LifeNext]_lifeVars => LifeInv'
<1> SUFFICES ASSUME LifeInv, [LifeNext]_lifeVars
             PROVE  LifeInv'
  OBVIOUS
<1> USE TimeAssumption DEF LifeInv
<1>1. CASE TimePasses
  <2>1. LifeTypeOK'
    BY <1>1 DEF TimePasses, LifeTypeOK
  <2>2. ClosingInv'
    BY <1>1 DEF TimePasses, LifeTypeOK, ClosingInv, ShutdownOver, NoManualRound, LoopsDone, Never
  <2>3. ASSUME NEW b \in Buttons
        PROVE  Spaced(b)'
    BY <1>1 DEF TimePasses, LifeTypeOK, Spaced
  <2>4. QED BY <2>1, <2>2, <2>3
<1>2. ASSUME NEW l \in Loops, NEW from \in {"working", "waiting", "jitter"},
             NEW to \in {"working", "waiting", "jitter", "done"}, Moves(l, from, to)
      PROVE  LifeInv'
  <2>1. LifeTypeOK'
    BY <1>2 DEF Moves, LifeTypeOK
  <2>2. LoopsDone => FALSE
    BY <1>2 DEF Moves, LoopsDone
  <2>3. ClosingInv'
    BY <1>2, <2>2 DEF Moves, ClosingInv, ShutdownOver, NoManualRound
  <2>4. ASSUME NEW b \in Buttons
        PROVE  Spaced(b)'
    BY <1>2 DEF Moves, Spaced
  <2>5. QED BY <2>1, <2>3, <2>4
<1>3. ASSUME NEW l \in Loops, LoopStep(l)
      PROVE  LifeInv'
  BY <1>2, <1>3 DEF LoopStep, RoundDone, TickerFires, LoopReturns
<1>4. CASE TriggerReceived \/ JitterOver
  BY <1>2, <1>4 DEF TriggerReceived, JitterOver, Loops
<1>5. CASE Trigger
  BY <1>5 DEF Trigger, LifeTypeOK, ClosingInv, ShutdownOver, NoManualRound, LoopsDone, Spaced
<1>6. ASSUME NEW b \in Buttons, Click(b)
      PROVE  LifeInv'
  <2>1. LifeTypeOK'
    BY <1>6 DEF Click, Reserved, LifeTypeOK
  <2>2. ClosingInv'
    BY <1>6 DEF Click, ClosingInv
  <2>3. \A x \in manual[b] : time - x >= ManualInterval
    BY <1>6 DEF Click, MayReserve, Spaced, LifeTypeOK, Never
  <2>4. Spaced(b)'
    BY <1>6, <2>3 DEF Click, Reserved, Spaced, LifeTypeOK
  <2>5. ASSUME NEW c \in Buttons \ {b}
        PROVE  Spaced(c)'
    BY <1>6 DEF Click, Reserved, Spaced, LifeTypeOK
  <2>6. QED BY <2>1, <2>2, <2>4, <2>5
<1>7. ASSUME NEW b \in Buttons, ManualRoundEnds(b)
      PROVE  LifeInv'
  <2>1. PICK begun \in manual[b] : manual' = [manual EXCEPT ![b] = manual[b] \ {begun}]
    BY <1>7 DEF ManualRoundEnds
  <2>2. \A c \in Buttons : manual'[c] \subseteq manual[c]
    BY <2>1 DEF LifeTypeOK
  <2>3. LifeTypeOK'
    BY <1>7, <2>1 DEF ManualRoundEnds, LifeTypeOK
  <2>4. ClosingInv'
    BY <1>7, <2>2 DEF ManualRoundEnds, ClosingInv, ShutdownOver, NoManualRound, LoopsDone
  <2>5. ASSUME NEW c \in Buttons
        PROVE  Spaced(c)'
    BY <1>7, <2>2 DEF ManualRoundEnds, Spaced
  <2>6. QED BY <2>3, <2>4, <2>5
<1>8. CASE Signal \/ ListenFails \/ ShutdownReturns \/ CloseStore \/ Exit
  <2>1. UNCHANGED <<loops, manual, lastManual, time>>
    BY <1>8 DEF Signal, ListenFails, ShutdownReturns, CloseStore, Exit, Leave
  <2>2. LifeTypeOK'
    BY <1>8 DEF Signal, ListenFails, ShutdownReturns, CloseStore, Exit, Leave, LifeTypeOK
  <2>3. ClosingInv'
    BY <1>8, <2>1 DEF Signal, ListenFails, ShutdownReturns, CloseStore, Exit, Leave, ClosingInv, LifeTypeOK,
                      ShutdownOver, NoManualRound, LoopsDone, Never
  <2>4. \A b \in Buttons : Spaced(b)'
    BY <2>1 DEF Spaced
  <2>5. QED BY <2>2, <2>3, <2>4
<1>9. CASE UNCHANGED lifeVars
  BY <1>9 DEF lifeVars, LifeTypeOK, ClosingInv, ShutdownOver, NoManualRound, LoopsDone, Spaced
<1>10. QED BY <1>1, <1>3, <1>4, <1>5, <1>6, <1>7, <1>8, <1>9 DEF LifeNext

LEMMA LifeInvariant == LifeSpec => []LifeInv
BY LifeInvInit, LifeInvStep, PTL DEF LifeSpec

\* When the store is closed no loop will use it again; a manual round may, but
\* only one Shutdown waited for until its deadline.
THEOREM StoreIsClosedLast == LifeSpec => []StoreClosedLast
<1>1. LifeInv => StoreClosedLast
  BY DEF LifeInv, ClosingInv, StoreClosedLast, ShutdownOver, LoopsDone
<1>2. QED BY <1>1, LifeInvariant, PTL

-----------------------------------------------------------------------------
(* How many rounds run beside each other.                                  *)

\* What the provers know about division.
LEMMA Quotient ==
  ASSUME NEW a \in Nat, NEW i \in Nat \ {0}
  PROVE  a \div i \in Nat /\ (a \div i) * i <= a /\ a < (a \div i) * i + i
OBVIOUS

LEMMA QuotientMonotone ==
  ASSUME NEW a \in Nat, NEW b \in Nat, a <= b, NEW i \in Nat \ {0}
  PROVE  a \div i <= b \div i
OBVIOUS

\* Points at least a spacing apart, within a deadline, are no more than the
\* deadline holds spacings, plus one: each falls into a spacing of its own.
LEMMA SpacedPoints ==
  ASSUME NEW S \in SUBSET Nat, NEW last \in Nat, NEW i \in Nat \ {0}, NEW d \in Nat,
         \A x \in S : x <= last /\ last <= x + d,
         \A x, y \in S : x < y => y - x >= i
  PROVE  (Cardinality(S) - 1) * i <= d
<1> DEFINE slot == [x \in S |-> (last - x) \div i]
           n == d \div i
<1>1. ASSUME NEW x \in S
      PROVE  last - x \in Nat /\ last - x <= d
  OBVIOUS
<1>2. n \in Nat /\ n * i <= d
  BY Quotient
<1>3. ASSUME NEW x \in S
      PROVE  slot[x] \in 0..n
  <2>1. (last - x) \div i <= n /\ (last - x) \div i \in Nat
    BY <1>1, Quotient, QuotientMonotone
  <2>2. QED BY <2>1, <1>2
<1>4. ASSUME NEW x \in S, NEW y \in S, x < y
      PROVE  slot[x] # slot[y]
  <2> DEFINE p == (last - x) \div i
             q == (last - y) \div i
  <2>1. p \in Nat /\ last - x < p * i + i /\ p * i <= last - x
    BY <1>1, Quotient
  <2>2. q \in Nat /\ last - y < q * i + i /\ q * i <= last - y
    BY <1>1, Quotient
  <2>3. last - x >= last - y + i
    BY <1>4
  <2> HIDE DEF p, q
  <2>4. ASSUME p = q
        PROVE  FALSE
    <3>1. last - x < q * i + i /\ q * i \in Nat
      BY <2>1, <2>2, <2>4
    <3>2. QED BY <2>2, <2>3, <3>1
  <2>5. QED BY <2>4 DEF p, q
<1>5. slot \in Injection(S, 0..n)
  <2>1. slot \in [S -> 0..n]
    BY <1>3
  <2>2. \A x, y \in S : slot[x] = slot[y] => x = y
    BY <1>4
  <2>3. QED BY <2>1, <2>2 DEF Injection, IsInjective
<1> HIDE DEF slot, n
<1>6. IsFiniteSet(0..n) /\ Cardinality(0..n) = n + 1
  BY <1>2, FS_Interval
<1>7. IsFiniteSet(S) /\ Cardinality(S) <= n + 1
  BY <1>5, <1>6, FS_Injection
<1>8. Cardinality(S) \in Nat
  BY <1>7, FS_CardinalityType
<1>9. (Cardinality(S) - 1) * i <= n * i
  BY <1>2, <1>7, <1>8
<1>10. (Cardinality(S) - 1) * i \in Int /\ n * i \in Int
  BY <1>2, <1>8
<1>11. QED BY <1>2, <1>9, <1>10

\* However often a button is pressed, no more of its rounds run beside each
\* other than the deadline of a round holds spacings of the throttle.
THEOREM FewManualRounds == LifeSpec => []ManualRoundsAreFew
<1>1. LifeInv => ManualRoundsAreFew
  <2> SUFFICES ASSUME LifeInv, NEW b \in Buttons
               PROVE  (Cardinality(manual[b]) - 1) * ManualInterval <= RoundTimeout
    BY DEF ManualRoundsAreFew
  <2>1. manual[b] \in SUBSET Nat /\ time \in Nat
    BY DEF LifeInv, LifeTypeOK
  <2>2. /\ \A x \in manual[b] : x <= time /\ time <= x + RoundTimeout
        /\ \A x, y \in manual[b] : x < y => y - x >= ManualInterval
    BY DEF LifeInv, Spaced
  <2>3. QED BY <2>1, <2>2, TimeAssumption, SpacedPoints
<1>2. QED BY <1>1, LifeInvariant, PTL

-----------------------------------------------------------------------------
(* The inductive invariant of the dispatcher.                              *)

\* Every row of the outbox was written for an announcement of the same time.
RowsWereAnnounced ==
  \A n \in outbox : \E a \in announced : a.event = n.key /\ a.at = n.at

\* A worker about to write a row has announced what the row will say.
RecordersAnnounced ==
  \A w \in Workers : pc[w] = "record" =>
    \E a \in announced : a.event = current[w] /\ a.at = started[w]

\* Announcements are counted: no two of the history are the same.
AnnouncedIsCounted ==
  IsFiniteSet(announced) /\ \A a \in announced : a.id < Cardinality(announced)

AnnounceInv == TypeOK /\ AnnouncedIsCounted /\ RowsWereAnnounced /\ RecordersAnnounced
               /\ NothingUrgentIsSilent

\* What concerns one condition in the cooldown that begins at s: its
\* announcements, the workers about to make one, those about to record one,
\* and whether the outbox knows of one.
InWindow(s, at) == at \in s..(s + Cooldown)
AnnouncedOf(e, s) == {b \in announced : b.event = e /\ InWindow(s, b.at)}
Sending(e, s) == {w \in Workers : pc[w] = "send" /\ current[w] = e /\ InWindow(s, started[w])}
Recording(e, s) == {w \in Workers : pc[w] = "record" /\ current[w] = e /\ InWindow(s, started[w])}
Recorded(e, s) == \E n \in outbox : n.key = e /\ InWindow(s, n.at)

\* Until the outbox knows, every announcement is one whose row is still to be
\* written or got lost; from then on no worker joins those about to announce.
WindowInv(e, s) ==
  /\ ~Recorded(e, s) => Cardinality(AnnouncedOf(e, s)) <= lost + Cardinality(Recording(e, s))
  /\ Recorded(e, s) =>
       Cardinality(AnnouncedOf(e, s)) + Cardinality(Sending(e, s)) <= lost + Cardinality(Workers)

-----------------------------------------------------------------------------
(* Lemmas about events and about counting.                                 *)

\* The key of an event is all there is to it.
LEMMA KeyIsEvent ==
  ASSUME NEW e \in Event
  PROVE  Key(e) = e /\ e # NoEvent
BY DEF Key, Event, NoEvent

\* What a round collects are events.
LEMMA CollectedTypes ==
  ASSUME NEW found \in [Transient -> States], NEW moved \in SUBSET Transient,
         NEW happened \in SUBSET (Occurrences \X Subjects)
  PROVE  {[kind |-> x[1], subject |-> x[2], to |-> found[x]] : x \in moved}
         \cup {[kind |-> x[1], subject |-> x[2], to |-> "none"] : x \in happened} \subseteq Event
BY DEF Event, Transient, Occurrences

\* The workers are finitely many, and so are any of them.
LEMMA SomeWorkers ==
  ASSUME NEW S \in SUBSET Workers
  PROVE  IsFiniteSet(S) /\ Cardinality(S) \in Nat /\ Cardinality(S) <= Cardinality(Workers)
         /\ Cardinality(Workers) \in Nat
BY NotifyAssumption, FS_Subset, FS_CardinalityType

\* A new announcement counts for one at the most.
LEMMA OneMore ==
  ASSUME NEW S, NEW x, NEW T \in SUBSET (S \cup {x}), IsFiniteSet(S)
  PROVE  IsFiniteSet(T) /\ Cardinality(T) \in Nat /\ Cardinality(T) <= Cardinality(S) + 1
<1>1. IsFiniteSet(S \cup {x}) /\ Cardinality(S) \in Nat
       /\ Cardinality(S \cup {x}) = IF x \in S THEN Cardinality(S) ELSE Cardinality(S) + 1
  BY FS_AddElement, FS_CardinalityType
<1>2. IsFiniteSet(T) /\ Cardinality(T) <= Cardinality(S \cup {x})
  BY <1>1, FS_Subset
<1>3. QED
  BY <1>1, <1>2, FS_CardinalityType

-----------------------------------------------------------------------------
(* Types, and the announcements behind the rows.                           *)

\* The end of an event's handling keeps a worker's variables typed.
LEMMA DoneTypes ==
  ASSUME TypeOK, NEW w \in Workers, NEW e \in todo[w], Done(w, e)
  PROVE  /\ pc' \in [Workers -> {"idle", "round", "next", "send", "record"}]
         /\ todo' \in [Workers -> SUBSET Event]
         /\ pc'[w] = "next" /\ current'[w] = NoEvent
         /\ \A v \in Workers \ {w} :
              pc'[v] = pc[v] /\ todo'[v] = todo[v] /\ current'[v] = current[v]
BY DEF Done, TypeOK

LEMMA TypesInit == Init => TypeOK
BY NotifyAssumption DEF Init, TypeOK

LEMMA TypesStep ==
  ASSUME TypeOK, AnnouncedIsCounted, [Next]_vars
  PROVE  TypeOK'
<1> USE NotifyAssumption
<1>1. CASE Tick
  BY <1>1 DEF Tick, worker, TypeOK
<1>2. ASSUME NEW w \in Workers, Start(w)
      PROVE  TypeOK'
  BY <1>2 DEF Start, TypeOK
<1>3. ASSUME NEW w \in Workers, Collect(w)
      PROVE  TypeOK'
  <2>1. PICK found \in [Transient -> States], happened \in SUBSET (Occurrences \X Subjects),
             moved \in SUBSET Transient :
          /\ state' = found
          /\ todo' = [todo EXCEPT ![w] =
               {[kind |-> x[1], subject |-> x[2], to |-> found[x]] : x \in moved}
               \cup {[kind |-> x[1], subject |-> x[2], to |-> "none"] : x \in happened}]
    BY <1>3 DEF Collect
  <2> DEFINE batch == {[kind |-> x[1], subject |-> x[2], to |-> found[x]] : x \in moved}
                      \cup {[kind |-> x[1], subject |-> x[2], to |-> "none"] : x \in happened}
  <2>2. batch \subseteq Event
    BY CollectedTypes
  <2> HIDE DEF batch
  <2>3. todo' = [todo EXCEPT ![w] = batch] /\ state' = found
    BY <2>1 DEF batch
  <2>4. todo' \in [Workers -> SUBSET Event] /\ \A v \in Workers \ {w} : todo'[v] = todo[v]
    BY <2>2, <2>3 DEF TypeOK
  <2>5. state' \in [Transient -> States \cup {"none"}]
    BY <2>3
  <2>6. QED BY <1>3, <2>4, <2>5 DEF Collect, TypeOK
<1>4. ASSUME NEW w \in Workers, Dispatch(w)
      PROVE  TypeOK'
  <2>1. ASSUME NEW e \in todo[w], Done(w, e), pc[w] \in {"next", "record"},
               \/ handled' = handled \/ Handled(w, e),
               UNCHANGED <<clock, state, announced, started>>,
               mishaps' \in 0..MaxMishaps, lost' \in Nat,
               outbox' \subseteq [key: Event, at: 0..MaxClock]
        PROVE  TypeOK'
    <3>1. e \in Event
      BY DEF TypeOK
    <3>2. handled' \subseteq [event: Event, at: 0..MaxClock]
      BY <2>1, <3>1 DEF TypeOK, Handled
    <3>3. current' \in [Workers -> Event \cup {NoEvent}]
      BY <2>1 DEF TypeOK, Done
    <3>4. QED BY <2>1, <3>2, <3>3, DoneTypes DEF TypeOK
  <2>2. CASE Ignore(w) \/ Pass(w) \/ Suppress(w)
    BY <2>1, <2>2 DEF Ignore, Pass, Suppress, TypeOK
  <2>3. CASE Accept(w)
    BY <2>3 DEF Accept, TypeOK
  <2>4. CASE GiveUp(w)
    <3>1. mishaps' \in 0..MaxMishaps
      BY <2>4 DEF GiveUp, TypeOK
    <3>2. QED BY <2>1, <2>4, <3>1 DEF GiveUp, TypeOK
  <2>5. CASE Send(w)
    <3>1. Cardinality(announced) \in Nat
      BY FS_CardinalityType DEF AnnouncedIsCounted
    <3>2. current[w] \in Event /\ started[w] \in 0..MaxClock
      BY <2>5 DEF Send, TypeOK
    <3>3. announced' \subseteq [id: Nat, event: Event, at: 0..MaxClock]
      BY <2>5, <3>1, <3>2 DEF Send, TypeOK
    <3>4. QED BY <2>5, <3>3 DEF Send, TypeOK
  <2>6. CASE Record(w)
    <3>1. current[w] \in todo[w] /\ current[w] \in Event
      BY <2>6 DEF Record, TypeOK
    <3>2. mishaps' \in 0..MaxMishaps /\ lost' \in Nat
      BY <2>6 DEF Record, TypeOK
    <3>3. outbox' \subseteq [key: Event, at: 0..MaxClock]
      BY <2>6, <3>1, KeyIsEvent DEF Record, TypeOK
    <3>4. Done(w, current[w]) /\ Handled(w, current[w]) /\ UNCHANGED <<clock, state, announced, started>>
          /\ pc[w] = "record"
      BY <2>6 DEF Record
    <3>5. QED BY <2>1, <3>1, <3>2, <3>3, <3>4
  <2>7. CASE Finish(w)
    BY <2>7 DEF Finish, TypeOK
  <2>8. QED BY <1>4, <2>2, <2>3, <2>4, <2>5, <2>6, <2>7 DEF Dispatch
<1>5. CASE Crash
  <2>1. Cardinality({w \in Workers : pc[w] = "record"}) \in Nat
    BY SomeWorkers
  <2>2. QED BY <1>5, <2>1 DEF Crash, TypeOK
<1>6. CASE UNCHANGED vars
  BY <1>6 DEF vars, worker, TypeOK
<1>7. QED BY <1>1, <1>2, <1>3, <1>4, <1>5, <1>6 DEF Next

LEMMA CountedStep ==
  ASSUME TypeOK, AnnouncedIsCounted, [Next]_vars
  PROVE  AnnouncedIsCounted'
<1>1. ASSUME NEW w \in Workers, Send(w)
      PROVE  AnnouncedIsCounted'
  <2> DEFINE new == [id |-> Cardinality(announced), event |-> current[w], at |-> started[w]]
  <2>1. announced' = announced \cup {new}
    BY <1>1 DEF Send
  <2>2. new \notin announced /\ Cardinality(announced) \in Nat
    BY FS_CardinalityType DEF AnnouncedIsCounted
  <2>3. IsFiniteSet(announced') /\ Cardinality(announced') = Cardinality(announced) + 1
    BY <2>1, <2>2, FS_AddElement DEF AnnouncedIsCounted
  <2>4. \A a \in announced : a.id \in Nat /\ a.id < Cardinality(announced)
    BY DEF AnnouncedIsCounted, TypeOK
  <2>5. new.id = Cardinality(announced)
    OBVIOUS
  <2> HIDE DEF new
  <2>6. \A a \in announced' : a.id < Cardinality(announced) + 1
    BY <2>1, <2>2, <2>4, <2>5
  <2>7. QED BY <2>3, <2>6 DEF AnnouncedIsCounted
<1>2. CASE announced' = announced
  BY <1>2 DEF AnnouncedIsCounted
<1>3. ASSUME NEW w \in Workers, Start(w) \/ Collect(w) \/ (Dispatch(w) /\ ~Send(w))
      PROVE  announced' = announced
  BY <1>3 DEF Start, Collect, Dispatch, Ignore, Pass, Suppress, Accept, GiveUp, Record, Finish
<1>4. CASE Tick \/ Crash \/ UNCHANGED vars
  BY <1>2, <1>4 DEF Tick, Crash, vars
<1>5. QED BY <1>1, <1>2, <1>3, <1>4 DEF Next

\* What only reads the history, or adds to it, keeps the announcements behind
\* the rows; a worker comes to its row by way of Send.
LEMMA RowsStep ==
  ASSUME TypeOK, RowsWereAnnounced, RecordersAnnounced, NothingUrgentIsSilent, [Next]_vars
  PROVE  RowsWereAnnounced' /\ RecordersAnnounced' /\ NothingUrgentIsSilent'
<1> USE NotifyAssumption
<1> DEFINE Kept == UNCHANGED <<outbox, announced, handled>>
<1>1. CASE Tick \/ UNCHANGED vars
  BY <1>1 DEF Tick, vars, worker, RowsWereAnnounced, RecordersAnnounced, NothingUrgentIsSilent
<1>2. ASSUME NEW w \in Workers, Start(w) \/ Collect(w) \/ Accept(w) \/ Finish(w)
      PROVE  RowsWereAnnounced' /\ RecordersAnnounced' /\ NothingUrgentIsSilent'
  <2>1. Kept
    BY <1>2 DEF Start, Collect, Accept, Finish
  <2>2. \A v \in Workers : pc'[v] = "record" =>
          pc[v] = "record" /\ current'[v] = current[v] /\ started'[v] = started[v]
    BY <1>2 DEF Start, Collect, Accept, Finish, TypeOK
  <2>3. QED BY <2>1, <2>2 DEF RowsWereAnnounced, RecordersAnnounced, NothingUrgentIsSilent
<1>3. ASSUME NEW w \in Workers, NEW e \in todo[w], Done(w, e), UNCHANGED <<announced, started>>,
             handled' = handled \/
               (Handled(w, e) /\ (Notable(e) => \E a \in announced : a.event = e /\ a.at >= started[w] - Cooldown)),
             \A n \in outbox' : n \in outbox \/ \E a \in announced : a.event = n.key /\ a.at = n.at
      PROVE  RowsWereAnnounced' /\ RecordersAnnounced' /\ NothingUrgentIsSilent'
  <2>1. RowsWereAnnounced'
    BY <1>3 DEF RowsWereAnnounced
  <2>2. RecordersAnnounced'
    BY <1>3, DoneTypes DEF RecordersAnnounced
  <2>3. NothingUrgentIsSilent'
    BY <1>3 DEF NothingUrgentIsSilent, Handled
  <2>4. QED BY <2>1, <2>2, <2>3
<1>4. ASSUME NEW w \in Workers, Ignore(w) \/ Pass(w) \/ GiveUp(w)
      PROVE  RowsWereAnnounced' /\ RecordersAnnounced' /\ NothingUrgentIsSilent'
  BY <1>3, <1>4 DEF Ignore, Pass, GiveUp
<1>5. ASSUME NEW w \in Workers, Suppress(w)
      PROVE  RowsWereAnnounced' /\ RecordersAnnounced' /\ NothingUrgentIsSilent'
  <2>1. PICK e \in todo[w] : Notable(e) /\ Recent(Key(e), started[w]) /\ Done(w, e) /\ Handled(w, e)
    BY <1>5 DEF Suppress
  <2>2. PICK n \in outbox : n.key = e /\ n.at >= started[w] - Cooldown
    BY <2>1, KeyIsEvent DEF Recent, TypeOK
  <2>3. \E a \in announced : a.event = e /\ a.at >= started[w] - Cooldown
    BY <2>2 DEF RowsWereAnnounced
  <2>4. UNCHANGED <<outbox, announced, started>>
    BY <1>5 DEF Suppress
  <2>5. QED BY <1>3, <2>1, <2>3, <2>4
<1>6. ASSUME NEW w \in Workers, Send(w)
      PROVE  RowsWereAnnounced' /\ RecordersAnnounced' /\ NothingUrgentIsSilent'
  <2> DEFINE new == [id |-> Cardinality(announced), event |-> current[w], at |-> started[w]]
  <2>1. new \in announced' /\ new.event = current[w] /\ new.at = started[w]
    BY <1>6 DEF Send
  <2>2. announced \subseteq announced' /\ UNCHANGED <<outbox, handled, started, current>>
    BY <1>6 DEF Send
  <2>3. \A v \in Workers \ {w} : pc'[v] = pc[v]
    BY <1>6 DEF Send, TypeOK
  <2>4. QED BY <2>1, <2>2, <2>3 DEF RowsWereAnnounced, RecordersAnnounced, NothingUrgentIsSilent
<1>7. ASSUME NEW w \in Workers, Record(w)
      PROVE  RowsWereAnnounced' /\ RecordersAnnounced' /\ NothingUrgentIsSilent'
  <2>1. /\ current[w] \in todo[w] /\ current[w] \in Event /\ pc[w] = "record"
        /\ started[w] \in Nat
        /\ Done(w, current[w]) /\ Handled(w, current[w]) /\ UNCHANGED <<announced, started>>
    BY <1>7 DEF Record, TypeOK
  <2>2. PICK a \in announced : a.event = current[w] /\ a.at = started[w]
    BY <2>1 DEF RecordersAnnounced
  <2>3. \A n \in outbox' : n \in outbox \/ \E b \in announced : b.event = n.key /\ b.at = n.at
    BY <1>7, <2>1, <2>2, KeyIsEvent DEF Record
  <2>4. a.at >= started[w] - Cooldown
    BY <2>1, <2>2
  <2>5. QED BY <1>3, <2>1, <2>2, <2>3, <2>4
<1>8. CASE Crash
  <2>1. Kept /\ \A v \in Workers : pc'[v] = "idle"
    BY <1>8 DEF Crash
  <2>2. QED BY <2>1 DEF RowsWereAnnounced, RecordersAnnounced, NothingUrgentIsSilent
<1>9. QED BY <1>1, <1>2, <1>4, <1>5, <1>6, <1>7, <1>8 DEF Next, Dispatch

LEMMA AnnounceInvariant == Spec => []AnnounceInv
<1>1. Init => AnnounceInv
  BY TypesInit, FS_EmptySet DEF Init, AnnounceInv, AnnouncedIsCounted, RowsWereAnnounced, RecordersAnnounced,
       NothingUrgentIsSilent
<1>2. AnnounceInv /\ [Next]_vars => AnnounceInv'
  BY TypesStep, CountedStep, RowsStep DEF AnnounceInv
<1>3. QED BY <1>1, <1>2, PTL DEF Spec

\* The dispatcher's variables keep their types: above all, the event a worker
\* has in hand is one of its batch and worth announcing.
THEOREM DispatchTypeCorrect == Spec => []TypeOK
<1>1. AnnounceInv => TypeOK
  BY DEF AnnounceInv
<1>2. QED BY <1>1, AnnounceInvariant, PTL

\* Dispatch suppresses and filters, yet nothing urgent it handled is silent:
\* it was announced within the cooldown, whatever the workers, the failures
\* and the crashes.
THEOREM UrgentIsAnnounced == Spec => []NothingUrgentIsSilent
<1>1. AnnounceInv => NothingUrgentIsSilent
  BY DEF AnnounceInv
<1>2. QED BY <1>1, AnnounceInvariant, PTL

-----------------------------------------------------------------------------
(* The cooldown.                                                           *)

\* The three sets that are counted are finite.
LEMMA WindowSets ==
  ASSUME AnnouncedIsCounted, NEW e, NEW s
  PROVE  /\ IsFiniteSet(AnnouncedOf(e, s)) /\ Cardinality(AnnouncedOf(e, s)) \in Nat
         /\ IsFiniteSet(Sending(e, s)) /\ Cardinality(Sending(e, s)) \in Nat
         /\ IsFiniteSet(Recording(e, s)) /\ Cardinality(Recording(e, s)) \in Nat
         /\ Cardinality(Recording(e, s)) + Cardinality(Sending(e, s)) <= Cardinality(Workers)
         /\ Cardinality(Workers) \in Nat
<1>1. IsFiniteSet(AnnouncedOf(e, s))
  BY FS_Subset DEF AnnouncedIsCounted, AnnouncedOf
<1>2. /\ IsFiniteSet(Sending(e, s)) /\ Cardinality(Sending(e, s)) \in Nat
      /\ IsFiniteSet(Recording(e, s)) /\ Cardinality(Recording(e, s)) \in Nat
  BY SomeWorkers DEF Sending, Recording
<1>3. Recording(e, s) \cap Sending(e, s) = {}
  BY DEF Sending, Recording
<1>4. Cardinality(Recording(e, s) \cup Sending(e, s)) = Cardinality(Recording(e, s)) + Cardinality(Sending(e, s))
  BY <1>2, <1>3, FS_Union, FS_EmptySet
<1>5. Cardinality(Recording(e, s) \cup Sending(e, s)) <= Cardinality(Workers)
  BY SomeWorkers DEF Sending, Recording
<1>6. Cardinality(Workers) \in Nat
  BY SomeWorkers
<1>7. QED BY <1>1, <1>2, <1>4, <1>5, <1>6, FS_CardinalityType

\* A step that announces nothing, lets no worker begin to announce the
\* condition once the outbox knows it and none leave its row unwritten, keeps
\* the count.
LEMMA WindowFrame ==
  ASSUME AnnouncedIsCounted, NEW e, NEW s, WindowInv(e, s), lost \in Nat,
         UNCHANGED <<announced, lost>>,
         Recorded(e, s)' <=> Recorded(e, s),
         Recording(e, s)' = Recording(e, s),
         Recorded(e, s) => Sending(e, s)' \subseteq Sending(e, s)
  PROVE  WindowInv(e, s)'
<1>1. AnnouncedOf(e, s)' = AnnouncedOf(e, s)
  BY DEF AnnouncedOf, InWindow
<1>2. CASE ~Recorded(e, s)
  BY <1>1, <1>2 DEF WindowInv
<1>3. CASE Recorded(e, s)
  <2>1. Cardinality(Sending(e, s)') <= Cardinality(Sending(e, s)) /\ Cardinality(Sending(e, s)') \in Nat
    BY <1>3, WindowSets, FS_Subset, FS_CardinalityType
  <2>2. QED BY <1>1, <1>3, <2>1, WindowSets DEF WindowInv
<1>4. QED BY <1>2, <1>3

\* Once the outbox knows a condition, the question before announcing it finds
\* its row: the row is no older than the cooldown.
LEMMA KnownIsRecent ==
  ASSUME TypeOK, NEW w \in Workers, NEW e \in todo[w], NEW s \in Int, InWindow(s, started[w]), Recorded(e, s)
  PROVE  Recent(Key(e), started[w])
<1>1. PICK n \in outbox : n.key = e /\ n.at \in s..(s + Cooldown)
  BY DEF Recorded, InWindow
<1>2. n.at \in Int /\ started[w] \in Int /\ Cooldown \in Int
  BY NotifyAssumption DEF TypeOK
<1>3. n.at >= started[w] - Cooldown
  BY <1>1, <1>2 DEF InWindow
<1>4. Key(e) = e
  BY KeyIsEvent DEF TypeOK
<1>5. QED BY <1>1, <1>3, <1>4 DEF Recent

LEMMA WindowStep ==
  ASSUME TypeOK, AnnouncedIsCounted, [Next]_vars, NEW e \in Event, NEW s \in Int, WindowInv(e, s)
  PROVE  WindowInv(e, s)'
<1> USE NotifyAssumption
<1>0. lost \in Nat
  BY DEF TypeOK
<1>1. CASE Tick \/ UNCHANGED vars
  <2>1. UNCHANGED <<announced, outbox, pc, current, started, lost>>
    BY <1>1 DEF Tick, vars, worker
  <2>2. QED BY <1>0, <2>1, WindowFrame DEF Recorded, Recording, Sending, InWindow
<1>2. ASSUME NEW w \in Workers, pc[w] \in {"idle", "round", "next"}, pc'[w] \in {"idle", "round", "next"},
             \A v \in Workers \ {w} :
               pc'[v] = pc[v] /\ current'[v] = current[v] /\ started'[v] = started[v],
             UNCHANGED <<announced, outbox, lost>>
      PROVE  WindowInv(e, s)'
  <2>1. Recorded(e, s)' <=> Recorded(e, s)
    BY <1>2 DEF Recorded, InWindow
  <2>2. Sending(e, s)' = Sending(e, s) /\ Recording(e, s)' = Recording(e, s)
    BY <1>2 DEF Sending, Recording, InWindow
  <2>3. QED BY <1>0, <1>2, <2>1, <2>2, WindowFrame
<1>3. ASSUME NEW w \in Workers, Start(w) \/ Collect(w) \/ Finish(w)
      PROVE  WindowInv(e, s)'
  BY <1>2, <1>3 DEF Start, Collect, Finish, TypeOK
<1>4. ASSUME NEW w \in Workers, Ignore(w) \/ Pass(w) \/ Suppress(w) \/ GiveUp(w)
      PROVE  WindowInv(e, s)'
  <2>1. PICK f \in todo[w] : Done(w, f)
    BY <1>4 DEF Ignore, Pass, Suppress, GiveUp
  <2>2. pc[w] = "next" /\ UNCHANGED <<announced, outbox, lost, started>>
    BY <1>4 DEF Ignore, Pass, Suppress, GiveUp
  <2>3. QED BY <1>2, <2>1, <2>2, DoneTypes
<1>5. ASSUME NEW w \in Workers, Accept(w)
      PROVE  WindowInv(e, s)'
  <2>1. PICK f \in todo[w] : ~Recent(Key(f), started[w]) /\ current' = [current EXCEPT ![w] = f]
    BY <1>5 DEF Accept
  <2>2. /\ pc[w] = "next" /\ pc' = [pc EXCEPT ![w] = "send"]
        /\ UNCHANGED <<announced, outbox, lost, started>>
    BY <1>5 DEF Accept
  <2>3. Recorded(e, s)' <=> Recorded(e, s)
    BY <2>2 DEF Recorded, InWindow
  <2>4. Recording(e, s)' = Recording(e, s)
    BY <2>1, <2>2 DEF Recording, InWindow, TypeOK
  <2>5. ASSUME Recorded(e, s), NEW v \in Sending(e, s)'
        PROVE  v \in Sending(e, s)
    <3>1. CASE v = w
      <4>1. f = e /\ InWindow(s, started[w])
        BY <2>1, <2>2, <2>5, <3>1 DEF Sending, InWindow, TypeOK
      <4>2. QED BY <2>1, <2>5, <4>1, KnownIsRecent
    <3>2. CASE v # w
      BY <2>1, <2>2, <2>5, <3>2 DEF Sending, InWindow, TypeOK
    <3>3. QED BY <3>1, <3>2
  <2>6. QED BY <1>0, <2>2, <2>3, <2>4, <2>5, WindowFrame
<1>6. ASSUME NEW w \in Workers, Send(w)
      PROVE  WindowInv(e, s)'
  <2> DEFINE new == [id |-> Cardinality(announced), event |-> current[w], at |-> started[w]]
  <2>1. /\ pc[w] = "send" /\ pc' = [pc EXCEPT ![w] = "record"]
        /\ announced' = announced \cup {new}
        /\ UNCHANGED <<outbox, lost, started, current>>
    BY <1>6 DEF Send
  <2>2. Recorded(e, s)' <=> Recorded(e, s)
    BY <2>1 DEF Recorded, InWindow
  <2>3. CASE current[w] = e /\ InWindow(s, started[w])
    <3>1. Sending(e, s)' = Sending(e, s) \ {w} /\ w \in Sending(e, s)
      BY <2>1, <2>3 DEF Sending, InWindow, TypeOK
    <3>2. Recording(e, s)' = Recording(e, s) \cup {w} /\ w \notin Recording(e, s)
      BY <2>1, <2>3 DEF Recording, InWindow, TypeOK
    <3>3. AnnouncedOf(e, s)' \subseteq AnnouncedOf(e, s) \cup {new}
      BY <2>1 DEF AnnouncedOf, InWindow
    <3>4. /\ Cardinality(AnnouncedOf(e, s)') \in Nat
          /\ Cardinality(AnnouncedOf(e, s)') <= Cardinality(AnnouncedOf(e, s)) + 1
      <4> HIDE DEF new
      <4>1. IsFiniteSet(AnnouncedOf(e, s))
        BY WindowSets
      <4>2. ASSUME NEW T \in SUBSET (AnnouncedOf(e, s) \cup {new})
            PROVE  Cardinality(T) \in Nat /\ Cardinality(T) <= Cardinality(AnnouncedOf(e, s)) + 1
        BY <4>1, OneMore
      <4>3. QED BY <3>3, <4>2
    <3>5. Cardinality(Sending(e, s)') = Cardinality(Sending(e, s)) - 1
      BY <3>1, WindowSets, FS_RemoveElement
    <3>6. Cardinality(Recording(e, s)') = Cardinality(Recording(e, s)) + 1
      BY <3>2, WindowSets, FS_AddElement
    <3>7. QED BY <1>0, <2>1, <2>2, <3>4, <3>5, <3>6, WindowSets DEF WindowInv
  <2>4. CASE ~(current[w] = e /\ InWindow(s, started[w]))
    <3>1. Sending(e, s)' = Sending(e, s) /\ Recording(e, s)' = Recording(e, s)
      BY <2>1, <2>4 DEF Sending, Recording, InWindow, TypeOK
    <3>2. AnnouncedOf(e, s)' = AnnouncedOf(e, s)
      BY <2>1, <2>4 DEF AnnouncedOf, InWindow
    <3>3. QED BY <2>1, <2>2, <3>1, <3>2 DEF WindowInv
  <2>5. QED BY <2>3, <2>4
<1>7. ASSUME NEW w \in Workers, Record(w)
      PROVE  WindowInv(e, s)'
  <2> DEFINE row == [key |-> Key(current[w]), at |-> started[w]]
  <2>1. /\ pc[w] = "record" /\ current[w] \in todo[w]
        /\ Done(w, current[w]) /\ UNCHANGED <<announced, started>>
        /\ \/ outbox' = outbox \cup {row} /\ lost' = lost
           \/ outbox' = outbox /\ lost' = lost + 1
    <3>1. pc[w] = "record" /\ current[w] \in todo[w]
      BY <1>7 DEF Record, TypeOK
    <3>2. QED BY <1>7, <3>1 DEF Record
  <2>2. row.key = current[w] /\ row.at = started[w]
    BY <2>1, KeyIsEvent DEF TypeOK
  <2>3. AnnouncedOf(e, s)' = AnnouncedOf(e, s)
    BY <2>1 DEF AnnouncedOf, InWindow
  <2>4. Sending(e, s)' = Sending(e, s)
    BY <2>1, DoneTypes DEF Sending, InWindow
  <2>5. Recording(e, s)' = Recording(e, s) \ {w}
    BY <2>1, DoneTypes DEF Recording, InWindow
  <2>6. w \in Recording(e, s) <=> current[w] = e /\ InWindow(s, started[w])
    BY <2>1 DEF Recording
  <2>7. Cardinality(Recording(e, s)') = IF w \in Recording(e, s) THEN Cardinality(Recording(e, s)) - 1
                                        ELSE Cardinality(Recording(e, s))
    BY <2>5, WindowSets, FS_RemoveElement
  <2> HIDE DEF row
  <2>8. Recorded(e, s) => Recorded(e, s)'
    BY <2>1 DEF Recorded, InWindow
  <2>9. CASE outbox' = outbox /\ lost' = lost + 1
    <3>1. Recorded(e, s)' <=> Recorded(e, s)
      BY <2>9 DEF Recorded, InWindow
    <3>2. QED BY <1>0, <2>3, <2>4, <2>7, <2>9, <3>1, WindowSets DEF WindowInv
  <2>10. CASE outbox' = outbox \cup {row} /\ lost' = lost /\ w \in Recording(e, s)
    <3>1. Recorded(e, s)'
      BY <2>2, <2>6, <2>10 DEF Recorded, InWindow
    <3>2. QED BY <1>0, <2>3, <2>4, <2>10, <3>1, WindowSets DEF WindowInv
  <2>11. CASE outbox' = outbox \cup {row} /\ lost' = lost /\ w \notin Recording(e, s)
    <3>1. Recorded(e, s)' <=> Recorded(e, s)
      BY <2>2, <2>6, <2>11 DEF Recorded, InWindow
    <3>2. QED BY <2>3, <2>4, <2>7, <2>11, <3>1 DEF WindowInv
  <2>12. QED BY <2>1, <2>9, <2>10, <2>11
<1>8. CASE Crash
  <2>1. /\ UNCHANGED <<announced, outbox>>
        /\ lost' = lost + Cardinality({w \in Workers : pc[w] = "record"})
        /\ \A w \in Workers : pc'[w] = "idle"
    BY <1>8 DEF Crash
  <2>2. AnnouncedOf(e, s)' = AnnouncedOf(e, s) /\ (Recorded(e, s)' <=> Recorded(e, s))
    BY <2>1 DEF AnnouncedOf, Recorded, InWindow
  <2>3. Sending(e, s)' = {} /\ Recording(e, s)' = {}
    BY <2>1 DEF Sending, Recording
  <2>4. Cardinality(Sending(e, s)') = 0 /\ Cardinality(Recording(e, s)') = 0
    BY <2>3, FS_EmptySet
  <2>5. /\ Cardinality({w \in Workers : pc[w] = "record"}) \in Nat
        /\ Cardinality(Recording(e, s)) <= Cardinality({w \in Workers : pc[w] = "record"})
    BY SomeWorkers, FS_Subset DEF Recording
  <2>6. QED BY <1>0, <2>1, <2>2, <2>4, <2>5, WindowSets DEF WindowInv
<1>9. QED BY <1>1, <1>3, <1>4, <1>5, <1>6, <1>7, <1>8 DEF Next, Dispatch

\* The count of every condition in every cooldown gives the bound.
LEMMA WindowBound ==
  ASSUME AnnounceInv, \A e \in Event, s \in Int : WindowInv(e, s)
  PROVE  CooldownHolds
<1> SUFFICES ASSUME NEW a \in announced
             PROVE  Cardinality({b \in announced : b.event = a.event /\ b.at \in (a.at - Cooldown)..a.at})
                      <= Cardinality(Workers) + lost
  BY DEF CooldownHolds
<1> DEFINE e == a.event
           s == a.at - Cooldown
<1>1. e \in Event /\ s \in Int /\ s + Cooldown = a.at /\ lost \in Nat
  BY NotifyAssumption DEF AnnounceInv, TypeOK
<1>2. AnnouncedOf(e, s) = {b \in announced : b.event = a.event /\ b.at \in (a.at - Cooldown)..a.at}
  BY <1>1 DEF AnnouncedOf, InWindow
<1>3. WindowInv(e, s)
  BY <1>1
<1> HIDE DEF e, s
<1>4. Cardinality(AnnouncedOf(e, s)) <= Cardinality(Workers) + lost
  BY <1>1, <1>3, WindowSets DEF WindowInv, AnnounceInv
<1>5. QED BY <1>2, <1>4

\* Within a cooldown a condition is announced at most once per worker, plus
\* once for every row that was lost: for any number of rounds that overlap,
\* queries that fail and crashes, and for every length of the cooldown.
THEOREM CooldownIsKept == Spec => []CooldownHolds
<1> DEFINE Windows == \A e \in Event, s \in Int : WindowInv(e, s)
<1>1. Init => Windows
  <2> SUFFICES ASSUME Init, NEW e \in Event, NEW s \in Int
               PROVE  WindowInv(e, s)
    OBVIOUS
  <2>1. AnnouncedOf(e, s) = {} /\ ~Recorded(e, s) /\ Recording(e, s) = {} /\ lost = 0
    BY DEF Init, AnnouncedOf, Recorded, Recording
  <2>2. QED BY <2>1, FS_EmptySet DEF WindowInv
<1>2. AnnounceInv /\ Windows /\ [Next]_vars => Windows'
  BY WindowStep DEF AnnounceInv
<1>3. AnnounceInv /\ Windows => CooldownHolds
  BY WindowBound
<1> HIDE DEF Windows
<1>4. QED BY <1>1, <1>2, <1>3, AnnounceInvariant, PTL DEF Spec

-----------------------------------------------------------------------------
(* The log ring.  One that is not full begins at slot 0, which is why its  *)
(* entries are found by one copy, and the slots in use hold messages.      *)

\* The i-th oldest entry is in this slot.
Slot(i) == Wrap(start + i - 1)

InSlots == [i \in 1..count |-> entries[Slot(i)]]

Packed == LogTypeOK /\ (count < Capacity => start = 0)

RingInv == Packed /\ \A i \in 1..count : entries[Slot(i)] \in Messages

LEMMA WrapLow ==
  ASSUME NEW i \in 0..(Capacity - 1)
  PROVE  Wrap(i) = i
BY CapacityAssumption DEF Wrap

LEMMA WrapHigh ==
  ASSUME NEW i \in Capacity..(2 * Capacity - 1)
  PROVE  Wrap(i) = i - Capacity
BY CapacityAssumption DEF Wrap

LEMMA WrapSum ==
  ASSUME NEW s \in 0..(Capacity - 1), NEW i \in 1..Capacity
  PROVE  Wrap(s + i - 1) = IF s + i - 1 < Capacity THEN s + i - 1 ELSE s + i - 1 - Capacity
<1> USE CapacityAssumption
<1>1. CASE s + i - 1 < Capacity
  BY <1>1, WrapLow
<1>2. CASE ~(s + i - 1 < Capacity)
  BY <1>2, WrapHigh
<1>3. QED BY <1>1, <1>2

\* The two copies of Entries collect the slots in use, oldest first.
LEMMA EntriesAreSlots == Packed => Entries = InSlots
<1> DEFINE n == (IF start + count < Capacity THEN start + count ELSE Capacity) - start
<1> SUFFICES ASSUME Packed
             PROVE  Entries = InSlots
  OBVIOUS
<1> USE CapacityAssumption DEF Packed, LogTypeOK
<1>1. ASSUME NEW i \in 1..count, i <= n
      PROVE  Slot(i) = start + i - 1
  BY <1>1, WrapLow DEF Slot
<1>2. ASSUME NEW i \in 1..count, ~(i <= n)
      PROVE  Slot(i) = i - n - 1
  BY <1>2, WrapHigh DEF Slot
<1>3. QED BY <1>1, <1>2 DEF Entries, InSlots

\* While the ring fills up, a message goes behind the others.
LEMMA AddBelowCapacity ==
  ASSUME RingInv, NEW m \in Messages, Add(m), count < Capacity
  PROVE  RingInv' /\ InSlots' = Append(InSlots, m)
<1> USE CapacityAssumption
<1>1. start = 0 /\ start' = 0 /\ count' = count + 1 /\ count \in 0..(Capacity - 1)
  BY DEF RingInv, Packed, LogTypeOK, Add
<1>2. Wrap(start + count) = count
  BY <1>1, WrapLow
<1>3. entries' = [entries EXCEPT ![count] = m]
  BY <1>2 DEF Add
<1>4. Packed'
  BY <1>1, <1>3 DEF RingInv, Packed, LogTypeOK
<1>5. \A i \in 1..(count + 1) : Wrap(0 + i - 1) = i - 1
  BY <1>1, WrapLow
<1>6. \A i \in 1..count : Slot(i) = i - 1
  BY <1>1, <1>5 DEF Slot
<1>7. \A i \in 1..(count + 1) : Slot(i)' = i - 1
  BY <1>1, <1>5 DEF Slot
<1>8. \A i \in 1..(count + 1) : (entries[Slot(i)])' = IF i = count + 1 THEN m ELSE entries[Slot(i)]
  BY <1>1, <1>3, <1>6, <1>7 DEF RingInv, Packed, LogTypeOK
<1>9. (\A i \in 1..count : entries[Slot(i)] \in Messages)'
  BY <1>1, <1>8 DEF RingInv
<1>10. InSlots' = Append(InSlots, m)
  BY <1>1, <1>8 DEF InSlots
<1>11. QED BY <1>4, <1>9, <1>10 DEF RingInv

\* A full ring gives the slot of its oldest message to the newest.
LEMMA AddAtCapacity ==
  ASSUME RingInv, NEW m \in Messages, Add(m), ~(count < Capacity)
  PROVE  RingInv' /\ InSlots' = Tail(Append(InSlots, m))
<1> USE CapacityAssumption
<1>1. count = Capacity /\ count' = count /\ start \in 0..(Capacity - 1) /\ start' = Wrap(start + 1)
  BY DEF RingInv, Packed, LogTypeOK, Add
<1>2. Wrap(start + count) = start
  BY <1>1, WrapHigh
<1>3. entries' = [entries EXCEPT ![start] = m]
  BY <1>2 DEF Add
<1>4. start' = IF start = Capacity - 1 THEN 0 ELSE start + 1
  BY <1>1, WrapLow, WrapHigh
<1>5. Packed'
  BY <1>1, <1>3, <1>4 DEF RingInv, Packed, LogTypeOK
<1>6. \A i \in 1..Capacity : Slot(i) = IF start + i - 1 < Capacity THEN start + i - 1 ELSE start + i - 1 - Capacity
  BY <1>1, WrapLow, WrapHigh DEF Slot
<1>7. \A i \in 1..Capacity : Slot(i)' = IF i = Capacity THEN start ELSE Slot(i + 1)
  <2> SUFFICES ASSUME NEW i \in 1..Capacity
               PROVE  Slot(i)' = IF i = Capacity THEN start ELSE Slot(i + 1)
    OBVIOUS
  <2>1. start' \in 0..(Capacity - 1)
    BY <1>1, <1>4
  <2>2. Slot(i)' = IF start' + i - 1 < Capacity THEN start' + i - 1 ELSE start' + i - 1 - Capacity
    BY <2>1, WrapSum DEF Slot
  <2>3. QED BY <1>1, <1>4, <1>6, <2>2
<1>8. \A i \in 1..Capacity : (entries[Slot(i)])' = IF i = Capacity THEN m ELSE entries[Slot(i + 1)]
  BY <1>1, <1>3, <1>6, <1>7 DEF RingInv, Packed, LogTypeOK
<1>9. (\A i \in 1..count : entries[Slot(i)] \in Messages)'
  BY <1>1, <1>8 DEF RingInv
<1>10. InSlots' = Tail(Append(InSlots, m))
  BY <1>1, <1>8 DEF InSlots
<1>11. QED BY <1>5, <1>9, <1>10 DEF RingInv

-----------------------------------------------------------------------------
LEMMA RingInvInit == LogInit => RingInv
BY CapacityAssumption DEF LogInit, RingInv, Packed, LogTypeOK

LEMMA RingInvStep == RingInv /\ [LogNext]_logVars => RingInv'
<1> SUFFICES ASSUME RingInv, [LogNext]_logVars
             PROVE  RingInv'
  OBVIOUS
<1>1. ASSUME NEW m \in Messages, Add(m)
      PROVE  RingInv'
  BY <1>1, AddBelowCapacity, AddAtCapacity
<1>2. CASE UNCHANGED logVars
  BY <1>2 DEF logVars, RingInv, Packed, LogTypeOK, Slot, Wrap
<1>3. QED BY <1>1, <1>2 DEF LogNext

\* The ring's invariant holds always.
THEOREM RingInvAlways == LogSpec => []RingInv
BY RingInvInit, RingInvStep, PTL DEF LogSpec

\* Type correctness of the ring.
THEOREM LogTypeCorrect == LogSpec => []LogTypeOK
<1>1. RingInv => LogTypeOK
  BY DEF RingInv, Packed
<1>2. QED BY <1>1, RingInvAlways, PTL

LEMMA InvEntries == RingInv => Entries = InSlots /\ InSlots \in Seq(Messages) /\ Len(InSlots) = count
<1> SUFFICES ASSUME RingInv
             PROVE  Entries = InSlots /\ InSlots \in Seq(Messages) /\ Len(InSlots) = count
  OBVIOUS
<1>1. Entries = InSlots
  BY EntriesAreSlots DEF RingInv
<1>2. count \in Nat
  BY CapacityAssumption DEF RingInv, Packed, LogTypeOK
<1>3. InSlots \in Seq(Messages) /\ Len(InSlots) = count
  BY <1>2 DEF InSlots, RingInv
<1>4. QED BY <1>1, <1>3

\* Every line of the panel, at every moment, is a message that was logged.
THEOREM NoEmptyLineEver == LogSpec => []NoEmptyLine
<1>1. RingInv => NoEmptyLine
  <2> SUFFICES ASSUME RingInv, NEW i \in 1..count
               PROVE  LogPage[i] \in Messages
    BY DEF NoEmptyLine
  <2>1. count \in Nat
    BY CapacityAssumption DEF RingInv, Packed, LogTypeOK
  <2>2. LogPage[i] = InSlots[count - i + 1] /\ count - i + 1 \in 1..count
    BY <2>1, InvEntries DEF LogPage
  <2>3. QED BY <2>1, <2>2 DEF InSlots, RingInv
<1>2. QED BY <1>1, RingInvAlways, PTL

\* The ring, for every capacity, implements the queue of the newest messages:
\* it starts as the empty queue and every Add is a step of the queue.
THEOREM RingImplementsRecentLog == LogSpec => RingIsRecentLog
<1>1. LogInit => Queue!Init
  <2> SUFFICES ASSUME LogInit
               PROVE  Entries = <<>>
    BY DEF Queue!Init
  <2>1. RingInv
    BY RingInvInit
  <2>2. Entries = InSlots /\ count = 0
    BY <2>1, InvEntries DEF LogInit
  <2>3. QED BY <2>2 DEF InSlots
<1>2. RingInv /\ RingInv' /\ [LogNext]_logVars => [Queue!Next]_(Entries)
  <2> SUFFICES ASSUME RingInv, RingInv', [LogNext]_logVars
               PROVE  Queue!Next \/ UNCHANGED Entries
    OBVIOUS
  <2>1. (RingInv => Entries = InSlots /\ InSlots \in Seq(Messages) /\ Len(InSlots) = count)'
    BY InvEntries, PTL
  <2>2. Entries = InSlots /\ InSlots \in Seq(Messages) /\ Len(InSlots) = count /\ Entries' = InSlots'
    BY <2>1, InvEntries
  <2>3. ASSUME NEW m \in Messages, Add(m)
        PROVE  Queue!Next
    <3>1. count \in Nat /\ count <= Capacity /\ Len(Append(InSlots, m)) = count + 1
      BY <2>2, CapacityAssumption DEF RingInv, Packed, LogTypeOK
    <3>2. InSlots' = Queue!NewestOf(Append(InSlots, m))
      BY <2>3, <3>1, AddBelowCapacity, AddAtCapacity, CapacityAssumption DEF Queue!NewestOf
    <3>3. QED BY <2>2, <3>2 DEF Queue!Next
  <2>4. CASE UNCHANGED logVars
    BY <2>4 DEF logVars, Entries
  <2>5. QED BY <2>3, <2>4 DEF LogNext
<1>3. QED BY <1>1, <1>2, RingInvAlways, PTL DEF LogSpec, RingIsRecentLog, Queue!Spec
=============================================================================
