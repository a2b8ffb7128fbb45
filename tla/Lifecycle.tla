----------------------------- MODULE Lifecycle -----------------------------
(***************************************************************************)
(* The life of the process after its start (main.run): the background      *)
(* loops, the rounds the two refresh buttons start on contexts of their    *)
(* own, and the shutdown, which a signal or a failed listener begins.      *)
(* What a round does is the subject of other modules; here it only takes   *)
(* time and uses the store.                                                *)
(***************************************************************************)
EXTENDS FiniteSets, Integers

CONSTANTS
  PollLoop, OtherLoops,  \* Collector.Run, and the loops without a trigger
  Buttons,               \* handleRefresh and handleRefreshAll
  ManualInterval,        \* shortest spacing of the rounds of a button
  RoundTimeout,          \* refreshTimeout, refreshAllTimeout
  ShutdownTimeout,       \* what http.Server.Shutdown waits for
  MaxTime                \* bound: ticks of the clock

ASSUME TimeAssumption ==
  ManualInterval \in Nat \ {0} /\ RoundTimeout \in Nat /\ ShutdownTimeout \in Nat

VARIABLES
  mainPc,     \* where run() is
  canceled,   \* the context of the loops is done
  loops,      \* what each loop does
  trigger,    \* the channel Collector.trigger, of capacity 1
  manual,     \* the running manual rounds: when each began
  lastManual, \* throttle.last of each button
  time,       \* monotonic time
  shutdownAt  \* when Shutdown was called

lifeVars == <<mainPc, canceled, loops, trigger, manual, lastManual, time, shutdownAt>>

Loops == {PollLoop} \cup OtherLoops
Never == -1

LifeInit ==
  /\ mainPc = "serving" /\ canceled = FALSE
  /\ loops = [l \in Loops |-> "working"]     \* every loop starts with a round
  /\ trigger = FALSE
  /\ manual = [b \in Buttons |-> {}]
  /\ lastManual = [b \in Buttons |-> Never]
  /\ time = 0 /\ shutdownAt = Never

Alive == mainPc # "exited"

\* Time passes, but a round does not outlive its deadline and Shutdown does
\* not wait longer than its own.
TimePasses ==
  /\ Alive /\ time < MaxTime
  /\ \A b \in Buttons : \A begun \in manual[b] : time < begun + RoundTimeout
  /\ mainPc = "shutdown" => time < shutdownAt + ShutdownTimeout
  /\ time' = time + 1
  /\ UNCHANGED <<mainPc, canceled, loops, trigger, manual, lastManual, shutdownAt>>

-----------------------------------------------------------------------------
(* The loops. *)

Moves(l, from, to) ==
  /\ Alive
  /\ loops[l] = from
  /\ loops' = [loops EXCEPT ![l] = to]
  /\ UNCHANGED <<mainPc, canceled, manual, lastManual, time, shutdownAt>>

RoundDone(l) == Moves(l, "working", "waiting") /\ UNCHANGED trigger

\* A ticker may be picked although the context is done as well: select chooses
\* among the ready cases at random.
TickerFires(l) ==
  Moves(l, "waiting", IF l = PollLoop THEN "jitter" ELSE "working") /\ UNCHANGED trigger

TriggerReceived ==
  /\ trigger
  /\ Moves(PollLoop, "waiting", "working")
  /\ trigger' = FALSE

JitterOver == Moves(PollLoop, "jitter", "working") /\ UNCHANGED trigger

LoopReturns(l) ==
  /\ canceled
  /\ Moves(l, "waiting", "done") \/ Moves(l, "jitter", "done")
  /\ UNCHANGED trigger

\* Trigger never blocks: a second request before the poll is the same request.
Trigger ==
  /\ mainPc = "serving" /\ ~trigger
  /\ trigger' = TRUE
  /\ UNCHANGED <<mainPc, canceled, loops, manual, lastManual, time, shutdownAt>>

-----------------------------------------------------------------------------
(* The refresh buttons. *)

\* throttle.reserve.
MayReserve(b) == lastManual[b] = Never \/ time - lastManual[b] >= ManualInterval

\* Mutation of Reserved: only the first round is remembered.
ReservedFirst(b) == [lastManual EXCEPT ![b] = IF @ = Never THEN time ELSE @]

Reserved(b) == [lastManual EXCEPT ![b] = time]

\* A refused click changes nothing.  An accepted one runs its round on a
\* context detached from the request, with a deadline.
Click(b) ==
  /\ mainPc = "serving" /\ MayReserve(b)
  /\ lastManual' = Reserved(b)
  /\ manual' = [manual EXCEPT ![b] = @ \cup {time}]
  /\ UNCHANGED <<mainPc, canceled, loops, trigger, time, shutdownAt>>

ManualRoundEnds(b) ==
  /\ Alive
  /\ \E begun \in manual[b] : manual' = [manual EXCEPT ![b] = @ \ {begun}]
  /\ UNCHANGED <<mainPc, canceled, loops, trigger, lastManual, time, shutdownAt>>

-----------------------------------------------------------------------------
(* Shutdown. *)

Leave(to) == mainPc' = to /\ UNCHANGED <<loops, trigger, manual, lastManual, time>>

\* SIGINT or SIGTERM.
Signal ==
  /\ mainPc = "serving"
  /\ canceled' = TRUE
  /\ shutdownAt' = time
  /\ Leave("shutdown")

\* ListenAndServe returns an error: the context is not done yet.
ListenFails ==
  /\ mainPc = "serving"
  /\ shutdownAt' = time
  /\ UNCHANGED canceled
  /\ Leave("shutdown")

NoManualRound == \A b \in Buttons : manual[b] = {}

\* Mutation of Stop: the context is left to the deferred stop().
StopDeferred == canceled' = canceled

\* stop(), before the loops are waited for.
Stop == canceled' = TRUE

\* Shutdown returns once no request is served any more, or at its deadline.
ShutdownReturns ==
  /\ mainPc = "shutdown"
  /\ NoManualRound \/ time >= shutdownAt + ShutdownTimeout
  /\ Stop
  /\ UNCHANGED shutdownAt
  /\ Leave("waiting")

\* Mutation of LoopsDone: only the collector's own loop is waited for.
PollLoopDone == loops[PollLoop] = "done"

\* wg.Wait.
LoopsDone == \A l \in Loops : loops[l] = "done"

\* The deferred Close of the store.
CloseStore ==
  /\ mainPc = "waiting" /\ LoopsDone
  /\ UNCHANGED <<canceled, shutdownAt>>
  /\ Leave("closed")

\* The process ends with whatever still runs.
Exit ==
  /\ mainPc = "closed"
  /\ UNCHANGED <<canceled, shutdownAt>>
  /\ Leave("exited")

LoopStep(l) == RoundDone(l) \/ TickerFires(l) \/ LoopReturns(l)

LifeNext ==
  \/ TimePasses
  \/ \E l \in Loops : LoopStep(l)
  \/ TriggerReceived \/ JitterOver \/ Trigger
  \/ \E b \in Buttons : Click(b) \/ ManualRoundEnds(b)
  \/ Signal \/ ListenFails \/ ShutdownReturns \/ CloseStore \/ Exit

LifeSpec == LifeInit /\ [][LifeNext]_lifeVars

\* A round ends, as the API and the database answer or the context does; a
\* loop whose context is done returns sooner or later, as select picks among
\* the ready cases at random; and main goes on when it can.
LifeFairness ==
  /\ \A l \in Loops : WF_lifeVars(RoundDone(l)) /\ SF_lifeVars(LoopReturns(l))
  /\ WF_lifeVars(JitterOver)
  /\ \A b \in Buttons : WF_lifeVars(ManualRoundEnds(b))
  /\ WF_lifeVars(ShutdownReturns) /\ WF_lifeVars(CloseStore) /\ WF_lifeVars(Exit)

-----------------------------------------------------------------------------
\* No loop uses the store after it was closed; a manual round may, but only
\* one that Shutdown waited for until its deadline.
StoreClosedLast ==
  mainPc \in {"closed", "exited"} =>
    /\ \A l \in Loops : loops[l] = "done"
    /\ NoManualRound \/ time >= shutdownAt + ShutdownTimeout

\* "Neither endpoint is authenticated, and one collection cycle costs a
\* Cloudflare request per tunnel": however often a button is pressed, no more
\* of its rounds run beside each other than fit into a round's deadline at the
\* spacing of the throttle.
ManualRoundsAreFew ==
  \A b \in Buttons : (Cardinality(manual[b]) - 1) * ManualInterval <= RoundTimeout

\* A signal, and a listener that fails, end the process whatever the loops and
\* the manual rounds are doing.
ProcessExits == mainPc = "shutdown" ~> mainPc = "exited"
=============================================================================
