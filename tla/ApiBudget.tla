----------------------------- MODULE ApiBudget -----------------------------
(***************************************************************************)
(* The budget guard and the retry loop of the Cloudflare client            *)
(* (Client.send), shared by every goroutine that talks to the API.         *)
(*                                                                         *)
(* A call reads the recorded quota ONCE, sends up to MaxAttempts requests  *)
(* and records what each answer advertises, all under a lock that is not   *)
(* held in between: answers of concurrent calls arrive in any order, and a *)
(* retry does not look at the record again.  REST and GraphQL calls draw   *)
(* on separate quotas.                                                     *)
(***************************************************************************)
EXTENDS Integers, FiniteSets

CONSTANTS
  Callers,      \* goroutines with a call to make
  Quotas,       \* the REST and the GraphQL quota
  Capacity,     \* requests a quota grants per window
  Reserve,      \* budgetReserve, graphQLBudgetReserve
  MaxAttempts,  \* maxAttempts
  Window,       \* length of a quota window and of a block: five minutes
  MaxMishaps,   \* bound: answers lost or without headers, contexts cancelled
  MaxOthers,    \* bound: requests of the other users of the quota
  MaxClock      \* bound: ticks of the clock

ASSUME BudgetAssumption ==
  /\ IsFiniteSet(Callers) /\ Quotas # {}
  /\ Capacity \in [Quotas -> Nat] /\ Reserve \in [Quotas -> Nat]
  /\ MaxAttempts \in Nat \ {0} /\ Window \in Nat \ {0}
  /\ MaxMishaps \in Nat /\ MaxOthers \in Nat /\ MaxClock \in Nat

VARIABLES
  clock, mishaps, others,
  left,        \* Cloudflare: requests left in the window
  resets,      \* Cloudflare: end of the window, or of the block
  rate,        \* Client.rate and Client.graphQLRate
  pc, call, reply,
  overdrawn,   \* history: requests of this window granted out of the reserve
  refused,     \* history: requests of this window answered with 429
  blockedUntil \* history: end of the last block an answer announced

service == <<left, resets, overdrawn, refused>>
vars == <<clock, mishaps, others, service, rate, pc, call, reply, blockedUntil>>

\* The fields of RateLimit the guard reads.
Unknown == [known |-> FALSE, remaining |-> 0, resetAt |-> 0]
Rate == [known: BOOLEAN, remaining: Nat, resetAt: Nat]

\* "error" is a 5xx answer or an unreadable body, "final" any other answer but
\* a 429.  An answer without headers carries no numbers.
NoReply == [status |-> "none", headers |-> FALSE, remaining |-> 0, resetIn |-> 0]
Reply == [status: {"none", "final", "error", "blocked"}, headers: BOOLEAN,
          remaining: Nat, resetIn: Nat]
NoCall == [quota |-> CHOOSE q \in Quotas : TRUE, attempt |-> 0]

-----------------------------------------------------------------------------
(* The clock, Cloudflare, and the other users of the token: Terraform and  *)
(* the dashboard.                                                          *)

Tick ==
  LET over == {q \in Quotas : resets[q] <= clock + 1} IN
  /\ clock < MaxClock
  /\ clock' = clock + 1
  /\ left' = [q \in Quotas |-> IF q \in over THEN Capacity[q] ELSE left[q]]
  /\ resets' = [q \in Quotas |-> IF q \in over THEN clock + 1 + Window ELSE resets[q]]
  /\ overdrawn' = [q \in Quotas |-> IF q \in over THEN 0 ELSE overdrawn[q]]
  /\ refused' = [q \in Quotas |-> IF q \in over THEN 0 ELSE refused[q]]
  /\ UNCHANGED <<mishaps, others, rate, pc, call, reply, blockedUntil>>

OtherUser(q) ==
  /\ others < MaxOthers
  /\ left[q] > 0
  /\ others' = others + 1
  /\ left' = [left EXCEPT ![q] = @ - 1]
  /\ UNCHANGED <<clock, mishaps, resets, overdrawn, refused, rate, pc, call, reply, blockedUntil>>

\* Cloudflare answers a request: from the quota, or with a 429 that blocks it
\* for a full window from the first one on.
Answers(q) ==
  LET blocks == left[q] = 0
      ends == IF blocks /\ refused[q] = 0 THEN clock + Window ELSE resets[q]
      rest == IF blocks THEN 0 ELSE left[q] - 1
  IN
  /\ left' = [left EXCEPT ![q] = rest]
  /\ resets' = [resets EXCEPT ![q] = ends]
  /\ overdrawn' = [overdrawn EXCEPT ![q] = IF left[q] \in 1..Reserve[q] THEN @ + 1 ELSE @]
  /\ refused' = [refused EXCEPT ![q] = IF blocks THEN @ + 1 ELSE @]

\* The policies an answer lists: one of the token, that never binds, and the
\* quota's.
Header(q) == <<[remaining |-> Capacity[q] + 1, resetIn |-> Window + 1],
               [remaining |-> left'[q], resetIn |-> resets'[q] - clock]>>

\* parseRateLimitHeader: the first of the policies that leave the least.
Tightest(policies) ==
  LET before(i, j) == policies[i].remaining < policies[j].remaining
                        \/ (policies[i].remaining = policies[j].remaining /\ i <= j)
  IN policies[CHOOSE i \in DOMAIN policies : \A j \in DOMAIN policies : before(i, j)]

Answer(q, status, headers) ==
  LET quota == IF headers THEN Tightest(Header(q)) ELSE [remaining |-> 0, resetIn |-> 0]
  IN [status |-> status, headers |-> headers,
      remaining |-> quota.remaining, resetIn |-> quota.resetIn]

-----------------------------------------------------------------------------
(* Client.send.                                                            *)

\* Mutation of Open: the guard leaves nothing in hand.
OpenToTheLast(q) ==
  ~rate[q].known \/ clock > rate[q].resetAt \/ rate[q].remaining > 0

\* checkBudget: nothing known, the window over, or more left than the reserve.
Open(q) ==
  ~rate[q].known \/ clock > rate[q].resetAt \/ rate[q].remaining > Reserve[q]

\* The guard refuses the call with an error, and nothing has changed.
Refuse(c, q) == pc[c] = "idle" /\ ~Open(q) /\ UNCHANGED vars

Check(c, q) ==
  /\ pc[c] = "idle"
  /\ Open(q)
  /\ pc' = [pc EXCEPT ![c] = "send"]
  /\ call' = [call EXCEPT ![c] = [quota |-> q, attempt |-> 1]]
  /\ UNCHANGED <<clock, mishaps, others, service, rate, reply, blockedUntil>>

\* The wait before a retry is the time a caller may spend here.
Send(c) ==
  LET q == call[c].quota IN
  /\ pc[c] = "send"
  /\ pc' = [pc EXCEPT ![c] = "answer"]
  /\ Answers(q)
  /\ \E status \in IF left[q] = 0 THEN {"blocked"} ELSE {"final", "error"}, headers \in BOOLEAN :
       /\ reply' = [reply EXCEPT ![c] = Answer(q, status, headers)]
       /\ IF headers \/ status = "blocked"
          THEN UNCHANGED mishaps
          ELSE mishaps < MaxMishaps /\ mishaps' = mishaps + 1
  /\ UNCHANGED <<clock, others, rate, call, blockedUntil>>

\* recordRateLimit: a 429 without Retry-After blocks for the default time.
Recorded(old, answer) ==
  CASE answer.status = "blocked" ->
         [known |-> TRUE, remaining |-> 0,
          resetAt |-> clock + IF answer.headers THEN answer.resetIn ELSE Window]
    [] answer.status # "blocked" /\ answer.headers ->
         [known |-> TRUE, remaining |-> answer.remaining, resetAt |-> clock + answer.resetIn]
    [] OTHER -> old

\* The record an answer belongs to: the one of the quota the call draws on.
Drawn(c) == call[c].quota

End(c) ==
  /\ pc' = [pc EXCEPT ![c] = "idle"]
  /\ call' = [call EXCEPT ![c] = NoCall]

\* Mutation of Retryable: a 429 is tried again.
RetryableRefusal(status) == status \in {"error", "lost", "blocked"}

\* retryable, for an answer or, in its absence, a connection that was "lost".
Retryable(status) == status \in {"error", "lost"}

\* What the loop does after an attempt: another one, or the end of the call.
\* The wait before it is the time a caller spends before its next Send.
Continue(c, status) ==
  IF Retryable(status) /\ call[c].attempt < MaxAttempts
  THEN /\ pc' = [pc EXCEPT ![c] = "send"]
       /\ call' = [call EXCEPT ![c].attempt = @ + 1]
  ELSE End(c)

Receive(c) ==
  LET q == Drawn(c) answer == reply[c] IN
  /\ pc[c] = "answer"
  /\ rate' = [rate EXCEPT ![q] = Recorded(@, answer)]
  /\ blockedUntil' = [blockedUntil EXCEPT ![q] =
       IF answer.status = "blocked" THEN rate'[q].resetAt ELSE @]
  /\ reply' = [reply EXCEPT ![c] = NoReply]
  /\ Continue(c, answer.status)
  /\ UNCHANGED <<clock, mishaps, others, service>>

\* The answer never arrives: the connection broke, which is tried again, or the
\* caller's context ended, which is not.
Lose(c) ==
  /\ pc[c] = "answer"
  /\ mishaps < MaxMishaps
  /\ mishaps' = mishaps + 1
  /\ reply' = [reply EXCEPT ![c] = NoReply]
  /\ Continue(c, "lost") \/ End(c)
  /\ UNCHANGED <<clock, others, service, rate, blockedUntil>>

\* The context ends while the caller waits for its next attempt.
Cancel(c) ==
  /\ pc[c] = "send" /\ call[c].attempt > 1
  /\ mishaps < MaxMishaps
  /\ mishaps' = mishaps + 1
  /\ End(c)
  /\ UNCHANGED <<clock, others, service, rate, reply, blockedUntil>>

-----------------------------------------------------------------------------
\* A fresh client; the account may have been used before.
Init ==
  /\ clock = 0 /\ mishaps = 0 /\ others = 0
  /\ left \in {l \in [Quotas -> UNION {0..Capacity[q] : q \in Quotas}] :
                 \A q \in Quotas : l[q] <= Capacity[q]}
  /\ resets \in [Quotas -> 1..Window]
  /\ rate = [q \in Quotas |-> Unknown]
  /\ pc = [c \in Callers |-> "idle"]
  /\ call = [c \in Callers |-> NoCall]
  /\ reply = [c \in Callers |-> NoReply]
  /\ overdrawn = [q \in Quotas |-> 0] /\ refused = [q \in Quotas |-> 0]
  /\ blockedUntil = [q \in Quotas |-> 0]

Attempt(c) == Send(c) \/ Receive(c) \/ Lose(c) \/ Cancel(c)

Next ==
  \/ Tick
  \/ \E q \in Quotas : OtherUser(q)
  \/ \E c \in Callers : Attempt(c) \/ \E q \in Quotas : Check(c, q) \/ Refuse(c, q)

Spec == Init /\ [][Next]_vars

-----------------------------------------------------------------------------
\* Every variable holds a value of its declared kind, a call never makes more
\* than MaxAttempts attempts, and no answer is kept that nobody waits for.
TypeOK ==
  /\ clock \in 0..MaxClock /\ mishaps \in 0..MaxMishaps /\ others \in 0..MaxOthers
  /\ \A q \in Quotas : left[q] \in 0..Capacity[q]
  /\ resets \in [Quotas -> 1..MaxClock + Window]
  /\ rate \in [Quotas -> Rate]
  /\ pc \in [Callers -> {"idle", "send", "answer"}]
  /\ call \in [Callers -> [quota: Quotas, attempt: 0..MaxAttempts]]
  /\ reply \in [Callers -> Reply]
  /\ overdrawn \in [Quotas -> Nat] /\ refused \in [Quotas -> Nat]
  /\ blockedUntil \in [Quotas -> Nat]
  /\ \A c \in Callers : pc[c] # "answer" => reply[c] = NoReply

\* How many calls pass the guard although the reserve is reached.  Only an
\* answer sent before it was can reopen the guard, and every caller waits for
\* one at most; the k-th of them to be recorded finds k callers ready to call,
\* and each of these closes the guard again with the first answer it gets.
Openings == (Cardinality(Callers) * (Cardinality(Callers) + 1)) \div 2

\* "refuses to send once a reserve of 100 requests is left" (architecture.md),
\* made exact: what a window's calls take out of the reserve is bounded by the
\* number of callers, the attempts of a call and the answers that were lost.
\* What is refused does not count here: the first 429 moves the end of the
\* window, so that a low record can expire before it.
ReserveHolds ==
  \A q \in Quotas : overdrawn[q] <= MaxAttempts * Openings + mishaps

\* "A 429 is never retried": so a block is run into once per opening, however
\* many attempts a call has.
BlockIsRespected == \A q \in Quotas : refused[q] <= Openings + mishaps

\* "the five-minute block is recorded and subsequent calls short-circuit until
\* it expires" (architecture.md): no call passes the guard during a block.
BlockHolds ==
  [][\A c \in Callers, q \in Quotas : Check(c, q) => clock >= blockedUntil[q]]_vars
=============================================================================
