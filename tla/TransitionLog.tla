--------------------------- MODULE TransitionLog ---------------------------
(***************************************************************************)
(* What the store promises about tunnel status, apart from how it is       *)
(* written: `tunnels` holds the status of every monitored tunnel and       *)
(* `history` one row per observed transition.  A snapshot of the account   *)
(* is compared with the table and committed with its rows in ONE step, and *)
(* snapshots arrive in the order of their timestamps.                      *)
(*                                                                         *)
(* The uptime figures, the heartbeat bars and the status timeline are all  *)
(* computed from `history` alone, the current status from `tunnels`: they  *)
(* tell one story only while the invariants below hold.                    *)
(***************************************************************************)
EXTENDS Integers

CONSTANTS
  Tunnels,   \* tunnel identifiers
  Statuses,  \* the status values Cloudflare reports
  None,      \* no row; also the empty from_status of a first observation
  Times      \* timestamps, in seconds: natural numbers

VARIABLES
  tunnels,   \* table tunnels: tunnel -> status, None where there is no row
  history,   \* table tunnel_status_history, as a set of rows
  commits    \* number of transactions that wrote history rows

vars == <<tunnels, history, commits>>

\* Rows are ordered as every query orders them: by changed_at, then by id.
\* The rows of one transaction belong to different tunnels, so the number of
\* the transaction stands for the autoincremented id.
Row == [seq: Nat, tunnel: Tunnels, from: Statuses \cup {None},
        status: Statuses, at: Nat]

Precedes(r, s) == r.at < s.at \/ (r.at = s.at /\ r.seq < s.seq)

Latest(r) == \A s \in history : s.tunnel = r.tunnel /\ s # r => Precedes(s, r)

\* Mutations of Changed: a row per poll, no row for a new tunnel.
ChangedEveryPoll(before, after) == {t \in Tunnels : after[t] # None}
ChangedKnownOnly(before, after) == {t \in Tunnels : before[t] # None /\ after[t] \notin {None, before[t]}}

\* The tunnels of a snapshot whose status differs from the one it is compared
\* with, a tunnel not known before included.
Changed(before, after) == {t \in Tunnels : after[t] # None /\ after[t] # before[t]}

RowsOf(before, after, at) ==
  {[seq |-> commits + 1, tunnel |-> t, from |-> before[t],
    status |-> after[t], at |-> at] : t \in Changed(before, after)}

AppendRows(rows) ==
  /\ history' = history \cup rows
  /\ commits' = IF rows = {} THEN commits ELSE commits + 1

-----------------------------------------------------------------------------
Init ==
  /\ tunnels = [t \in Tunnels |-> None]
  /\ history = {}
  /\ commits = 0

Observe(snapshot, at) ==
  /\ \A r \in history : r.at <= at
  /\ tunnels' = snapshot
  /\ AppendRows(RowsOf(tunnels, snapshot, at))

\* Mutation of Prune: the comparison the wrong way round.
PruneNewer(cutoff) ==
  /\ history' = {r \in history : r.at < cutoff}
  /\ UNCHANGED <<tunnels, commits>>

Prune(cutoff) ==
  /\ history' = {r \in history : r.at >= cutoff}
  /\ UNCHANGED <<tunnels, commits>>

Next ==
  \/ \E snapshot \in [Tunnels -> Statuses \cup {None}], at \in Times : Observe(snapshot, at)
  \/ \E cutoff \in Times : Prune(cutoff)

Spec == Init /\ [][Next]_vars

-----------------------------------------------------------------------------
TypeOK ==
  /\ tunnels \in [Tunnels -> Statuses \cup {None}]
  /\ history \subseteq Row
  /\ commits \in Nat

\* The stored status of a tunnel is the status of its newest history row: the
\* badge and the uptime bar next to it never disagree.
Agreement ==
  \A r \in history : Latest(r) => tunnels[r.tunnel] \in {None, r.status}

\* A row is a transition: it leaves the status the row before it entered, or
\* is the first observation of a tunnel that had no row in `tunnels`.
Transitions ==
  /\ \A r \in history : r.from # r.status
  /\ \A r, s \in history :
       /\ r.tunnel = s.tunnel
       /\ Precedes(r, s)
       /\ \A q \in history : q.tunnel = r.tunnel => ~(Precedes(r, q) /\ Precedes(q, s))
       => s.from \in {None, r.status}
=============================================================================
