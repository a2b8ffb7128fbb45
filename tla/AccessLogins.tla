---------------------------- MODULE AccessLogins ----------------------------
(***************************************************************************)
(* The summary of the Access authentication log (CollectAccessLogins): one *)
(* row per application, replaced as a whole.  The hourly loop and "refresh *)
(* all" collect on goroutines of their own while logins keep coming in.    *)
(***************************************************************************)
EXTENDS FiniteSetsExt, Naturals, Sequences

CONSTANTS
  Logins,          \* authentication events: records [domain, allowed, user]
  Collectors,      \* goroutines that may run CollectAccessLogins
  MaxLogEntries,   \* maxAccessLogEntries: what one call returns
  MaxLogins,       \* bound: events logged
  MaxSummaries,    \* bound: collections begun
  MaxLoginFailures \* bound: failed calls and transactions

ASSUME LoginAssumption ==
  /\ \A l \in Logins : l.allowed \in BOOLEAN
  /\ MaxLogEntries \in Nat

VARIABLES
  authLog,         \* the audit log of the account, oldest first
  windowStart,     \* events up to this one are older than the window
  logins,          \* the table access_logins
  collecting,      \* collectors between the list and the write
  listed,          \* the events each of them was given
  listedAt,        \* history: the log and the window when each listed,
  storedAt,        \* and when the writer of the table had listed
  summaries, loginFailures

loginVars == <<authLog, windowStart, logins, collecting, listed, listedAt, storedAt,
               summaries, loginFailures>>

\* A domain is <<host, path>>; events without one are left out.
NoDomain == ""
HostOf(login) == login.domain[1]

\* summarizeLogins: `numbered` are events with their place in the log, which
\* stands for their time.
Count(events) == Cardinality(events)
Users(events) == {e.login.user : e \in events} \ {""}

\* Mutation of UsersOf: events are counted, not users.
UsersOfEvents(events) == Count({e \in events : e.login.user # ""})

UsersOf(events) == Count(Users(events))

SummaryOf(host, events) ==
  [host |-> host,
   allowed |-> Count({e \in events : e.login.allowed}),
   denied |-> Count({e \in events : ~e.login.allowed}),
   users |-> UsersOf(events),
   lastAt |-> Max({e.at : e \in events})]

SummarizeLogins(numbered) ==
  LET named == {e \in numbered : HostOf(e.login) # NoDomain}
  IN {SummaryOf(h, {e \in named : HostOf(e.login) = h}) : h \in {HostOf(e.login) : e \in named}}

\* What ListAccessRequests returns: the newest events of the window.
Newest ==
  {[at |-> i, login |-> authLog[i]] :
     i \in {j \in DOMAIN authLog : j > windowStart /\ j > Len(authLog) - MaxLogEntries}}

LoginInit ==
  /\ authLog = <<>> /\ windowStart = 0 /\ logins = {}
  /\ collecting = {} /\ listed = [c \in Collectors |-> {}]
  /\ listedAt = [c \in Collectors |-> <<0, 0>>] /\ storedAt = <<0, 0>>
  /\ summaries = 0 /\ loginFailures = 0

SomeoneLogsIn ==
  /\ Len(authLog) < MaxLogins
  /\ \E l \in Logins : authLog' = Append(authLog, l)
  /\ UNCHANGED <<windowStart, logins, collecting, listed, listedAt, storedAt, summaries, loginFailures>>

WindowMoves ==
  /\ windowStart < Len(authLog)
  /\ windowStart' = windowStart + 1
  /\ UNCHANGED <<authLog, logins, collecting, listed, listedAt, storedAt, summaries, loginFailures>>

LoginFails == loginFailures < MaxLoginFailures /\ loginFailures' = loginFailures + 1

\* A failed list ends the collection and keeps the table.
ListAccessRequests(c) ==
  /\ c \notin collecting /\ summaries < MaxSummaries
  /\ summaries' = summaries + 1
  /\ \/ /\ collecting' = collecting \cup {c}
        /\ listed' = [listed EXCEPT ![c] = Newest]
        /\ listedAt' = [listedAt EXCEPT ![c] = <<Len(authLog), windowStart>>]
        /\ UNCHANGED loginFailures
     \/ LoginFails /\ UNCHANGED <<collecting, listed, listedAt>>
  /\ UNCHANGED <<authLog, windowStart, logins, storedAt>>

Swapped(rows) == rows

ReplaceAccessLogins(c) ==
  /\ c \in collecting
  /\ collecting' = collecting \ {c}
  /\ listed' = [listed EXCEPT ![c] = {}]
  /\ \/ /\ logins' = Swapped(SummarizeLogins(listed[c]))
        /\ storedAt' = listedAt[c]
        /\ UNCHANGED loginFailures
     \/ LoginFails /\ UNCHANGED <<logins, storedAt>>
  /\ UNCHANGED <<authLog, windowStart, listedAt, summaries>>

LoginNext ==
  \/ SomeoneLogsIn \/ WindowMoves
  \/ \E c \in Collectors : ListAccessRequests(c) \/ ReplaceAccessLogins(c)

LoginSpec == LoginInit /\ [][LoginNext]_loginVars

-----------------------------------------------------------------------------
\* The row of totals on the audit page.
OverApps(f) == MapThenSumSet(LAMBDA l : f[l], logins)

LoginTotals ==
  [apps |-> Cardinality(logins),
   allowed |-> OverApps([l \in logins |-> l.allowed]),
   denied |-> OverApps([l \in logins |-> l.denied])]

-----------------------------------------------------------------------------
LoginTypeOK ==
  /\ windowStart \in 0..Len(authLog)
  /\ \A l \in logins : l.allowed + l.denied > 0
  /\ collecting \subseteq Collectors

\* The events of a host in the window.
InWindow(h) == {i \in DOMAIN authLog : i > windowStart /\ HostOf(authLog[i]) = h}

\* The summary accounts for the log: when the writer of the table listed the
\* log as it is now, and the window holds no more than one call returns, every
\* host has one row that counts each of its events once, knows the last of
\* them and counts no user twice; a host without events has none, and the
\* totals of the audit page count every event with a domain.  A collector
\* that listed earlier and wrote later takes this away until the next one.
SummaryAccountsForLog ==
  storedAt = <<Len(authLog), windowStart>> /\ Len(authLog) - windowStart <= MaxLogEntries =>
    /\ \A l \in logins : InWindow(l.host) # {}
    /\ LoginTotals.allowed + LoginTotals.denied
         = Cardinality({i \in DOMAIN authLog : i > windowStart /\ HostOf(authLog[i]) # NoDomain})
    /\ \A h \in {HostOf(authLog[i]) : i \in DOMAIN authLog} \ {NoDomain} :
         InWindow(h) # {} =>
           \E l \in logins :
             /\ l.host = h
             /\ l.allowed + l.denied = Cardinality(InWindow(h))
             /\ l.lastAt = Max(InWindow(h))
             /\ l.users = Cardinality({authLog[i].user : i \in InWindow(h)} \ {""})
=============================================================================
