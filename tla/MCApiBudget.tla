---------------------------- MODULE MCApiBudget ----------------------------
(* The Cloudflare client: ApiBudget with concrete quotas and with          *)
(* interchangeable callers, and the walk of one collection's pages.        *)
(* `focus` picks which of the two a behaviour is about.                    *)
EXTENDS ApiBudget, Pagination, TLC

VARIABLE focus

MCCapacity == [q \in Quotas |-> IF q = "rest" THEN 9 ELSE 2]
MCReserve == [q \in Quotas |-> IF q = "rest" THEN 7 ELSE 0]
Symmetry == Permutations(Callers)

\* A quota was not used before, or but for two requests, or to the last; the
\* window of the GraphQL quota is a new one.
ClientInit ==
  /\ focus \in {"budget", "pages"}
  /\ Init /\ PageInit
  /\ CASE focus = "budget" -> /\ \A q \in Quotas : left[q] \in {9, 2, 0}
                              /\ resets["graphql"] = Window
                              /\ collection = <<>> /\ ~counted
       [] focus = "pages" -> left = MCCapacity /\ resets = [q \in Quotas |-> Window]

ClientNext ==
  /\ UNCHANGED focus
  /\ \/ focus = "budget" /\ Next /\ UNCHANGED pageVars
     \/ focus = "pages" /\ PageNext /\ UNCHANGED vars

ClientSpec == ClientInit /\ [][ClientNext]_<<focus, vars, pageVars>>

\* The budget alone, from any state of the account.
BudgetInit ==
  /\ focus = "budget"
  /\ Init /\ PageInit
  /\ collection = <<>> /\ ~counted
BudgetSpec == BudgetInit /\ [][ClientNext]_<<focus, vars, pageVars>>
=============================================================================
