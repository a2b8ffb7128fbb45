------------------------------- MODULE MCLive -------------------------------
(* What must happen eventually, in a poll and in the life of the process:  *)
(* `focus` picks which of the two a behaviour is about.                    *)
EXTENDS PollCycle, Lifecycle

VARIABLE focus

\* Beside the life of the process the account is empty, and mirrored.
LiveInit ==
  /\ focus \in {"poll", "process"}
  /\ Init /\ LifeInit
  /\ focus = "process" => cloud = [t \in Tunnels |-> None]

LiveNext ==
  /\ UNCHANGED focus
  /\ \/ focus = "poll" /\ Next /\ UNCHANGED lifeVars
     \/ focus = "process" /\ LifeNext /\ UNCHANGED vars

LiveSpec ==
  /\ LiveInit /\ [][LiveNext]_<<focus, vars, lifeVars>>
  /\ focus = "poll" => Fairness
  /\ focus = "process" => LifeFairness
=============================================================================
