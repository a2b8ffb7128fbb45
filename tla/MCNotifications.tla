-------------------------- MODULE MCNotifications --------------------------
(* Notifications with interchangeable workers.                             *)
EXTENDS Notifications, TLC

Symmetry == Permutations(Workers)
=============================================================================
