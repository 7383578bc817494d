---------------------------- MODULE MCRoadUpdates ----------------------------
(***************************************************************************)
(* RoadUpdates for TLC: the budgets of faults its runs allow.              *)
(***************************************************************************)
EXTENDS RoadUpdates, TLC

CONSTANTS MaxFailures, MaxCrashes, MaxByHand

MCBudget == [f \in Faults |-> CASE f = "failure" -> MaxFailures
                                [] f = "crash" -> MaxCrashes
                                [] f = "byHand" -> MaxByHand]

\* Keys, callers and runs of the script are interchangeable; only for safety.
NameSymmetry == Permutations(Keys) \cup Permutations(Callers) \cup Permutations(Scripts)

=============================================================================
