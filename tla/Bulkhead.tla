------------------------------ MODULE Bulkhead ------------------------------
(***************************************************************************)
(* What an admission gate owes the service behind it: a caller comes in    *)
(* only while there is a place, of which there are Limit, keeps it until   *)
(* it leaves, and nobody waits at the door.                                *)
(***************************************************************************)
EXTENDS Naturals, FiniteSets

CONSTANTS Callers, \* who may come in
          Limit    \* how many may be in at a time

VARIABLE holders  \* who is in

Init == holders = {}

Enter(c) ==
    /\ c \notin holders
    /\ Cardinality(holders) < Limit
    /\ holders' = holders \cup {c}

Leave(c) ==
    /\ c \in holders
    /\ holders' = holders \ {c}

Next == \E c \in Callers : Enter(c) \/ Leave(c)

Spec == Init /\ [][Next]_holders

=============================================================================
