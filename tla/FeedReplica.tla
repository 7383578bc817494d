----------------------------- MODULE FeedReplica -----------------------------
(***************************************************************************)
(* What the update pipeline promises about the local copy of a feed: the   *)
(* position it has recorded only moves forward, never past the feed, and   *)
(* never past what its rows hold, so that an updater which resumes from    *)
(* the recorded position skips no change.                                  *)
(***************************************************************************)
EXTENDS Naturals

VARIABLES feed,     \* newest version published
          rows,     \* version every row is at least at
          position  \* version recorded as reached

vars == <<feed, rows, position>>

Init == feed = 0 /\ rows = 0 /\ position = 0

Publish ==
    /\ feed' = feed + 1
    /\ UNCHANGED <<rows, position>>

\* Changes are written; a retry may write older ones again, down to the
\* recorded position but not below it.
Write ==
    /\ rows' \in position..feed
    /\ UNCHANGED <<feed, position>>

\* The position catches up with what was written.
Record ==
    /\ position' \in (position + 1)..rows
    /\ UNCHANGED <<feed, rows>>

Next == Publish \/ Write \/ Record

Spec == Init /\ [][Next]_vars

=============================================================================
