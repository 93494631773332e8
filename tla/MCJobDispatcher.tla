----------------------------- MODULE MCJobDispatcher -----------------------------
(* The instance of JobDispatcher for TLC: two jobs whose priorities and       *)
(* thresholds disagree, which POST /jobs accepts; level 2 is over the second  *)
(* one's threshold only, level 3 over both.                                   *)
EXTENDS JobDispatcher

CONSTANTS j1, j2

Both == {j1, j2}
Prio == [j \in Both |-> IF j = j1 THEN 1 ELSE 2]
Disagree == [j \in Both |-> IF j = j1 THEN 3 ELSE 2]
OnlySecond == {j2}
================================================================================
