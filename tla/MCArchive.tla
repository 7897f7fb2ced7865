----------------------------- MODULE MCArchive -----------------------------
(***************************************************************************)
(* Instances of Archive for TLC: three days, so that two of them can be    *)
(* finished; two turns on the first day, so that a count can agree while   *)
(* the turns differ; and captured content on one of them.                  *)
(***************************************************************************)
EXTENDS Archive

MCFact == {"a1", "b1", "b1content", "c2"}
MCDayOf == [f \in MCFact |-> IF f = "c2" THEN 2 ELSE 1]
MCTurnOf == [f \in MCFact |-> IF f = "b1content" THEN "b1" ELSE f]
MCContent == {"b1content"}
=============================================================================
