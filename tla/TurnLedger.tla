----------------------------- MODULE TurnLedger -----------------------------
(***************************************************************************)
(* What the archive promises its readers: a ledger of recorded facts that  *)
(* is only ever added to.  Where a fact is kept -- hot window, partition   *)
(* or both -- is not visible at this level.                                *)
(***************************************************************************)

CONSTANT Fact    \* what one ingested event contributes to a turn

VARIABLE ledger  \* every fact a query over the whole archive returns

Init == ledger = {}

Record(f) == ledger' = ledger \cup {f}

Next == \E f \in Fact : Record(f)

Spec == Init /\ [][Next]_ledger
=============================================================================
