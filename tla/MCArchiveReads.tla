--------------------------- MODULE MCArchiveReads ---------------------------
(***************************************************************************)
(* An instance of ArchiveReads for TLC: one reader, whose next query runs  *)
(* with what its last one cached, and one turn on each of two days, so     *)
(* that one rollup can be older than another.                              *)
(***************************************************************************)
EXTENDS ArchiveReads

MCFact == {"a1", "c2"}
MCDayOf == [f \in MCFact |-> IF f = "c2" THEN 2 ELSE 1]
MCTurnOf == [f \in MCFact |-> f]
MCContent == {}

\* Bound: once something failed, only queries that read turns are followed.
MCAfterFailure ==
    faults > 0 =>
        \A r \in Reader : query[r].kind = "turns"

\* Bound: a query between two days, or with its answer ready, goes on before
\* anything else happens.  That step reads and writes nothing of the archive, so
\* it may as well come first; a crash instead of it is a crash before its query.
MCOwnStepsFirst ==
    \A r \in Reader : query[r].pc \in {"day", "done"} => query' # query

\* Bound: the failure, if any, comes before the second day is over.
MCFailsEarly == faults' # faults => today < MaxDay
=============================================================================
