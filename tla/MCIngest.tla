------------------------------ MODULE MCIngest ------------------------------
(***************************************************************************)
(* Instances of Ingest for TLC: a transcript of two turns, the first one   *)
(* with its captured content, and one in its place that begins with a turn *)
(* and goes on with a line that is not one.                                *)
(***************************************************************************)
EXTENDS Ingest

MCEventsOf == [r \in Record |-> CASE r.gen = 0 /\ r.line = 1 -> 2
                                  [] r.gen = 1 /\ r.line = 2 -> 0 [] OTHER -> 1]
=============================================================================
