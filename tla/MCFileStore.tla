---------------------------- MODULE MCFileStore -----------------------------
(***************************************************************************)
(* An instance of FileStore for TLC: a machine's own archive, where two    *)
(* writers capture events of one day that refer to the same payload, and a *)
(* collector's request brings one of the next, whose payload was left      *)
(* behind; and a tenant that has a day of an earlier run.                  *)
(***************************************************************************)
EXTENDS FileStore

MCEvent == {"a", "b", "c", "d"}
MCTenantOf == [e \in MCEvent |-> IF e = "d" THEN 2 ELSE 1]
MCDayOf == [e \in MCEvent |-> IF e = "c" THEN 2 ELSE 1]
MCPayloadOf == [e \in MCEvent |-> IF e = "d" THEN "none" ELSE "prompt"]
MCWriterOf == [e \in MCEvent |-> CASE e = "b" -> "proxy" [] e = "c" -> "collect"
                                   [] OTHER -> "ingester"]

MCEarlier ==
    [t \in Tenant |-> [d \in Day |->
        IF t = 2 /\ d = 1 THEN <<[event |-> "d", ref |-> "none", whole |-> TRUE]>>
        ELSE <<>>]]

=============================================================================
