----------------------------- MODULE MCForward -----------------------------
(***************************************************************************)
(* Instances of Forward for TLC: a turn on one day and one on the next,    *)
(* captured content newer than both, a record with a timestamp the server  *)
(* drops and one it refuses for its size; days of four ticks, an overlap   *)
(* of one.                                                                 *)
(***************************************************************************)
EXTENDS Forward

MCEvent == {"a", "b", "content", "odd", "big"}
MCTime == [e \in MCEvent |-> CASE e = "a" -> 2 [] e = "b" -> 6
                               [] e = "content" -> 7 [] OTHER -> 5]
MCContent == {"content"}
MCImplausible == {"odd"}
MCOversized == {"big"}

\* The file store returns whole days, Postgres what was asked for.
WholeDays == [t \in 0..8 |-> 4 * (t \div 4)]
Exactly == [t \in 0..8 |-> t]

\* The two servers are alike: the machine is signed in to this one first.
MCInit == Init /\ server = "s1"
MCFairSpec == MCInit /\ [][Next]_vars /\ WF_vars(Pass)
=============================================================================
