----------------------------- MODULE MCAccounts -----------------------------
EXTENDS Accounts, TLC

\* The event with a date was captured under an enrollment of its own, with ids
\* that are also drawn here.
MCCarried == [e \in Event |-> IF e \in Implausible THEN NoAccount
                              ELSE [tenant |-> 2, user |-> 1]]

\* Bound: one restart, one failure or one session past its time.
MCOneTrouble == boots + faults + Cardinality(expired) <= 1

MCSymmetry == Permutations(Person) \cup Permutations(Handler)

=============================================================================
