---------------------------- MODULE MCDeviceFlow ----------------------------
(***************************************************************************)
(* Instances of DeviceFlow for TLC: logins, browsers and accounts are      *)
(* interchangeable, so only one of each kind of permutation is explored.   *)
(***************************************************************************)
EXTENDS DeviceFlow, TLC

Symmetry == Permutations(Login) \cup Permutations(Browser)
                \cup Permutations(Account) \cup Permutations(UserCode)
=============================================================================
