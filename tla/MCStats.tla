------------------------------ MODULE MCStats ------------------------------
(***************************************************************************)
(* Instances of Stats for TLC.                                             *)
(***************************************************************************)
EXTENDS Stats

CONSTANTS g1, g2, c1, c2

TwoWriters == {g1, g2}
TwoCallers == {c1, c2}
Alike == Permutations(TwoWriters) \cup Permutations(TwoCallers)

\* A shell session, and what belongs to none.
SshAndSystem ==
  {[svc |-> "ssh", type |-> "command", sid |-> "s"],
   [svc |-> "system", type |-> "startup", sid |-> ""]}
=============================================================================
