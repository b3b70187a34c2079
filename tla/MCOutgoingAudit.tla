-------------------------- MODULE MCOutgoingAudit --------------------------
(* Instances of OutgoingAudit for TLC. *)
EXTENDS OutgoingAudit, TLC

CONSTANTS m1, c1, c2, d1, d2, s1, s2

Symmetry == Permutations(Call) \cup Permutations(Domain) \cup Permutations(Slot)
=============================================================================
