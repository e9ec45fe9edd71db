------------------------- MODULE MCEmployeeDirectory -------------------------
(* Instances of EmployeeDirectory for TLC. *)
EXTENDS EmployeeDirectory, TLC

CONSTANTS c1, c2, c3, ani, ops, it

Symmetry == Permutations(Calls) \cup Permutations(Departments)
Staff == {ani} \cup (Calls \X (1..MaxRows))
=============================================================================
