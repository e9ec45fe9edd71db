----------------------------- MODULE MCSessions -----------------------------
(* Instances of Sessions for TLC: three calls on one account. *)
EXTENDS Sessions, TLC

CONSTANTS c1, c2, c3

CallSymmetry == Permutations({c1, c2, c3})

Open == [password |-> 0, failures |-> 0, locked |-> FALSE, role |-> "karyawan", active |-> TRUE]
=============================================================================
