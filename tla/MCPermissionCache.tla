-------------------------- MODULE MCPermissionCache --------------------------
(***************************************************************************)
(* Instances of PermissionCache for TLC: the role that changes the matrix, *)
(* the read-only one, a capability that HR must keep and Top Management    *)
(* may not hold, and one that both may hold.                               *)
(***************************************************************************)
EXTENDS PermissionCache, TLC

CONSTANTS k1, u1, u2

akses  == [module |-> "akses", action |-> "update"]
lihat  == [module |-> "karyawan", action |-> "read"]

SmallCatalog == {akses, lihat}
Seeded == [r \in MatrixRoles |-> IF r = "hr" THEN {akses, lihat} ELSE {lihat}]
=============================================================================
