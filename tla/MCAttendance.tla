---------------------------- MODULE MCAttendance ----------------------------
(***************************************************************************)
(* Instances of Attendance for TLC.  ana has a supervisor and citra is of  *)
(* HR: a correction of ana passes two stages, one of budi passes one.      *)
(***************************************************************************)
EXTENDS Attendance, TLC

CONSTANTS ana, budi, citra

MCRole == [u \in Users |-> CASE u = ana -> "karyawan" [] u = budi -> "atasan"
                             [] OTHER -> "hr"]
MCBoss == [u \in Users |-> IF u = ana THEN budi ELSE NoUser]

Symmetry == Permutations(Records) \cup Permutations(Photos)

(* one user *)
OneRole == ana :> "karyawan"
OneBoss == ana :> NoUser
=============================================================================
