---------------------------- MODULE ApprovalRules ----------------------------
(***************************************************************************)
(* Definitions headed "A wrong ..." here and in the other modules are the  *)
(* mistakes the properties are tried against; no specification uses them.  *)
(*                                                                         *)
(* The state machine of a leave or overtime request as pure operators: who *)
(* may be asked first, who may decide at a status, and what an approval    *)
(* leads to.  Translated from backend/internal/domain/approval.go, which   *)
(* both request services and the escalation worker call.                   *)
(***************************************************************************)

(* RoleName, the four fixed roles *)
Roles == {"karyawan", "atasan", "hr", "top_management"}

(* RequestStatus.Pending: some stage still has to decide *)
Pending == {"menunggu_atasan", "menunggu_hr", "menunggu_top_management"}

(* the outcomes; "dibatalkan" is declared by the code and never assigned *)
Settled == {"disetujui", "ditolak"}

(* "belum_ada" stands for a request whose row does not exist yet *)
Statuses == {"belum_ada"} \cup Pending \cup Settled

(* ApprovalStage, with "" for the zero value *)
Stages == {"atasan", "hr", "top_management"}

(* ApprovalDecision, as stored in the history *)
Decisions == {"approve", "reject", "delegate", "auto_escalate"}

(* StageForStatus and NextStageForStatus: "" when nobody is to decide *)
StageForStatus(s) ==
  CASE s = "menunggu_atasan"         -> "atasan"
    [] s = "menunggu_hr"             -> "hr"
    [] s = "menunggu_top_management" -> "top_management"
    [] OTHER                         -> ""

(* A wrong routing: HR users decide among themselves. *)
InitialStatusHRToHR(role, hasSupervisor) ==
  CASE role = "karyawan"       -> {IF hasSupervisor THEN "menunggu_atasan"
                                                    ELSE "menunggu_hr"}
    [] role \in {"atasan", "hr"} -> {"menunggu_hr"}
    [] OTHER                   -> {}

(***************************************************************************)
(* The first status of a request: a set that is empty when the role may    *)
(* not submit (Top Management).                                            *)
(***************************************************************************)
InitialStatusForRole(role, hasSupervisor) ==
  CASE role = "karyawan" -> {IF hasSupervisor THEN "menunggu_atasan"
                                              ELSE "menunggu_hr"}
    [] role = "atasan"   -> {"menunggu_hr"}
    [] role = "hr"       -> {"menunggu_top_management"}
    [] OTHER             -> {}

(* A wrong step: every approval is final. *)
NextStatusAlwaysFinal(s) == "disetujui"

(* An approval by the supervisor hands on to HR; any other one is final. *)
NextStatusAfterApprove(s) ==
  IF s = "menunggu_atasan" THEN "menunggu_hr" ELSE "disetujui"

CanDecide(role, s) ==
  \/ s = "menunggu_atasan"         /\ role = "atasan"
  \/ s = "menunggu_hr"             /\ role = "hr"
  \/ s = "menunggu_top_management" /\ role = "top_management"
=============================================================================
