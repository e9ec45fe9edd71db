------------------------- MODULE MCApprovalWorkflow -------------------------
(***************************************************************************)
(* Instances of ApprovalWorkflow for TLC: a company of a few employees and *)
(* two or three requests.                                                  *)
(***************************************************************************)
EXTENDS ApprovalWorkflow, TLC

CONSTANTS ani, budi, hani, tia,  \* karyawan, her atasan, HR, Top Management
          r1, r2, r3, cuti, row, c1, c2, j1, j2

Employee(role, boss) == [role |-> role, boss |-> boss, active |-> TRUE]

SmallCompany ==
  ani  :> Employee("karyawan", budi) @@ budi :> Employee("atasan", NoUser) @@
  hani :> Employee("hr", budi)

(* ani has no supervisor: her requests go straight to HR *)
FlatCompany == [SmallCompany EXCEPT ![ani].boss = NoUser]

(* HR submits to Top Management *)
StaffCompany ==
  ani  :> Employee("karyawan", budi) @@ budi :> Employee("atasan", tia) @@
  hani :> Employee("hr", tia)        @@ tia  :> Employee("top_management", NoUser)

OwnerTwo     == r1 :> ani @@ r2 :> hani @@ r3 :> hani
KindTwo      == r1 :> "overtime" @@ r2 :> "leave" @@ r3 :> "leave"
OvertimeJobs == [j \in Jobs |-> "overtime"]

(* r2 and r3 differ in nothing *)
TwinSymmetry == Permutations({c1, c2}) \cup Permutations({r2, r3})

Annual == [quota |-> 3, category |-> "cuti", limit |-> 0, active |-> TRUE]
CompanyTypes == cuti :> Annual

AllLeave      == [r \in Requests |-> "leave"]
TypeCuti      == [r \in Requests |-> cuti]
TwoDays       == [r \in Requests |-> 2]
OnRow         == [r \in Requests |-> row]
ThreeDays     == row :> 3
OwnerAni      == [r \in Requests |-> ani]
LeaveJobs     == [j \in Jobs |-> "leave"]
=============================================================================
