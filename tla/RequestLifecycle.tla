-------------------------- MODULE RequestLifecycle --------------------------
(***************************************************************************)
(* What the approval component promises, without users, calls, locks or    *)
(* notifications: each request walks one way through its stages, and the   *)
(* used days of an account grow only when a request of that account is     *)
(* finally approved, by that request's days, and never past the opening    *)
(* balance.  ApprovalWorkflow implements this specification.               *)
(***************************************************************************)
EXTENDS ApprovalRules, Integers

CONSTANTS Requests,  \* requests that may be submitted
          Accounts,  \* balance rows: one per user, leave type and year
          Account,   \* Account[r]: the row a request is charged to
          Days,      \* Days[r]: its working days
          Opening    \* Opening[a]: saldo_awal of the row

VARIABLES status,    \* status[r], a RequestStatus
          used       \* used[a], saldo_terpakai of the row

vars == <<status, used>>

Init ==
  /\ status = [r \in Requests |-> "belum_ada"]
  /\ used = [a \in Accounts |-> 0]

Submit(r) ==
  /\ status[r] = "belum_ada"
  /\ \E s \in Pending : status' = [status EXCEPT ![r] = s]
  /\ UNCHANGED used

(* the supervisor's stage ends without a refusal, for one request or for a
   batch of overdue ones *)
HandToHR(S) ==
  /\ \A r \in S : status[r] = "menunggu_atasan"
  /\ status' = [r \in Requests |-> IF r \in S THEN "menunggu_hr" ELSE status[r]]
  /\ UNCHANGED used

Reject(r) ==
  /\ status[r] \in Pending
  /\ status' = [status EXCEPT ![r] = "ditolak"]
  /\ UNCHANGED used

Charge(r) ==
  /\ Account[r] \in Accounts
  /\ used[Account[r]] + Days[r] <= Opening[Account[r]]
  /\ used' = [used EXCEPT ![Account[r]] = @ + Days[r]]

Approve(r) ==
  /\ status[r] \in Pending \ {"menunggu_atasan"}
  /\ status' = [status EXCEPT ![r] = "disetujui"]
  /\ UNCHANGED used \/ Charge(r)

Next ==
  \/ \E r \in Requests : Submit(r) \/ Reject(r) \/ Approve(r)
  \/ \E S \in SUBSET Requests : HandToHR(S)

Spec == Init /\ [][Next]_vars
=============================================================================
