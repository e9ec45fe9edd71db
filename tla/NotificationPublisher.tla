------------------------ MODULE NotificationPublisher ------------------------
(***************************************************************************)
(* From an approval event to rows of the notifications table.  Pure        *)
(* operators over the staff directory and the set of stored notifications, *)
(* used inside the transactions of ApprovalWorkflow.  Translated from      *)
(* service/notification_publisher.go, domain/notification.go and           *)
(* repository/notification_repository.go.  Titles, texts and timestamps    *)
(* are left out; the type, the request, the stage and the recipient stay.  *)
(***************************************************************************)
EXTENDS ApprovalRules

CONSTANTS Users, NoUser

(* NotificationType, of the approval events; a submission is told as the
   kind of the request *)
Notifications == {"leave", "overtime", "approved", "rejected", "delegated", "auto_escalated"}

(* A wrong key: one per type and request, whatever the stage. *)
EventKeyWithoutStage(n) == <<n.type, n.ref, n.to>>

(* domain.NotificationEventKey: type, reference, cycle (the stage) and
   recipient; no text and no timestamp *)
NotificationEventKey(n) == <<n.type, n.ref, n.stage, n.to>>

(* newRequestDraft *)
Draft(type, r, stage, to) == [type |-> type, ref |-> r, stage |-> stage, to |-> to]

ActiveUserIDsByRole(staff, role) ==
  {u \in Users : staff[u].active /\ staff[u].role = role}

(***************************************************************************)
(* Who decides at a stage.  The supervisor is found through the employee   *)
(* record of the requester and only has to be active; HR and Top           *)
(* Management are found through their role.                                *)
(***************************************************************************)
ApproverUserIDs(staff, stage, requester) ==
  IF stage = "atasan"
  THEN {u \in Users : staff[requester].boss = u /\ staff[u].active}
  ELSE ActiveUserIDsByRole(staff, IF stage = "top_management"
                                  THEN "top_management" ELSE "hr")

(* skipSelfNotify: neither the requester nor the actor is told as approver *)
SkipSelfNotify(requester, actor) == {requester, actor}

(* approverDrafts: a request waits for these approvers (kind is the type of
   the submission notification, "leave" or "overtime") *)
ApproverDrafts(staff, kind, r, requester, actor, stage) ==
  {Draft(kind, r, stage, u) :
     u \in ApproverUserIDs(staff, stage, requester)
             \ SkipSelfNotify(requester, actor)}

(* DecisionNotification, to the requester, for the stage that decided *)
DecisionNotification(r, requester, stage, next) ==
  Draft(IF next = "ditolak" THEN "rejected" ELSE "approved", r, stage, requester)

(* A wrong list: the next stage is not told. *)
DecisionDraftsRequesterOnly(staff, kind, r, requester, actor, stage, next) ==
  {DecisionNotification(r, requester, stage, next)}

(* draftsFor, case DecisionChanged: the requester, and the approvers of the
   stage the request moves to, if it is not settled *)
DecisionDrafts(staff, kind, r, requester, actor, stage, next) ==
  {DecisionNotification(r, requester, stage, next)}
    \cup IF next \in Pending
         THEN ApproverDrafts(staff, kind, r, requester, actor, StageForStatus(next))
         ELSE {}

(* handoffDrafts, for a delegation or an escalation out of the supervisor's
   stage: every other active HR user, and the requester *)
HandoffDrafts(staff, type, r, requester, actor) ==
  {Draft(type, r, "atasan", u) :
     u \in (ApproverUserIDs(staff, "hr", requester)
              \ SkipSelfNotify(requester, actor)) \cup {requester}}

(* NotificationRepository.Insert: ON CONFLICT (recipient, key) DO NOTHING *)
Insert(inbox, drafts) ==
  inbox \cup {n \in drafts :
                \A m \in inbox : NotificationEventKey(m) # NotificationEventKey(n)}
=============================================================================
