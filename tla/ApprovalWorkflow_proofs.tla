----------------------- MODULE ApprovalWorkflow_proofs -----------------------
(***************************************************************************)
(* Proofs about ApprovalWorkflow, for any number of users, requests, calls *)
(* and jobs.                                                               *)
(***************************************************************************)
EXTENDS ApprovalWorkflow, FiniteSetTheorems, TLAPS

Notification == [type : Notifications, ref : Requests, stage : Stages, to : Users]

(* what a call has established at each point of its way *)
CallsInOrder ==
  \A c \in Calls :
    /\ pc[c] = "routed" =>
         /\ call[c].op = "submit" /\ call[c].at \in Pending
         /\ call[c].actor = Owner[call[c].req]
         /\ status[call[c].req] = "belum_ada"
    /\ pc[c] \in {"called", "waiting", "locked", "charged"} =>
         /\ call[c].op \in {"approve", "reject", "delegate"}
         /\ call[c].op = "delegate" => call[c].as = "atasan"
    /\ pc[c] \in {"locked", "charged"} /\ call[c].op = "delegate" =>
         call[c].at = "menunggu_atasan"

(* a request is inserted by one call, and a balance row is charged by one *)
RoutedOnce ==
  \A c, d \in Calls :
    pc[c] = "routed" /\ pc[d] = "routed" /\ call[c].req = call[d].req => c = d

ChargesReserved ==
  /\ \A c \in Calls : pc[c] = "charged" => MustCharge(c) /\ Affordable(call[c].req)
  /\ \A c, d \in Calls :
       pc[c] = "charged" /\ pc[d] = "charged"
         /\ Account[call[c].req] = Account[call[d].req] => c = d

IInv ==
  /\ TypeOK /\ OneWriterPerRequest /\ DecidesWhatItRead
  /\ CallsInOrder /\ RoutedOnce /\ ChargesReserved
-----------------------------------------------------------------------------
(* The publisher yields well-formed notifications, and none disappears. *)
LEMMA DraftsType ==
  ASSUME TypeOK, NEW r \in Requests, NEW kind \in {"leave", "overtime"},
         NEW requester \in Users, NEW actor, NEW stage \in Stages, NEW next \in Statuses
  PROVE  /\ ApproverDrafts(staff, kind, r, requester, actor, stage) \subseteq Notification
         /\ DecisionDrafts(staff, kind, r, requester, actor, stage, next) \subseteq Notification
         /\ \A type \in {"delegated", "auto_escalated"} :
              HandoffDrafts(staff, type, r, requester, actor) \subseteq Notification
<1>1. ASSUME NEW s \in Stages
      PROVE  ApproverDrafts(staff, kind, r, requester, actor, s) \subseteq Notification
  BY <1>1 DEF ApproverDrafts, ApproverUserIDs, ActiveUserIDsByRole, Draft,
              Notification, Notifications, Stages
<1>2. DecisionDrafts(staff, kind, r, requester, actor, stage, next) \subseteq Notification
  <2>1. DecisionNotification(r, requester, stage, next) \in Notification
    BY DEF DecisionNotification, Draft, Notification, Notifications, Stages
  <2>2. next \in Pending => StageForStatus(next) \in Stages
    BY DEF Pending, StageForStatus, Stages
  <2> QED BY <1>1, <2>1, <2>2 DEF DecisionDrafts
<1>3. ASSUME NEW type \in {"delegated", "auto_escalated"}
      PROVE  HandoffDrafts(staff, type, r, requester, actor) \subseteq Notification
  BY <1>3 DEF HandoffDrafts, ApproverUserIDs, ActiveUserIDsByRole, Draft,
              Notification, Notifications, Stages
<1> QED BY <1>1, <1>2, <1>3

LEMMA InsertType ==
  ASSUME NEW drafts, inbox \subseteq Notification, drafts \subseteq Notification
  PROVE  Insert(inbox, drafts) \subseteq Notification
BY DEF Insert
-----------------------------------------------------------------------------
LEMMA InitInv == Init => IInv
<1> SUFFICES ASSUME Init PROVE IInv
  OBVIOUS
<1>1. TypeOK
  BY NullsAssumption, StaffAssumption, TypesAssumption DEF Init, TypeOK, Statuses, Steps
<1>2. OneWriterPerRequest /\ DecidesWhatItRead /\ CallsInOrder /\ RoutedOnce /\ ChargesReserved
  BY DEF Init, OneWriterPerRequest, Holds, DecidesWhatItRead, CallsInOrder, RoutedOnce, ChargesReserved
<1> QED BY <1>1, <1>2 DEF IInv
-----------------------------------------------------------------------------
(* One lemma per action. *)

LEMMA RouteInv ==
  ASSUME IInv, NEW c \in Calls, NEW r \in Requests, Route(c, r)
  PROVE  IInv'
<1> USE DEF IInv, Route, Enters, directory, tables
<1>1. PICK s \in InitialStatusForRole(staff[Owner[r]].role, staff[Owner[r]].boss # NoUser) :
        call' = [call EXCEPT ![c] =
                   [op |-> "submit", actor |-> Owner[r], as |-> staff[Owner[r]].role, req |-> r,
                    boss |-> staff[Owner[r]].boss, charge |-> FALSE, at |-> s]]
  OBVIOUS
<1>2. s \in Pending
  BY <1>1 DEF InitialStatusForRole, Pending
<1>3. Owner[r] \in Users /\ staff[Owner[r]] \in Staff
  BY RequestAssumption DEF TypeOK
<1>4. call'[c] \in Call
  BY <1>1, <1>2, <1>3 DEF TypeOK, Call, Staff, Operation, Statuses
<1>5. TypeOK'
  BY <1>1, <1>4, NullsAssumption DEF TypeOK, Steps
<1>6. OneWriterPerRequest'
  BY <1>1 DEF TypeOK, OneWriterPerRequest, Holds
<1>7. DecidesWhatItRead'
  BY <1>1 DEF TypeOK, DecidesWhatItRead
<1>8. CallsInOrder'
  BY <1>1, <1>2 DEF TypeOK, CallsInOrder
<1>9. RoutedOnce'
  BY <1>1 DEF TypeOK, RoutedOnce
<1>10. ChargesReserved'
  BY <1>1 DEF TypeOK, ChargesReserved, MustCharge, NextStatus, Affordable
<1> QED BY <1>5, <1>6, <1>7, <1>8, <1>9, <1>10

LEMMA BeginInv ==
  ASSUME IInv, NEW c \in Calls, NEW u \in Users, NEW r \in Requests,
         NEW op \in {"approve", "reject", "delegate"}, Begin(c, u, r, op),
         op = "delegate" => staff[u].role = "atasan"
  PROVE  IInv'
<1> USE DEF IInv, Begin, Enters, directory, tables
<1>1. call'[c] \in Call
  <2>1. staff[u] \in Staff
    BY DEF TypeOK
  <2> QED BY <2>1 DEF TypeOK, Call, Staff, Operation, Statuses
<1>5. TypeOK'
  BY <1>1, NullsAssumption DEF TypeOK, Steps
<1>6. OneWriterPerRequest'
  BY DEF TypeOK, OneWriterPerRequest, Holds
<1>7. DecidesWhatItRead'
  BY DEF TypeOK, DecidesWhatItRead
<1>8. CallsInOrder'
  BY DEF TypeOK, CallsInOrder
<1>9. RoutedOnce'
  BY DEF TypeOK, RoutedOnce
<1>10. ChargesReserved'
  BY DEF TypeOK, ChargesReserved, MustCharge, NextStatus, Affordable
<1> QED BY <1>5, <1>6, <1>7, <1>8, <1>9, <1>10

LEMMA ReadInv ==
  ASSUME IInv, NEW c \in Calls, NEW charge \in BOOLEAN, ReadForDecision(c, charge)
  PROVE  IInv'
<1> USE DEF IInv, ReadForDecision, Enters, directory, tables
<1>1. call[c] \in Call
  BY DEF TypeOK
<1>2. /\ call' = [call EXCEPT ![c] = call'[c]]
      /\ call'[c] \in Call
      /\ call'[c].op = call[c].op /\ call'[c].as = call[c].as
      /\ call'[c].req = call[c].req /\ call'[c].at = call[c].at
  <2>1. Owner[call[c].req] \in Users
    BY <1>1, RequestAssumption DEF Call
  <2>2. staff[Owner[call[c].req]] \in Staff
    BY <2>1 DEF TypeOK
  <2> QED BY <1>1, <2>2 DEF TypeOK, Call, Staff
<1>5. TypeOK'
  BY <1>2, NullsAssumption DEF TypeOK, Steps
<1>6. OneWriterPerRequest'
  <2>1. \A d \in Calls, r \in Requests : Holds(d, r)' => Holds(d, r)
    BY <1>2 DEF TypeOK, Holds
  <2> QED BY <2>1 DEF OneWriterPerRequest
<1>7. DecidesWhatItRead'
  BY <1>2 DEF TypeOK, DecidesWhatItRead
<1>8. CallsInOrder'
  BY <1>2 DEF TypeOK, CallsInOrder
<1>9. RoutedOnce'
  BY <1>2 DEF TypeOK, RoutedOnce
<1>10. ChargesReserved'
  BY <1>2 DEF TypeOK, ChargesReserved, MustCharge, NextStatus, Affordable
<1> QED BY <1>5, <1>6, <1>7, <1>8, <1>9, <1>10

LEMMA LockInv ==
  ASSUME IInv, NEW c \in Calls, LockRequest(c)
  PROVE  IInv'
<1> USE DEF IInv, LockRequest, Enters, directory, tables
<1>1. call[c] \in Call
  BY DEF TypeOK
<1>2. /\ call' = [call EXCEPT ![c] = call'[c]]
      /\ call'[c] \in Call
      /\ call'[c].op = call[c].op /\ call'[c].as = call[c].as
      /\ call'[c].req = call[c].req /\ call'[c].at = status[call[c].req]
  BY <1>1 DEF TypeOK, Call
<1>3. CanDecide(call[c].as, status[call[c].req])
  BY DEF MayDecide, MayDelegate, CallsInOrder, CanDecide
<1>4. call[c].op = "delegate" => status[call[c].req] = "menunggu_atasan"
  BY DEF MayDecide, MayDelegate
<1>5. TypeOK'
  BY <1>2, NullsAssumption DEF TypeOK, Steps
<1>6. OneWriterPerRequest'
  <2>1. \A d \in Calls, r \in Requests :
          Holds(d, r)' => Holds(d, r) \/ (d = c /\ r = call[c].req)
    BY <1>2 DEF TypeOK, Holds
  <2>2. \A d \in Calls : ~Holds(d, call[c].req)
    BY DEF RowLocked
  <2>3. \A j \in Jobs : call[c].req \notin claim[j]
    BY DEF RowLocked
  <2> QED BY <2>1, <2>2, <2>3 DEF OneWriterPerRequest
<1>7. DecidesWhatItRead'
  BY <1>2, <1>3 DEF TypeOK, DecidesWhatItRead
<1>8. CallsInOrder'
  BY <1>2, <1>4 DEF TypeOK, CallsInOrder
<1>9. RoutedOnce'
  BY <1>2 DEF TypeOK, RoutedOnce
<1>10. ChargesReserved'
  BY <1>2 DEF TypeOK, ChargesReserved, MustCharge, NextStatus, Affordable
<1> QED BY <1>5, <1>6, <1>7, <1>8, <1>9, <1>10

LEMMA DeductInv ==
  ASSUME IInv, NEW c \in Calls, Deduct(c)
  PROVE  IInv'
<1> USE DEF IInv, Deduct, Enters, directory, tables
<1>5. TypeOK'
  BY NullsAssumption DEF TypeOK, Steps
<1>6. OneWriterPerRequest'
  BY DEF TypeOK, OneWriterPerRequest, Holds
<1>7. DecidesWhatItRead'
  BY DEF TypeOK, DecidesWhatItRead
<1>8. CallsInOrder'
  BY DEF TypeOK, CallsInOrder
<1>9. RoutedOnce'
  BY DEF TypeOK, RoutedOnce
<1>10. ChargesReserved'
  BY DEF TypeOK, ChargesReserved, MustCharge, NextStatus, Affordable, BalanceLocked
<1> QED BY <1>5, <1>6, <1>7, <1>8, <1>9, <1>10

LEMMA EndInv ==
  ASSUME IInv, NEW c \in Calls, Ends(c), pc[c] # "idle",
         UNCHANGED <<staff, leaveType, staffEdits, typeEdits, tables, overdue, claim>>, faults' \in Nat
  PROVE  IInv'
<1> USE DEF IInv, Ends, directory, tables
<1>5. TypeOK'
  BY NullsAssumption DEF TypeOK, Steps
<1>6. OneWriterPerRequest'
  BY DEF TypeOK, OneWriterPerRequest, Holds
<1>7. DecidesWhatItRead'
  BY DEF TypeOK, DecidesWhatItRead
<1>8. CallsInOrder'
  BY DEF TypeOK, CallsInOrder
<1>9. RoutedOnce'
  BY DEF TypeOK, RoutedOnce
<1>10. ChargesReserved'
  BY DEF TypeOK, ChargesReserved, MustCharge, NextStatus, Affordable
<1> QED BY <1>5, <1>6, <1>7, <1>8, <1>9, <1>10

LEMMA CommitSubmissionInv ==
  ASSUME IInv, NEW c \in Calls, CommitSubmission(c)
  PROVE  IInv'
<1> DEFINE r == call[c].req
<1> USE DEF IInv, CommitSubmission, Ends, directory, tables
<1>1. /\ call[c] \in Call /\ r \in Requests /\ call[c].actor \in Users
      /\ call[c].at \in Pending /\ status[r] = "belum_ada"
  BY DEF TypeOK, Call, CallsInOrder
<1>2. inbox' \subseteq Notification
  <2>1. StageForStatus(call[c].at) \in Stages /\ call[c].at \in Statuses /\ Kind[r] \in {"leave", "overtime"}
    BY <1>1, RequestAssumption DEF Pending, StageForStatus, Stages, Statuses
  <2>2. ApproverDrafts(staff, Kind[r], r, call[c].actor, call[c].actor,
                       StageForStatus(call[c].at)) \subseteq Notification
    BY <1>1, <2>1, DraftsType
  <2>3. inbox \subseteq Notification
    BY DEF TypeOK, Notification
  <2> QED BY <2>2, <2>3, InsertType
<1>3. \A d \in Calls : pc'[d] = "idle" \/ (d # c /\ pc'[d] = pc[d] /\ call'[d] = call[d])
  BY DEF TypeOK
<1>4. \A q \in Requests : status'[q] = IF q = r THEN call[c].at ELSE status[q]
  BY <1>1 DEF TypeOK
<1>5. TypeOK'
  BY <1>1, <1>2, NullsAssumption DEF TypeOK, Steps, Notification, Statuses
<1>6. OneWriterPerRequest'
  BY <1>3 DEF OneWriterPerRequest, Holds
<1>7. DecidesWhatItRead'
  <2>1. \A d \in Calls : pc[d] \in {"locked", "charged"} => call[d].req \in Requests /\ call[d].req # r
    BY <1>1 DEF TypeOK, Call, DecidesWhatItRead, CanDecide
  <2>2. \A j \in Jobs : \A q \in claim[j] : q \in Requests /\ q # r
    BY <1>1 DEF TypeOK, DecidesWhatItRead
  <2> QED BY <1>3, <1>4, <2>1, <2>2 DEF DecidesWhatItRead
<1>8. CallsInOrder'
  <2>1. \A d \in Calls : pc[d] = "routed" /\ d # c => call[d].req \in Requests /\ call[d].req # r
    BY DEF TypeOK, Call, RoutedOnce
  <2> QED BY <1>3, <1>4, <2>1 DEF CallsInOrder
<1>9. RoutedOnce'
  BY <1>3 DEF RoutedOnce
<1>10. ChargesReserved'
  BY <1>3 DEF ChargesReserved, MustCharge, NextStatus, Affordable
<1> QED BY <1>5, <1>6, <1>7, <1>8, <1>9, <1>10

(* what the record of a deciding call is worth when it commits *)
LEMMA DeciderFacts ==
  ASSUME IInv, NEW c \in Calls, pc[c] \in {"locked", "charged"}
  PROVE  /\ call[c] \in Call /\ call[c].req \in Requests
         /\ call[c].actor \in Users
         /\ call[c].op \in {"approve", "reject", "delegate"}
         /\ call[c].at \in Pending
         /\ StageForStatus(call[c].at) \in Stages
         /\ NextStatus(c) \in Statuses \ {"belum_ada", "menunggu_atasan"}
         /\ status[call[c].req] = call[c].at
<1>1. /\ call[c] \in Call
      /\ call[c].op \in {"approve", "reject", "delegate"}
      /\ CanDecide(call[c].as, call[c].at)
      /\ status[call[c].req] = call[c].at
  BY DEF IInv, TypeOK, CallsInOrder, DecidesWhatItRead
<1>2. call[c].at \in Pending
  BY <1>1 DEF CanDecide, Pending
<1>3. StageForStatus(call[c].at) \in Stages
  BY <1>2 DEF StageForStatus, Stages, Pending
<1>4. NextStatus(c) \in Statuses \ {"belum_ada", "menunggu_atasan"}
  BY <1>1 DEF NextStatus, NextStatusAfterApprove, Statuses, Pending, Settled
<1> QED BY <1>1, <1>2, <1>3, <1>4 DEF Call

LEMMA SettleInv ==
  ASSUME IInv, NEW c \in Calls, NEW drafts, Settle(c, drafts),
         drafts \subseteq Notification,
         \/ pc[c] = "locked" /\ used' = used
         \/ /\ pc[c] = "charged"
            /\ used' = [used EXCEPT ![Account[call[c].req]] = @ + Days[call[c].req]]
  PROVE  IInv'
<1> DEFINE r == call[c].req
           e == [stage |-> StageForStatus(call[c].at), by |-> call[c].actor,
                 decision |-> call[c].op]
<1> USE DEF IInv, Settle, Ends, directory
<1>1. pc[c] \in {"locked", "charged"}
  OBVIOUS
<1>2. /\ call[c] \in Call /\ r \in Requests /\ call[c].actor \in Users
      /\ call[c].op \in {"approve", "reject", "delegate"}
      /\ call[c].at \in Pending
      /\ StageForStatus(call[c].at) \in Stages
      /\ NextStatus(c) \in Statuses \ {"belum_ada", "menunggu_atasan"}
      /\ status[r] = call[c].at
  BY <1>1, DeciderFacts
<1>3. \A d \in Calls : pc'[d] = "idle" \/ (d # c /\ pc'[d] = pc[d] /\ call'[d] = call[d])
  BY DEF TypeOK
<1>4. \A q \in Requests : q # r => status'[q] = status[q]
  BY <1>2 DEF TypeOK
<1>5. TypeOK'
  <2>1. history' \in [Requests -> Seq(Entry)]
    <3>1. e \in Entry
      BY <1>2 DEF Entry, Decisions
    <3>2. history[r] \in Seq(Entry)
      BY <1>2 DEF TypeOK
    <3>3. Append(history[r], e) \in Seq(Entry)
      BY <3>1, <3>2
    <3>4. history' = [history EXCEPT ![r] = Append(history[r], e)]
      OBVIOUS
    <3> QED BY <3>3, <3>4 DEF TypeOK
  <2>2. used' \in [Accounts -> Nat]
    <3>1. Days[r] \in Nat
      BY <1>2, RequestAssumption
    <3>2. pc[c] = "charged" => Account[r] \in Accounts
      BY DEF ChargesReserved, Affordable
    <3>3. used \in [Accounts -> Nat]
      BY DEF TypeOK
    <3>4. CASE pc[c] = "locked" /\ used' = used
      BY <3>3, <3>4
    <3>5. CASE pc[c] = "charged" /\ used' = [used EXCEPT ![Account[r]] = @ + Days[r]]
      <4>1. used[Account[r]] + Days[r] \in Nat
        BY <3>1, <3>2, <3>3, <3>5
      <4> QED BY <3>3, <3>5, <4>1
    <3> QED BY <3>4, <3>5
  <2>3. inbox' \subseteq Notification
    BY InsertType DEF TypeOK, Notification
  <2>4. status' \in [Requests -> Statuses]
    BY <1>2 DEF TypeOK
  <2>5. pc' \in [Calls -> Steps] /\ call' \in [Calls -> Call \cup {NoCall}]
    BY DEF TypeOK, Steps
  <2>6. \A d \in Calls : pc'[d] = "idle" <=> call'[d] = NoCall
    BY NullsAssumption DEF TypeOK
  <2> QED BY <2>1, <2>2, <2>3, <2>4, <2>5, <2>6 DEF TypeOK, Notification
<1>6. OneWriterPerRequest'
  BY <1>3 DEF OneWriterPerRequest, Holds
<1>7. DecidesWhatItRead'
  <2>1. \A d \in Calls : pc[d] \in {"locked", "charged"} /\ d # c =>
          call[d].req \in Requests /\ call[d].req # r
    BY <1>1, <1>2 DEF TypeOK, Call, OneWriterPerRequest, Holds
  <2>2. \A j \in Jobs : \A q \in claim[j] : q \in Requests /\ q # r
    BY <1>1, <1>2 DEF TypeOK, OneWriterPerRequest, Holds
  <2> QED BY <1>3, <1>4, <2>1, <2>2 DEF DecidesWhatItRead
<1>8. CallsInOrder'
  <2>1. \A d \in Calls : pc[d] = "routed" => call[d].req \in Requests /\ call[d].req # r
    BY <1>2 DEF TypeOK, Call, CallsInOrder, Pending
  <2> QED BY <1>3, <1>4, <2>1 DEF CallsInOrder
<1>9. RoutedOnce'
  BY <1>3 DEF RoutedOnce
<1>10. ChargesReserved'
  <2>1. ASSUME NEW d \in Calls, pc'[d] = "charged"
        PROVE  /\ d # c /\ pc[d] = "charged" /\ call'[d] = call[d]
               /\ MustCharge(d) /\ Affordable(call[d].req)
    BY <1>3, <2>1 DEF ChargesReserved
  <2>2. ASSUME NEW d \in Calls, pc'[d] = "charged"
        PROVE  used'[Account[call[d].req]] = used[Account[call[d].req]]
    <3>1. d # c /\ pc[d] = "charged"
      BY <2>2, <2>1
    <3>2. pc[c] = "charged" => Account[call[d].req] # Account[r]
      BY <3>1 DEF ChargesReserved
    <3>3. CASE pc[c] = "locked" /\ used' = used
      BY <3>3
    <3>4. CASE pc[c] = "charged" /\ used' = [used EXCEPT ![Account[r]] = @ + Days[r]]
      BY <3>2, <3>4 DEF TypeOK
    <3> QED BY <3>3, <3>4
  <2> QED BY <2>1, <2>2 DEF ChargesReserved, MustCharge, NextStatus, Affordable
<1> QED BY <1>5, <1>6, <1>7, <1>8, <1>9, <1>10

LEMMA CommitLeaveDecisionInv ==
  ASSUME IInv, NEW c \in Calls, CommitLeaveDecision(c)
  PROVE  IInv'
<1>1. DecisionEvent(c) \subseteq Notification
  BY DeciderFacts, DraftsType, RequestAssumption
     DEF IInv, CommitLeaveDecision, DecisionEvent
<1> QED BY <1>1, SettleInv DEF CommitLeaveDecision

LEMMA CommitOvertimeDecisionInv ==
  ASSUME IInv, NEW c \in Calls, CommitOvertimeDecision(c)
  PROVE  IInv'
<1>1. DecisionEvent(c) \subseteq Notification
  BY DeciderFacts, DraftsType, RequestAssumption
     DEF IInv, CommitOvertimeDecision, DecisionEvent
<1> QED BY <1>1, SettleInv DEF CommitOvertimeDecision

LEMMA CommitDelegationInv ==
  ASSUME IInv, NEW c \in Calls, CommitDelegation(c)
  PROVE  IInv'
<1> DEFINE drafts == HandoffDrafts(staff, "delegated", call[c].req, Owner[call[c].req], call[c].actor)
<1>1. drafts \subseteq Notification
  <2>1. /\ call[c].req \in Requests /\ Kind[call[c].req] \in {"leave", "overtime"}
        /\ Owner[call[c].req] \in Users
        /\ "atasan" \in Stages /\ "disetujui" \in Statuses
    BY DeciderFacts, RequestAssumption DEF CommitDelegation, Stages, Statuses, Settled
  <2> QED BY <2>1, DraftsType DEF IInv
<1> QED BY <1>1, SettleInv DEF CommitDelegation

LEMMA ClaimInv ==
  ASSUME IInv, NEW j \in Jobs, ClaimEscalatableRequests(j)
  PROVE  IInv'
<1> USE DEF IInv, ClaimEscalatableRequests, directory, tables
<1>1. PICK S \in SUBSET Escalatable(j) : claim' = [claim EXCEPT ![j] = S]
  OBVIOUS
<1>2. \A r \in S : /\ r \in Requests /\ status[r] = "menunggu_atasan"
                   /\ ~RowLocked(r)
  BY DEF Escalatable, TypeOK
<1>3. TypeOK'
  BY <1>1, <1>2 DEF TypeOK
<1>4. OneWriterPerRequest'
  <2>1. \A i \in Jobs, r \in Requests : r \in claim'[i] => r \in claim[i] \/ (i = j /\ r \in S)
    BY <1>1 DEF TypeOK
  <2>2. \A r \in S : (\A c \in Calls : ~Holds(c, r)) /\ (\A i \in Jobs : r \notin claim[i])
    BY <1>2 DEF RowLocked
  <2>3. \A c \in Calls, r \in Requests : Holds(c, r)' <=> Holds(c, r)
    BY DEF Holds
  <2> QED BY <2>1, <2>2, <2>3 DEF OneWriterPerRequest
<1>5. DecidesWhatItRead'
  BY <1>1, <1>2 DEF TypeOK, DecidesWhatItRead
<1>6. CallsInOrder' /\ RoutedOnce'
  BY DEF CallsInOrder, RoutedOnce
<1>7. ChargesReserved'
  BY DEF ChargesReserved, MustCharge, NextStatus, Affordable
<1> QED BY <1>3, <1>4, <1>5, <1>6, <1>7

LEMMA CommitEscalationInv ==
  ASSUME IInv, NEW j \in Jobs, CommitEscalation(j)
  PROVE  IInv'
<1> USE DEF IInv, CommitEscalation, directory
<1> DEFINE e == [stage |-> "atasan", by |-> NoUser, decision |-> "auto_escalate"]
           drafts == UNION {HandoffDrafts(staff, "auto_escalated", r, Owner[r], NoUser) : r \in claim[j]}
<1>1. claim[j] \subseteq Requests
  BY DEF TypeOK
<1>2. drafts \subseteq Notification
  <2>1. ASSUME NEW r \in claim[j]
        PROVE  HandoffDrafts(staff, "auto_escalated", r, Owner[r], NoUser) \subseteq Notification
    <3>1. /\ r \in Requests /\ Kind[r] \in {"leave", "overtime"} /\ Owner[r] \in Users
          /\ "atasan" \in Stages /\ "disetujui" \in Statuses
      BY <1>1, RequestAssumption DEF Stages, Statuses, Settled
    <3> QED BY <3>1, DraftsType
  <2> QED BY <2>1
<1>3. TypeOK'
  <2>1. history' \in [Requests -> Seq(Entry)]
    <3>1. e \in Entry
      BY DEF Entry, Stages, Decisions
    <3>2. \A r \in Requests : Append(history[r], e) \in Seq(Entry)
      BY <3>1 DEF TypeOK
    <3> QED BY <3>2 DEF TypeOK
  <2>2. status' \in [Requests -> Statuses]
    BY DEF TypeOK, Statuses, Pending
  <2>3. inbox' \subseteq Notification
    BY <1>2, InsertType DEF TypeOK, Notification
  <2> QED BY <2>1, <2>2, <2>3 DEF TypeOK, Notification
<1>4. OneWriterPerRequest'
  <2>1. \A i \in Jobs : claim'[i] \subseteq claim[i]
    BY DEF TypeOK
  <2>2. \A c \in Calls, r \in Requests : Holds(c, r)' <=> Holds(c, r)
    BY DEF Holds
  <2> QED BY <2>1, <2>2 DEF OneWriterPerRequest
<1>5. DecidesWhatItRead'
  <2>1. \A c \in Calls : pc[c] \in {"locked", "charged"} =>
          call[c].req \in Requests /\ call[c].req \notin claim[j]
    BY DEF TypeOK, Call, OneWriterPerRequest, Holds
  <2>2. \A i \in Jobs : \A r \in claim'[i] : r \in Requests /\ r \in claim[i] /\ r \notin claim[j]
    BY DEF TypeOK, OneWriterPerRequest
  <2> QED BY <2>1, <2>2 DEF DecidesWhatItRead
<1>6. CallsInOrder'
  <2>1. \A c \in Calls : pc[c] = "routed" =>
          call[c].req \in Requests /\ call[c].req \notin claim[j]
    BY DEF TypeOK, Call, CallsInOrder
  <2> QED BY <2>1 DEF CallsInOrder
<1>7. RoutedOnce'
  BY DEF RoutedOnce
<1>8. ChargesReserved'
  BY DEF ChargesReserved, MustCharge, NextStatus, Affordable
<1> QED BY <1>3, <1>4, <1>5, <1>6, <1>7, <1>8

(* what neither calls nor tables notice: the release of a batch, the clock  *)
(* and the edits of HR                                                      *)
LEMMA QuietInv ==
  ASSUME IInv, UNCHANGED <<tables, pc, call>>,
         staff' \in [Users -> Staff], leaveType' \in [LeaveTypes -> LeaveType],
         overdue' \in SUBSET Requests, claim' \in [Jobs -> SUBSET Requests],
         \A j \in Jobs : claim'[j] \subseteq claim[j],
         staffEdits' \in Nat, typeEdits' \in Nat, faults' \in Nat
  PROVE  IInv'
<1> USE DEF IInv, tables
<1>1. TypeOK'
  BY DEF TypeOK
<1>2. OneWriterPerRequest' /\ DecidesWhatItRead'
  BY DEF OneWriterPerRequest, Holds, DecidesWhatItRead
<1>3. CallsInOrder' /\ RoutedOnce'
  BY DEF CallsInOrder, RoutedOnce
<1>4. ChargesReserved'
  BY DEF ChargesReserved, MustCharge, NextStatus, Affordable
<1> QED BY <1>1, <1>2, <1>3, <1>4

LEMMA EditInv ==
  ASSUME IInv, Edit
  PROVE  IInv'
<1> USE DEF tables
<1>1. ASSUME NEW u \in Users, NEW new \in Staff, EditStaff(u, new)
      PROVE  IInv'
  BY <1>1, QuietInv DEF EditStaff, IInv, TypeOK
<1>2. ASSUME NEW u \in Users, UpdateEmployee(u)
      PROVE  IInv'
  BY <1>1, <1>2 DEF UpdateEmployee, Staff
<1>3. ASSUME NEW u \in Users, Deactivate(u)
      PROVE  IInv'
  <2>1. [staff[u] EXCEPT !.active = FALSE] \in Staff
    BY DEF IInv, TypeOK, Staff
  <2> QED BY <1>1, <1>3, <2>1 DEF Deactivate
<1>4. ASSUME NEW t \in LeaveTypes, UpdateLeaveType(t)
      PROVE  IInv'
  <2>1. leaveType' \in [LeaveTypes -> LeaveType]
    BY <1>4, TypesAssumption DEF UpdateLeaveType, LeaveType, IInv, TypeOK
  <2> QED BY <1>4, <2>1, QuietInv DEF UpdateLeaveType, IInv, TypeOK
<1> QED BY <1>2, <1>3, <1>4 DEF Edit

LEMMA StepInv == IInv /\ [Next]_vars => IInv'
<1> SUFFICES ASSUME IInv, [Next]_vars PROVE IInv'
  OBVIOUS
<1>1. ASSUME NEW c \in Calls, Submission(c) PROVE IInv'
  BY <1>1, RouteInv, CommitSubmissionInv DEF Submission, RouteLeave, RouteOvertime
<1>2. ASSUME NEW c \in Calls, Request(c) PROVE IInv'
  BY <1>2, BeginInv DEF Request, BeginDecide, BeginDelegate
<1>3. ASSUME NEW c \in Calls, Decision(c) PROVE IInv'
  <2>1. CASE ReadLeaveForDecision(c) \/ ReadOvertimeForDecision(c)
    BY <2>1, ReadInv DEF ReadLeaveForDecision, ReadOvertimeForDecision, Chargeable
  <2>2. CASE LockRequest(c)
    BY <2>2, LockInv
  <2>3. CASE Refuse(c) \/ InsufficientBalance(c)
    BY <2>3, EndInv DEF Refuse, InsufficientBalance, directory, IInv, TypeOK
  <2>4. CASE Deduct(c)
    BY <2>4, DeductInv
  <2>5. CASE CommitLeaveDecision(c) \/ CommitOvertimeDecision(c) \/ CommitDelegation(c)
    BY <2>5, CommitLeaveDecisionInv, CommitOvertimeDecisionInv, CommitDelegationInv
  <2> QED BY <1>3, <2>1, <2>2, <2>3, <2>4, <2>5 DEF Decision
<1>4. ASSUME NEW c \in Calls, Rollback(c) PROVE IInv'
  BY <1>4, EndInv DEF Rollback, directory, IInv, TypeOK
<1>5. ASSUME NEW j \in Jobs, Escalation(j) PROVE IInv'
  <2>1. CASE ClaimEscalatableRequests(j)
    BY <2>1, ClaimInv
  <2>2. CASE CommitEscalation(j)
    BY <2>2, CommitEscalationInv
  <2>3. CASE RollbackEscalation(j)
    BY <2>3, QuietInv DEF RollbackEscalation, directory, IInv, TypeOK
  <2> QED BY <1>5, <2>1, <2>2, <2>3 DEF Escalation
<1>6. ASSUME NEW r \in Requests, SlaExpires(r) PROVE IInv'
  BY <1>6, QuietInv DEF SlaExpires, directory, IInv, TypeOK
<1>7. CASE Edit
  BY <1>7, EditInv
<1>8. CASE UNCHANGED vars
  BY <1>8, QuietInv DEF vars, directory, IInv, TypeOK
<1> QED BY <1>1, <1>2, <1>3, <1>4, <1>5, <1>6, <1>7, <1>8 DEF Next

(* The inductive invariant holds in every reachable state. *)
THEOREM Invariance == Spec => []IInv
BY InitInv, StepInv, PTL DEF Spec

(* Tables, call records and claims keep their types, for any company, any   *)
(* number of concurrent calls and jobs, and any edits.                      *)
THEOREM TypeCorrect == Spec => []TypeOK
BY Invariance, PTL DEF IInv

(* At most one decision, delegation or escalation at a time writes a given  *)
(* request.                                                                 *)
THEOREM MutualExclusion == Spec => []OneWriterPerRequest
BY Invariance, PTL DEF IInv

(* What was validated under the row lock still holds at the commit: the     *)
(* conditional status update of Decide, Delegate and escalate never loses.  *)
THEOREM DecisionsAreCurrent == Spec => []DecidesWhatItRead
BY Invariance, PTL DEF IInv
-----------------------------------------------------------------------------
(* The tables that the decisions write: how every action may change them.   *)

LEMMA TablesStep ==
  ASSUME IInv, [Next]_vars
  PROVE  \/ UNCHANGED tables
         \/ \E c \in Calls : \/ CommitSubmission(c)
                             \/ CommitLeaveDecision(c)
                             \/ CommitOvertimeDecision(c)
                             \/ CommitDelegation(c)
         \/ \E j \in Jobs : CommitEscalation(j)
<1>1. ASSUME NEW c \in Calls, Submission(c) PROVE UNCHANGED tables \/ CommitSubmission(c)
  BY <1>1 DEF Submission, RouteLeave, RouteOvertime, Route
<1>2. ASSUME NEW c \in Calls, Request(c) PROVE UNCHANGED tables
  BY <1>2 DEF Request, BeginDecide, BeginDelegate, Begin
<1>3. ASSUME NEW c \in Calls, Decision(c)
      PROVE  \/ UNCHANGED tables \/ CommitLeaveDecision(c)
             \/ CommitOvertimeDecision(c) \/ CommitDelegation(c)
  BY <1>3 DEF Decision, ReadLeaveForDecision, ReadOvertimeForDecision, ReadForDecision,
              LockRequest, Refuse, Deduct, InsufficientBalance
<1>4. ASSUME NEW c \in Calls, Rollback(c) PROVE UNCHANGED tables
  BY <1>4 DEF Rollback
<1>5. ASSUME NEW j \in Jobs, Escalation(j) PROVE UNCHANGED tables \/ CommitEscalation(j)
  BY <1>5 DEF Escalation, ClaimEscalatableRequests, RollbackEscalation
<1>6. ASSUME NEW r \in Requests, SlaExpires(r) PROVE UNCHANGED tables
  BY <1>6 DEF SlaExpires
<1>7. CASE Edit
  BY <1>7 DEF Edit, UpdateEmployee, Deactivate, EditStaff, UpdateLeaveType
<1>8. CASE UNCHANGED vars
  BY <1>8 DEF vars
<1> QED BY <1>1, <1>2, <1>3, <1>4, <1>5, <1>6, <1>7, <1>8 DEF Next

(* No approval, and no two of them, overdraws a balance row. *)
THEOREM BalanceSafety == Spec => []NoOverdraft
<1>1. Init => NoOverdraft
  BY RequestAssumption DEF Init, NoOverdraft
<1>2. IInv /\ NoOverdraft /\ [Next]_vars => NoOverdraft'
  <2> SUFFICES ASSUME IInv, NoOverdraft, [Next]_vars PROVE NoOverdraft'
    OBVIOUS
  <2>1. ASSUME NEW c \in Calls, CommitLeaveDecision(c) PROVE NoOverdraft'
    <3>1. CASE used' = used
      BY <3>1 DEF NoOverdraft
    <3>2. CASE pc[c] = "charged" /\ used' = [used EXCEPT ![Account[call[c].req]] = @ + Days[call[c].req]]
      BY <3>2 DEF NoOverdraft, IInv, TypeOK, ChargesReserved, Affordable
    <3> QED BY <2>1, <3>1, <3>2 DEF CommitLeaveDecision
  <2>2. UNCHANGED used => NoOverdraft'
    BY DEF NoOverdraft
  <2>3. ASSUME NEW c \in Calls,
               CommitSubmission(c) \/ CommitOvertimeDecision(c) \/ CommitDelegation(c)
        PROVE  UNCHANGED used
    BY <2>3 DEF CommitSubmission, CommitOvertimeDecision, CommitDelegation
  <2>4. ASSUME NEW j \in Jobs, CommitEscalation(j) PROVE UNCHANGED used
    BY <2>4 DEF CommitEscalation
  <2>5. UNCHANGED tables => UNCHANGED used
    BY DEF tables
  <2> QED BY TablesStep, <2>1, <2>2, <2>3, <2>4, <2>5
<1> QED BY <1>1, <1>2, Invariance, PTL DEF Spec
-----------------------------------------------------------------------------
(* one more entry explains one more step *)
LEMMA AppendExplains ==
  ASSUME NEW h \in Seq(Entry), NEW e \in Entry, NEW s \in Pending, NEW next \in Statuses,
         Explains(h, s),
         e.stage = StageForStatus(s), next = Outcome(e),
         e.decision \in {"delegate", "auto_escalate"} => e.stage = "atasan",
         e.by = NoUser <=> e.decision = "auto_escalate"
  PROVE  Explains(Append(h, e), next)
<1> DEFINE g == Append(h, e)
<1>1. /\ g \in Seq(Entry) /\ Len(g) = Len(h) + 1 /\ Len(h) \in Nat
      /\ g[Len(g)] = e
      /\ \A i \in 1..Len(h) : g[i] = h[i]
  OBVIOUS
<1>2. h # <<>> => /\ h[Len(h)].stage = "atasan" /\ Outcome(h[Len(h)]) = "menunggu_hr"
                  /\ e.stage = "hr"
  <2> SUFFICES ASSUME h # <<>> PROVE /\ h[Len(h)].stage = "atasan"
                                     /\ Outcome(h[Len(h)]) = "menunggu_hr"
                                     /\ e.stage = "hr"
    OBVIOUS
  <2>1. s = Outcome(h[Len(h)])
    BY DEF Explains
  <2>2. s = "menunggu_hr" /\ h[Len(h)].stage = "atasan"
    BY <2>1 DEF Outcome, Pending
  <2> QED BY <2>1, <2>2 DEF StageForStatus
<1>3. h = <<>> => Len(h) = 0
  OBVIOUS
<1>4. ASSUME NEW i \in 1..Len(g)
      PROVE  /\ i < Len(g) => g[i].stage = "atasan" /\ Outcome(g[i]) = "menunggu_hr"
             /\ i > 1 => g[i].stage = "hr"
             /\ g[i].decision \in {"delegate", "auto_escalate"} => g[i].stage = "atasan"
             /\ g[i].by = NoUser <=> g[i].decision = "auto_escalate"
  <2>1. CASE i = Len(g)
    BY <1>1, <1>2, <1>3, <2>1
  <2>2. CASE i < Len(g)
    <3>1. i \in 1..Len(h) /\ g[i] = h[i] /\ h # <<>>
      BY <1>1, <2>2
    <3>2. i < Len(h) \/ i = Len(h)
      BY <3>1, <1>1
    <3> QED BY <3>1, <3>2, <1>2 DEF Explains
  <2> QED BY <2>1, <2>2, <1>1
<1>5. g # <<>>
  BY <1>1
<1> QED BY <1>1, <1>4, <1>5 DEF Explains

HInv ==
  /\ HistoryExplainsStatus
  /\ \A r \in Requests : status[r] = "belum_ada" => history[r] = <<>>

LEMMA SettleHistory ==
  ASSUME IInv, HInv, NEW c \in Calls, pc[c] \in {"locked", "charged"},
         NEW drafts, Settle(c, drafts)
  PROVE  HInv'
<1> DEFINE r == call[c].req
           e == [stage |-> StageForStatus(call[c].at), by |-> call[c].actor,
                 decision |-> call[c].op]
<1>1. /\ call[c] \in Call /\ r \in Requests /\ call[c].actor \in Users
      /\ call[c].op \in {"approve", "reject", "delegate"}
      /\ call[c].at \in Pending
      /\ e.stage \in Stages
      /\ NextStatus(c) \in Statuses \ {"belum_ada", "menunggu_atasan"}
      /\ status[r] = call[c].at
  BY DeciderFacts
<1>2. call[c].op = "delegate" => call[c].at = "menunggu_atasan"
  BY DEF IInv, CallsInOrder
<1>3. e \in Entry /\ history[r] \in Seq(Entry)
  BY <1>1 DEF Entry, Decisions, IInv, TypeOK
<1>4. NextStatus(c) = Outcome(e)
  <2>1. CASE call[c].op = "reject"
    <3>1. NextStatus(c) = "ditolak"
      BY <2>1 DEF NextStatus
    <3>2. Outcome(e) = "ditolak"
      BY <2>1 DEF Outcome
    <3> QED BY <3>1, <3>2
  <2>2. CASE call[c].op = "delegate"
    BY <1>2, <2>2 DEF NextStatus, Outcome, StageForStatus
  <2>3. CASE call[c].op = "approve"
    BY <1>1, <2>3 DEF NextStatus, NextStatusAfterApprove, Outcome, StageForStatus, Pending
  <2> QED BY <1>1, <2>1, <2>2, <2>3
<1>5. /\ e.decision \in {"delegate", "auto_escalate"} => e.stage = "atasan"
      /\ e.by = NoUser <=> e.decision = "auto_escalate"
  BY <1>1, <1>2, NullsAssumption DEF StageForStatus
<1>6. Explains(Append(history[r], e), NextStatus(c))
  BY <1>1, <1>3, <1>4, <1>5, AppendExplains DEF HInv, HistoryExplainsStatus
<1>7. /\ \A q \in Requests \ {r} : status'[q] = status[q] /\ history'[q] = history[q]
      /\ status'[r] = NextStatus(c) /\ history'[r] = Append(history[r], e)
  BY <1>1 DEF Settle, IInv, TypeOK
<1> QED BY <1>1, <1>6, <1>7 DEF HInv, HistoryExplainsStatus

LEMMA EscalationHistory ==
  ASSUME IInv, HInv, NEW j \in Jobs, CommitEscalation(j)
  PROVE  HInv'
<1> DEFINE e == [stage |-> "atasan", by |-> NoUser, decision |-> "auto_escalate"]
<1>1. ASSUME NEW r \in Requests, r \in claim[j]
      PROVE  Explains(Append(history[r], e), "menunggu_hr")
  <2>1. e \in Entry /\ history[r] \in Seq(Entry) /\ status[r] = "menunggu_atasan"
    BY <1>1 DEF Entry, Stages, Decisions, IInv, TypeOK, DecidesWhatItRead
  <2>2. "menunggu_hr" = Outcome(e) /\ e.stage = StageForStatus(status[r])
    BY <2>1 DEF Outcome, StageForStatus
  <2>3. status[r] \in Pending /\ "menunggu_hr" \in Statuses
    BY <2>1 DEF Pending, Statuses
  <2> QED BY <1>1, <2>1, <2>2, <2>3, AppendExplains DEF HInv, HistoryExplainsStatus
<1> QED BY <1>1 DEF CommitEscalation, HInv, HistoryExplainsStatus

LEMMA SubmissionHistory ==
  ASSUME IInv, HInv, NEW c \in Calls, CommitSubmission(c)
  PROVE  HInv'
<1> DEFINE r == call[c].req
<1>1. r \in Requests /\ call[c].at \in Pending /\ status[r] = "belum_ada"
  BY DEF IInv, TypeOK, Call, CallsInOrder, CommitSubmission
<1>2. history[r] = <<>> /\ Explains(history[r], status[r])
  BY <1>1 DEF HInv, HistoryExplainsStatus
<1>3. Explains(history[r], call[c].at)
  BY <1>1, <1>2 DEF Explains, Pending, Settled
<1>4. /\ \A q \in Requests \ {r} : status'[q] = status[q]
      /\ status'[r] = call[c].at /\ history' = history
  BY <1>1 DEF CommitSubmission, IInv, TypeOK
<1> QED BY <1>1, <1>2, <1>3, <1>4 DEF HInv, HistoryExplainsStatus, Pending

(* The history explains the status of every request, however its decisions, *)
(* its escalation, their rollbacks and the edits of HR interleave.          *)
THEOREM HistoryIsFaithful == Spec => []HistoryExplainsStatus
<1>1. Init => HInv
  BY DEF Init, HInv, HistoryExplainsStatus, Explains, Settled
<1>2. IInv /\ HInv /\ [Next]_vars => HInv'
  <2> SUFFICES ASSUME IInv, HInv, [Next]_vars PROVE HInv'
    OBVIOUS
  <2>1. ASSUME NEW c \in Calls,
               CommitLeaveDecision(c) \/ CommitOvertimeDecision(c) \/ CommitDelegation(c)
        PROVE  HInv'
    BY <2>1, SettleHistory DEF CommitLeaveDecision, CommitOvertimeDecision, CommitDelegation
  <2>2. UNCHANGED tables => HInv'
    BY DEF tables, HInv, HistoryExplainsStatus
  <2> QED BY TablesStep, <2>1, <2>2, SubmissionHistory, EscalationHistory
<1>3. HInv => HistoryExplainsStatus
  BY DEF HInv
<1> QED BY <1>1, <1>2, <1>3, Invariance, PTL DEF Spec
-----------------------------------------------------------------------------
(* Notifications have only the fields of their event key: what Insert leaves *)
(* out is there already.                                                     *)
LEMMA InsertAddsAll ==
  ASSUME NEW drafts, inbox \subseteq Notification, drafts \subseteq Notification
  PROVE  Insert(inbox, drafts) = inbox \cup drafts
<1>1. ASSUME NEW m \in Notification, NEW n \in Notification,
             NotificationEventKey(m) = NotificationEventKey(n)
      PROVE  m = n
  <2>1. m.type = n.type /\ m.ref = n.ref /\ m.stage = n.stage /\ m.to = n.to
    BY <1>1 DEF NotificationEventKey
  <2> QED BY <2>1 DEF Notification
<1> QED BY <1>1 DEF Insert

(* About his own request a user gets no notification as an approver. *)
LEMMA ApproversAreOthers ==
  ASSUME NEW r, NEW kind, NEW requester, NEW actor, NEW stage,
         NEW n \in ApproverDrafts(staff, kind, r, requester, actor, stage)
  PROVE  n.ref = r /\ n.to # requester
  BY DEF ApproverDrafts, SkipSelfNotify, Draft

(* The notifications of r to its requester. *)
Told(r) == {n \in inbox : n.ref = r /\ n.to = Owner[r]}
Records(r) ==
  {Draft(ToldAs(history[r][i]), r, history[r][i].stage, Owner[r]) : i \in DOMAIN history[r]}

LEMMA AppendRecords ==
  ASSUME NEW r \in Requests, history[r] \in Seq(Entry), NEW e \in Entry,
         history'[r] = Append(history[r], e)
  PROVE  Records(r)' = Records(r) \cup {Draft(ToldAs(e), r, e.stage, Owner[r])}
<1> DEFINE h == history[r]
           D(x) == Draft(ToldAs(x), r, x.stage, Owner[r])
<1>1. /\ DOMAIN h = 1..Len(h) /\ Len(h) \in Nat
      /\ DOMAIN history'[r] = 1..(Len(h) + 1)
      /\ history'[r][Len(h) + 1] = e
      /\ \A i \in 1..Len(h) : history'[r][i] = h[i]
  OBVIOUS
<1>2. Records(r)' = {D(history'[r][i]) : i \in 1..(Len(h) + 1)}
  BY <1>1 DEF Records
<1>3. Records(r) = {D(h[i]) : i \in 1..Len(h)}
  BY <1>1 DEF Records
<1>4. 1..(Len(h) + 1) = 1..Len(h) \cup {Len(h) + 1}
  BY <1>1
<1> HIDE DEF h, D
<1> QED BY <1>1, <1>2, <1>3, <1>4 DEF h, D

LEMMA SettleTells ==
  ASSUME IInv, InboxTellsHistory, NEW c \in Calls, pc[c] \in {"locked", "charged"},
         NEW drafts, drafts \subseteq Notification, Settle(c, drafts),
         \A n \in drafts : n.ref = call[c].req,
         {n \in drafts : n.to = Owner[call[c].req]} =
           {Draft(ToldAs([decision |-> call[c].op]), call[c].req,
                  StageForStatus(call[c].at), Owner[call[c].req])}
  PROVE  InboxTellsHistory'
<1> PICK r \in Requests : r = call[c].req
  BY DeciderFacts
<1> PICK e \in Entry : e = [stage |-> StageForStatus(call[c].at), by |-> call[c].actor,
                          decision |-> call[c].op]
  BY DeciderFacts DEF Entry, Decisions
<1>1. history[r] \in Seq(Entry)
  BY DEF IInv, TypeOK
<1>2. inbox' = inbox \cup drafts
  BY InsertAddsAll DEF Settle, IInv, TypeOK, Notification
<1>3. /\ history'[r] = Append(history[r], e)
      /\ \A q \in Requests \ {r} : history'[q] = history[q]
  BY <1>1 DEF Settle, IInv, TypeOK
<1>4. {n \in drafts : n.to = Owner[r]} = {Draft(ToldAs(e), r, e.stage, Owner[r])}
  <2>1. ToldAs(e) = ToldAs([decision |-> call[c].op]) /\ e.stage = StageForStatus(call[c].at)
    BY DEF ToldAs
  <2> QED BY <2>1
<1>5. \A q \in Requests : Told(q) = Records(q)
  BY DEF InboxTellsHistory, Told, Records
<1>6. Told(r)' = Records(r)'
  <2>1. Told(r)' = Told(r) \cup {Draft(ToldAs(e), r, e.stage, Owner[r])}
    BY <1>2, <1>4 DEF Told
  <2>2. Records(r)' = Records(r) \cup {Draft(ToldAs(e), r, e.stage, Owner[r])}
    BY <1>1, <1>3, AppendRecords
  <2> QED BY <1>1, <1>5, <2>1, <2>2
<1>7. ASSUME NEW q \in Requests \ {r} PROVE Told(q)' = Records(q)'
  <2>1. Told(q)' = Told(q)
    BY <1>2 DEF Told
  <2>2. Records(q)' = Records(q)
    BY <1>3 DEF Records
  <2> QED BY <1>5, <2>1, <2>2
<1> QED BY <1>6, <1>7 DEF InboxTellsHistory, Told, Records

LEMMA DecisionTells ==
  ASSUME IInv, InboxTellsHistory, NEW c \in Calls, pc[c] \in {"locked", "charged"},
         IsDecision(c), Settle(c, DecisionEvent(c))
  PROVE  InboxTellsHistory'
<1> DEFINE r == call[c].req
           stage == StageForStatus(call[c].at)
           next == NextStatus(c)
           told == DecisionNotification(r, Owner[r], stage, next)
<1>1. /\ r \in Requests /\ stage \in Stages /\ next \in Statuses
      /\ Owner[r] \in Users /\ Kind[r] \in {"leave", "overtime"} /\ call[c].at \in Pending
  BY DeciderFacts, RequestAssumption
<1>2. DecisionEvent(c) \subseteq Notification
  BY <1>1, DraftsType DEF DecisionEvent, IInv
<1>3. told = Draft(ToldAs([decision |-> call[c].op]), r, stage, Owner[r])
  <2>1. CASE call[c].op = "reject"
    BY <2>1 DEF NextStatus, DecisionNotification, ToldAs
  <2>2. CASE call[c].op = "approve"
    <3>1. next # "ditolak"
      BY <2>2 DEF NextStatus, NextStatusAfterApprove
    <3> QED BY <2>2, <3>1 DEF DecisionNotification, ToldAs
  <2> QED BY <2>1, <2>2 DEF IsDecision
<1>4. told.ref = r /\ told.to = Owner[r]
  BY <1>3 DEF Draft
<1>5. \A n \in DecisionEvent(c) : n = told \/ (n.ref = r /\ n.to # Owner[r])
  BY ApproversAreOthers DEF DecisionEvent, DecisionDrafts
<1>6. told \in DecisionEvent(c)
  BY DEF DecisionEvent, DecisionDrafts
<1> HIDE DEF told
<1> QED BY <1>2, <1>3, <1>4, <1>5, <1>6, SettleTells

(* A handover is told to its requester, with the decision as its type. *)
LEMMA HandoffTells ==
  ASSUME NEW r \in Requests, NEW type, NEW actor
  PROVE  LET drafts == HandoffDrafts(staff, type, r, Owner[r], actor) IN
         /\ \A n \in drafts : n.ref = r
         /\ {n \in drafts : n.to = Owner[r]} = {Draft(type, r, "atasan", Owner[r])}
  BY DEF HandoffDrafts, Draft

LEMMA DelegationTells ==
  ASSUME IInv, InboxTellsHistory, NEW c \in Calls, CommitDelegation(c)
  PROVE  InboxTellsHistory'
<1> DEFINE r == call[c].req
           drafts == HandoffDrafts(staff, "delegated", r, Owner[r], call[c].actor)
<1>1. /\ pc[c] \in {"locked", "charged"} /\ call[c].op = "delegate" /\ Settle(c, drafts)
  BY DEF CommitDelegation
<1>2. /\ r \in Requests /\ Owner[r] \in Users /\ Kind[r] \in {"leave", "overtime"}
      /\ "atasan" \in Stages /\ "disetujui" \in Statuses
  BY <1>1, DeciderFacts, RequestAssumption DEF Stages, Statuses, Settled
<1>3. drafts \subseteq Notification
  BY <1>2, DraftsType DEF IInv
<1>4. call[c].at = "menunggu_atasan"
  BY <1>1 DEF IInv, CallsInOrder
<1>5. ToldAs([decision |-> call[c].op]) = "delegated" /\ StageForStatus(call[c].at) = "atasan"
  BY <1>1, <1>4 DEF ToldAs, StageForStatus
<1>6. /\ \A n \in drafts : n.ref = r
      /\ {n \in drafts : n.to = Owner[r]} = {Draft("delegated", r, "atasan", Owner[r])}
  BY <1>2, HandoffTells
<1> HIDE DEF drafts
<1> QED BY <1>1, <1>3, <1>5, <1>6, SettleTells

LEMMA EscalationTells ==
  ASSUME IInv, InboxTellsHistory, NEW j \in Jobs, CommitEscalation(j)
  PROVE  InboxTellsHistory'
<1> DEFINE e == [stage |-> "atasan", by |-> NoUser, decision |-> "auto_escalate"]
           Batched(r) == HandoffDrafts(staff, "auto_escalated", r, Owner[r], NoUser)
           drafts == UNION {Batched(r) : r \in claim[j]}
<1>1. claim[j] \subseteq Requests /\ e \in Entry
  BY DEF IInv, TypeOK, Entry, Stages, Decisions
<1>2. drafts \subseteq Notification
  <2>1. ASSUME NEW r \in claim[j] PROVE Batched(r) \subseteq Notification
    <3>1. /\ r \in Requests /\ Kind[r] \in {"leave", "overtime"} /\ Owner[r] \in Users
          /\ "atasan" \in Stages /\ "disetujui" \in Statuses
      BY <1>1, RequestAssumption DEF Stages, Statuses, Settled
    <3> QED BY <3>1, DraftsType DEF IInv
  <2> QED BY <2>1
<1>3. inbox' = inbox \cup drafts
  BY <1>2, InsertAddsAll DEF CommitEscalation, IInv, TypeOK, Notification
<1>4. \A r \in Requests : Told(r) = Records(r)
  BY DEF InboxTellsHistory, Told, Records
<1>5. ASSUME NEW r \in Requests PROVE Told(r)' = Records(r)'
  <2>1. \A q \in claim[j] : \A n \in Batched(q) : n.ref = q
    BY <1>1, HandoffTells
  <2>2. CASE r \in claim[j]
    <3>1. Told(r)' = Told(r) \cup {n \in Batched(r) : n.to = Owner[r]}
      BY <1>3, <2>1, <2>2 DEF Told
    <3>2. Told(r)' = Told(r) \cup {Draft("auto_escalated", r, "atasan", Owner[r])}
      BY <3>1, HandoffTells
    <3>3. history'[r] = Append(history[r], e) /\ history[r] \in Seq(Entry)
      BY <2>2 DEF CommitEscalation, IInv, TypeOK
    <3>4. ToldAs(e) = "auto_escalated"
      BY DEF ToldAs
    <3>5. Records(r)' = Records(r) \cup {Draft("auto_escalated", r, "atasan", Owner[r])}
      BY <1>1, <3>3, <3>4, AppendRecords
    <3> QED BY <1>4, <3>2, <3>5
  <2>3. CASE r \notin claim[j]
    <3>1. Told(r)' = Told(r)
      BY <1>3, <2>1, <2>3 DEF Told
    <3>2. Records(r)' = Records(r)
      BY <2>3 DEF CommitEscalation, Records
    <3> QED BY <1>4, <3>1, <3>2
  <2> QED BY <2>2, <2>3
<1> QED BY <1>5 DEF InboxTellsHistory, Told, Records

LEMMA SubmissionTells ==
  ASSUME IInv, InboxTellsHistory, NEW c \in Calls, CommitSubmission(c)
  PROVE  InboxTellsHistory'
<1> DEFINE r == call[c].req
           drafts == ApproverDrafts(staff, Kind[r], r, call[c].actor, call[c].actor,
                                    StageForStatus(call[c].at))
<1>1. /\ r \in Requests /\ call[c].at \in Pending /\ call[c].actor = Owner[r]
      /\ Owner[r] \in Users /\ Kind[r] \in {"leave", "overtime"}
  BY RequestAssumption DEF IInv, TypeOK, Call, CallsInOrder, CommitSubmission
<1>2. drafts \subseteq Notification
  <2>1. StageForStatus(call[c].at) \in Stages /\ call[c].at \in Statuses
    BY <1>1 DEF Pending, StageForStatus, Stages, Statuses
  <2> QED BY <1>1, <2>1, DraftsType DEF IInv
<1>3. inbox' = inbox \cup drafts /\ history' = history
  BY <1>2, InsertAddsAll DEF CommitSubmission, IInv, TypeOK, Notification
<1>4. \A n \in drafts : n.ref = r /\ n.to # Owner[r]
  BY <1>1, ApproversAreOthers
<1>5. \A q \in Requests : Told(q)' = Told(q) /\ Records(q)' = Records(q)
  BY <1>3, <1>4 DEF Told, Records
<1> QED BY <1>5 DEF InboxTellsHistory, Told, Records

(* Whatever is edited meanwhile, rolled back or tried again: a requester has *)
(* one notification for each entry in the history of his request and no      *)
(* other about it (NotificationPublisher, inside the deciding transactions). *)
THEOREM RequestersAreTold == Spec => []InboxTellsHistory
<1>1. Init => InboxTellsHistory
  BY DEF Init, InboxTellsHistory
<1>2. IInv /\ InboxTellsHistory /\ [Next]_vars => InboxTellsHistory'
  <2> SUFFICES ASSUME IInv, InboxTellsHistory, [Next]_vars PROVE InboxTellsHistory'
    OBVIOUS
  <2>1. ASSUME NEW c \in Calls, CommitLeaveDecision(c) \/ CommitOvertimeDecision(c)
        PROVE  InboxTellsHistory'
    BY <2>1, DecisionTells DEF CommitLeaveDecision, CommitOvertimeDecision
  <2>2. UNCHANGED tables => InboxTellsHistory'
    BY DEF tables, InboxTellsHistory
  <2> QED BY TablesStep, <2>1, <2>2, DelegationTells, EscalationTells, SubmissionTells
<1> QED BY <1>1, <1>2, Invariance, PTL DEF Spec
-----------------------------------------------------------------------------
(* Who decides, by a directory that does not change.  A request waits at a   *)
(* stage that its owner is no part of, ...                                   *)
FitsOwner(r, s) ==
  /\ s = "menunggu_atasan" => staff[Owner[r]].role = "karyawan"
  /\ s = "menunggu_hr" => staff[Owner[r]].role \in {"karyawan", "atasan"}
  /\ s = "menunggu_top_management" => staff[Owner[r]].role = "hr"

RequestsFit == \A r \in Requests : FitsOwner(r, status[r])

(* ... and what a call knows of its actor and of the supervisor stays true.  *)
CallFits(c) ==
  /\ pc[c] = "routed" => FitsOwner(call[c].req, call[c].at)
  /\ pc[c] \in {"called", "waiting", "locked", "charged"} =>
       call[c].as = staff[call[c].actor].role
  /\ pc[c] \in {"waiting", "locked", "charged"} =>
       call[c].boss = staff[Owner[call[c].req]].boss
  /\ pc[c] \in {"locked", "charged"} /\ call[c].as = "atasan" => call[c].boss = call[c].actor

CallsFit == \A c \in Calls : CallFits(c)

LEMMA CallsFitStep ==
  ASSUME IInv, CallsFit, [Next]_vars, staff' = staff
  PROVE  CallsFit'
<1>1. ASSUME NEW c \in Calls, pc'[c] = pc[c], call'[c] = call[c] PROVE CallFits(c)'
  BY <1>1 DEF CallsFit, CallFits, FitsOwner
<1>2. ASSUME NEW c \in Calls, pc'[c] = "idle" PROVE CallFits(c)'
  BY <1>2 DEF CallFits
<1>t. /\ pc \in [Calls -> Steps] /\ call \in [Calls -> Call \cup {NoCall}]
      /\ \A c \in Calls : pc[c] # "idle" => call[c] \in Call
  BY DEF IInv, TypeOK
<1>3. ASSUME NEW c \in Calls, NEW r \in Requests, Route(c, r) PROVE CallsFit'
  <2>1. PICK s \in InitialStatusForRole(staff[Owner[r]].role, staff[Owner[r]].boss # NoUser) :
          call' = [call EXCEPT ![c] =
                     [op |-> "submit", actor |-> Owner[r], as |-> staff[Owner[r]].role, req |-> r,
                      boss |-> staff[Owner[r]].boss, charge |-> FALSE, at |-> s]]
    BY <1>3 DEF Route
  <2>2. FitsOwner(r, s)
    BY <2>1 DEF InitialStatusForRole, FitsOwner
  <2>3. pc'[c] = "routed" /\ call'[c].req = r /\ call'[c].at = s
    BY <1>3, <1>t, <2>1 DEF Route, Enters
  <2>4. CallFits(c)'
    BY <2>2, <2>3 DEF CallFits, FitsOwner
  <2>5. \A d \in Calls \ {c} : pc'[d] = pc[d] /\ call'[d] = call[d]
    BY <1>3, <1>t, <2>1 DEF Route, Enters
  <2> QED BY <1>1, <2>4, <2>5 DEF CallsFit
<1>4. ASSUME NEW c \in Calls, NEW u \in Users, NEW r \in Requests, NEW op, Begin(c, u, r, op)
      PROVE  CallsFit'
  <2>1. pc'[c] = "called" /\ call'[c].actor = u /\ call'[c].as = staff[u].role
    BY <1>4, <1>t DEF Begin, Enters
  <2>2. \A d \in Calls \ {c} : pc'[d] = pc[d] /\ call'[d] = call[d]
    BY <1>4, <1>t DEF Begin, Enters
  <2> QED BY <1>1, <2>1, <2>2 DEF CallsFit, CallFits
<1>5. ASSUME NEW c \in Calls, NEW charge, ReadForDecision(c, charge) PROVE CallsFit'
  <2>1. call[c] \in Call /\ pc[c] = "called"
    BY <1>5, <1>t DEF ReadForDecision, Enters
  <2>2. /\ pc'[c] = "waiting" /\ call'[c].actor = call[c].actor /\ call'[c].as = call[c].as
        /\ call'[c].req = call[c].req /\ call'[c].boss = staff[Owner[call[c].req]].boss
    BY <1>5, <1>t, <2>1 DEF ReadForDecision, Enters, Call
  <2>3. \A d \in Calls \ {c} : pc'[d] = pc[d] /\ call'[d] = call[d]
    BY <1>5, <1>t DEF ReadForDecision, Enters
  <2> QED BY <1>1, <2>1, <2>2, <2>3 DEF CallsFit, CallFits
<1>6. ASSUME NEW c \in Calls, LockRequest(c) PROVE CallsFit'
  <2>1. call[c] \in Call /\ pc[c] = "waiting" /\ (MayDecide(c) \/ MayDelegate(c))
    BY <1>6, <1>t DEF LockRequest, Enters
  <2>2. /\ pc'[c] = "locked" /\ call'[c].actor = call[c].actor /\ call'[c].as = call[c].as
        /\ call'[c].req = call[c].req /\ call'[c].boss = call[c].boss
    BY <1>6, <1>t, <2>1 DEF LockRequest, Enters, Call
  <2>3. call[c].as = "atasan" => call[c].boss = call[c].actor
    BY <2>1 DEF MayDecide, MayDelegate
  <2>4. \A d \in Calls \ {c} : pc'[d] = pc[d] /\ call'[d] = call[d]
    BY <1>6, <1>t DEF LockRequest, Enters
  <2> QED BY <1>1, <2>1, <2>2, <2>3, <2>4 DEF CallsFit, CallFits
<1>7. ASSUME NEW c \in Calls, Deduct(c) PROVE CallsFit'
  <2>1. pc[c] = "locked" /\ pc'[c] = "charged" /\ call' = call
    BY <1>7, <1>t DEF Deduct, Enters
  <2>2. \A d \in Calls \ {c} : pc'[d] = pc[d]
    BY <1>7, <1>t DEF Deduct, Enters
  <2>3. CallFits(c)'
    BY <2>1 DEF CallsFit, CallFits, FitsOwner
  <2> QED BY <1>1, <2>1, <2>2, <2>3 DEF CallsFit
<1>8. ASSUME NEW c \in Calls, Ends(c) PROVE CallsFit'
  <2>1. \A d \in Calls \ {c} : pc'[d] = pc[d] /\ call'[d] = call[d]
    BY <1>8, <1>t DEF Ends
  <2>2. pc'[c] = "idle"
    BY <1>8, <1>t DEF Ends
  <2> QED BY <1>1, <1>2, <2>1, <2>2 DEF CallsFit
<1>9. UNCHANGED <<pc, call>> => CallsFit'
  BY <1>1 DEF CallsFit
<1>10. ASSUME NEW c \in Calls, Submission(c) \/ Request(c) \/ Decision(c) \/ Rollback(c)
       PROVE  CallsFit'
  <2>1. CASE Submission(c)
    BY <1>3, <1>8, <2>1 DEF Submission, RouteLeave, RouteOvertime, CommitSubmission
  <2>2. CASE Request(c)
    BY <1>4, <2>2 DEF Request, BeginDecide, BeginDelegate
  <2>3. CASE Decision(c)
    BY <1>5, <1>6, <1>7, <1>8, <2>3
       DEF Decision, ReadLeaveForDecision, ReadOvertimeForDecision, Refuse, InsufficientBalance,
           CommitLeaveDecision, CommitOvertimeDecision, CommitDelegation, Settle
  <2>4. CASE Rollback(c)
    BY <1>8, <2>4 DEF Rollback
  <2> QED BY <1>10, <2>1, <2>2, <2>3, <2>4
<1>11. ASSUME NEW j \in Jobs, Escalation(j) PROVE UNCHANGED <<pc, call>>
  BY <1>11 DEF Escalation, ClaimEscalatableRequests, CommitEscalation, RollbackEscalation
<1>12. ASSUME NEW r \in Requests, SlaExpires(r) PROVE UNCHANGED <<pc, call>>
  BY <1>12 DEF SlaExpires
<1>13. Edit => UNCHANGED <<pc, call>>
  BY DEF Edit, UpdateEmployee, Deactivate, EditStaff, UpdateLeaveType
<1>14. UNCHANGED vars => UNCHANGED <<pc, call>>
  BY DEF vars
<1> QED BY <1>9, <1>10, <1>11, <1>12, <1>13, <1>14 DEF Next

Entitled(r, e) ==
  e.by # NoUser =>
    /\ e.by # Owner[r]
    /\ CASE e.stage = "atasan"         -> staff[Owner[r]].boss = e.by
         [] e.stage = "hr"             -> staff[e.by].role = "hr"
         [] e.stage = "top_management" -> staff[e.by].role = "top_management"
    /\ e.stage = "top_management" <=> staff[Owner[r]].role = "hr"

NobodyHisOwnBoss == \A u \in Users : staff[u].boss # u

EntitledInv == NobodyHisOwnBoss /\ RequestsFit /\ CallsFit /\ OnlyTheEntitledDecide

(* what a call knows when it commits entitles its actor *)
LEMMA DecidersAreEntitled ==
  ASSUME IInv, EntitledInv, NEW c \in Calls, pc[c] \in {"locked", "charged"},
         NEW r \in Requests, r = call[c].req,
         NEW e \in Entry, e.stage = StageForStatus(call[c].at), e.by = call[c].actor
  PROVE  /\ Entitled(r, e)
         /\ FitsOwner(r, NextStatus(c))
<1>1. /\ call[c].at \in Pending /\ status[r] = call[c].at /\ call[c].actor \in Users
      /\ call[c].op \in {"approve", "reject", "delegate"} /\ Owner[r] \in Users
  BY DeciderFacts, RequestAssumption
<1>2. CanDecide(call[c].as, call[c].at)
  BY DEF IInv, DecidesWhatItRead
<1>3. /\ FitsOwner(r, call[c].at) /\ call[c].as = staff[call[c].actor].role
      /\ call[c].as = "atasan" => staff[Owner[r]].boss = call[c].actor
  BY <1>1 DEF EntitledInv, RequestsFit, CallsFit, CallFits
<1>4. CASE call[c].at = "menunggu_atasan"
  <2>1. e.stage = "atasan" /\ call[c].as = "atasan" /\ staff[Owner[r]].role = "karyawan"
    BY <1>2, <1>3, <1>4 DEF CanDecide, FitsOwner, StageForStatus
  <2>2. e.by # Owner[r] /\ staff[Owner[r]].boss = e.by
    BY <1>1, <1>3, <2>1 DEF EntitledInv, NobodyHisOwnBoss
  <2>3. FitsOwner(r, NextStatus(c))
    BY <1>1, <1>4, <2>1 DEF FitsOwner, NextStatus, NextStatusAfterApprove
  <2> QED BY <2>1, <2>2, <2>3 DEF Entitled
<1>5. CASE call[c].at = "menunggu_hr"
  <2>1. e.stage = "hr" /\ staff[e.by].role = "hr" /\ staff[Owner[r]].role \in {"karyawan", "atasan"}
    BY <1>2, <1>3, <1>5 DEF CanDecide, FitsOwner, StageForStatus
  <2>2. FitsOwner(r, NextStatus(c))
    BY <1>1, <1>5, <2>1 DEF FitsOwner, NextStatus, NextStatusAfterApprove
  <2> QED BY <2>1, <2>2 DEF Entitled
<1>6. CASE call[c].at = "menunggu_top_management"
  <2>1. /\ e.stage = "top_management" /\ staff[e.by].role = "top_management"
        /\ staff[Owner[r]].role = "hr"
    BY <1>2, <1>3, <1>6 DEF CanDecide, FitsOwner, StageForStatus
  <2>2. NextStatus(c) \in {"disetujui", "ditolak", "menunggu_hr"}
        /\ (call[c].op = "delegate" => call[c].at = "menunggu_atasan")
    BY <1>1, <1>6 DEF NextStatus, NextStatusAfterApprove, IInv, CallsInOrder
  <2>3. FitsOwner(r, NextStatus(c))
    BY <1>1, <1>6, <2>2 DEF FitsOwner, NextStatus, NextStatusAfterApprove
  <2> QED BY <2>1, <2>3 DEF Entitled
<1> QED BY <1>1, <1>4, <1>5, <1>6 DEF Pending

(* entries are only appended *)
LEMMA AppendEntitled ==
  ASSUME NEW r \in Requests, history[r] \in Seq(Entry), NEW e \in Entry, Entitled(r, e),
         \A i \in DOMAIN history[r] : Entitled(r, history[r][i]),
         history'[r] = Append(history[r], e), staff' = staff
  PROVE  \A i \in DOMAIN history'[r] : Entitled(r, history[r][i])'
<1>1. /\ DOMAIN history[r] = 1..Len(history[r]) /\ Len(history[r]) \in Nat
      /\ DOMAIN history'[r] = 1..(Len(history[r]) + 1)
      /\ history'[r][Len(history[r]) + 1] = e
      /\ \A i \in 1..Len(history[r]) : history'[r][i] = history[r][i]
  OBVIOUS
<1>2. ASSUME NEW i \in 1..(Len(history[r]) + 1) PROVE Entitled(r, history[r][i])'
  <2>1. history'[r][i] = e \/ (i \in DOMAIN history[r] /\ history'[r][i] = history[r][i])
    BY <1>1
  <2>2. Entitled(r, history'[r][i])
    BY <2>1
  <2> QED BY <2>2 DEF Entitled
<1> QED BY <1>1, <1>2

LEMMA EntitledIs == OnlyTheEntitledDecide <=>
  \A r \in Requests : \A i \in DOMAIN history[r] : Entitled(r, history[r][i])
  BY DEF OnlyTheEntitledDecide, Entitled

LEMMA SettleEntitled ==
  ASSUME IInv, EntitledInv, NEW c \in Calls, pc[c] \in {"locked", "charged"},
         NEW drafts, Settle(c, drafts)
  PROVE  RequestsFit' /\ OnlyTheEntitledDecide'
<1> PICK r \in Requests : r = call[c].req
  BY DeciderFacts
<1> PICK e \in Entry : e = [stage |-> StageForStatus(call[c].at), by |-> call[c].actor,
                          decision |-> call[c].op]
  BY DeciderFacts DEF Entry, Decisions
<1>1. history[r] \in Seq(Entry) /\ staff' = staff
  BY DEF IInv, TypeOK, Settle, directory
<1>2. /\ history'[r] = Append(history[r], e) /\ status'[r] = NextStatus(c)
      /\ \A q \in Requests \ {r} : history'[q] = history[q] /\ status'[q] = status[q]
  BY DEF Settle, IInv, TypeOK
<1>3. Entitled(r, e) /\ FitsOwner(r, NextStatus(c))
  BY DecidersAreEntitled
<1>4. RequestsFit'
  BY <1>1, <1>2, <1>3 DEF EntitledInv, RequestsFit, FitsOwner
<1>5. \A i \in DOMAIN history'[r] : Entitled(r, history[r][i])'
  BY <1>1, <1>2, <1>3, EntitledIs, AppendEntitled DEF EntitledInv
<1>6. ASSUME NEW q \in Requests \ {r}, NEW i \in DOMAIN history'[q]
      PROVE  Entitled(q, history[q][i])'
  <2>1. history'[q] = history[q] /\ Entitled(q, history[q][i])
    BY <1>2, EntitledIs DEF EntitledInv
  <2> QED BY <1>1, <2>1 DEF Entitled
<1>7. \A q \in Requests : \A i \in DOMAIN history'[q] : Entitled(q, history[q][i])'
  BY <1>5, <1>6
<1> QED BY <1>4, <1>7 DEF OnlyTheEntitledDecide, Entitled

LEMMA EscalationEntitled ==
  ASSUME IInv, EntitledInv, NEW j \in Jobs, CommitEscalation(j)
  PROVE  RequestsFit' /\ OnlyTheEntitledDecide'
<1> DEFINE e == [stage |-> "atasan", by |-> NoUser, decision |-> "auto_escalate"]
<1>1. e \in Entry /\ staff' = staff
  BY DEF Entry, Stages, Decisions, CommitEscalation, directory
<1>2. \A r \in Requests : Entitled(r, e)
  BY DEF Entitled
<1>3. RequestsFit'
  <2>1. ASSUME NEW r \in Requests, r \in claim[j] PROVE FitsOwner(r, status[r])'
    <3>1. status[r] = "menunggu_atasan" /\ status'[r] = "menunggu_hr"
      BY <2>1 DEF CommitEscalation
    <3> QED BY <1>1, <3>1 DEF EntitledInv, RequestsFit, FitsOwner
  <2>2. ASSUME NEW r \in Requests, r \notin claim[j] PROVE FitsOwner(r, status[r])'
    BY <1>1, <2>2 DEF CommitEscalation, EntitledInv, RequestsFit, FitsOwner
  <2> QED BY <2>1, <2>2 DEF RequestsFit
<1>4. ASSUME NEW r \in Requests PROVE \A i \in DOMAIN history'[r] : Entitled(r, history[r][i])'
  <2>1. CASE r \in claim[j]
    <3>1. history'[r] = Append(history[r], e) /\ history[r] \in Seq(Entry)
      BY <2>1 DEF CommitEscalation, IInv, TypeOK
    <3> QED BY <1>1, <1>2, <3>1, EntitledIs, AppendEntitled DEF EntitledInv
  <2>2. CASE r \notin claim[j]
    BY <1>1, <2>2, EntitledIs DEF CommitEscalation, EntitledInv, Entitled
  <2> QED BY <2>1, <2>2
<1> QED BY <1>3, <1>4 DEF OnlyTheEntitledDecide, Entitled

LEMMA EntitledStep ==
  ASSUME IInv, EntitledInv, [Next]_vars, staff' = staff
  PROVE  EntitledInv'
<1>1. NobodyHisOwnBoss' /\ CallsFit'
  BY CallsFitStep DEF EntitledInv, NobodyHisOwnBoss
<1>2. RequestsFit' /\ OnlyTheEntitledDecide'
  <2>1. CASE UNCHANGED tables
    BY <2>1 DEF tables, EntitledInv, RequestsFit, FitsOwner, OnlyTheEntitledDecide
  <2>2. ASSUME NEW c \in Calls, CommitSubmission(c)
        PROVE  RequestsFit' /\ OnlyTheEntitledDecide'
    <3>1. /\ status' = [status EXCEPT ![call[c].req] = call[c].at] /\ history' = history
          /\ FitsOwner(call[c].req, call[c].at) /\ call[c].req \in Requests
      BY <2>2 DEF CommitSubmission, EntitledInv, CallsFit, CallFits, IInv, TypeOK, Call
    <3> QED BY <3>1 DEF EntitledInv, RequestsFit, FitsOwner, OnlyTheEntitledDecide, IInv, TypeOK
  <2>3. ASSUME NEW c \in Calls,
               CommitLeaveDecision(c) \/ CommitOvertimeDecision(c) \/ CommitDelegation(c)
        PROVE  RequestsFit' /\ OnlyTheEntitledDecide'
    BY <2>3, SettleEntitled DEF CommitLeaveDecision, CommitOvertimeDecision, CommitDelegation
  <2> QED BY TablesStep, <2>1, <2>2, <2>3, EscalationEntitled
<1> QED BY <1>1, <1>2 DEF EntitledInv

(* Nobody decides his own request, and every stage is decided by whom it is  *)
(* for, as long as HR changes nobody's role and supervisor: the checks of    *)
(* Decide and Delegate, in spite of what they read before the lock.          *)
THEOREM OthersDecide == Spec /\ [](staff = InitStaff) => []OnlyTheEntitledDecide
<1>1. Init => EntitledInv
  BY StaffAssumption
     DEF Init, EntitledInv, NobodyHisOwnBoss, RequestsFit, FitsOwner, CallsFit, CallFits,
         OnlyTheEntitledDecide
<1>2. IInv /\ EntitledInv /\ [Next]_vars /\ staff = InitStaff /\ (staff = InitStaff)'
        => EntitledInv'
  BY EntitledStep
<1>3. EntitledInv => OnlyTheEntitledDecide
  BY DEF EntitledInv
<1> QED BY <1>1, <1>2, <1>3, Invariance, PTL DEF Spec

(* The case that the runs check: HR makes no edits of the staff. *)
THEOREM DirectoryStays ==
  ASSUME MaxStaffEdits = 0 PROVE Spec => [](staff = InitStaff)
<1>1. Init => staff = InitStaff /\ staffEdits = 0
  BY DEF Init
<1>2. ASSUME staff = InitStaff, staffEdits = 0, [Next]_vars
      PROVE  (staff = InitStaff)' /\ (staffEdits = 0)'
  <2>1. \A c \in Calls : Submission(c) \/ Request(c) \/ Rollback(c) => UNCHANGED directory
    BY DEF Submission, RouteLeave, RouteOvertime, Route, CommitSubmission, Request, BeginDecide,
           BeginDelegate, Begin, Rollback
  <2>2. \A c \in Calls : Decision(c) => UNCHANGED directory
    BY DEF Decision, ReadLeaveForDecision, ReadOvertimeForDecision, ReadForDecision, LockRequest,
           Refuse, Deduct, InsufficientBalance, CommitLeaveDecision, CommitOvertimeDecision,
           CommitDelegation, Settle
  <2>3. \A j \in Jobs : Escalation(j) => UNCHANGED directory
    BY DEF Escalation, ClaimEscalatableRequests, CommitEscalation, RollbackEscalation
  <2>4. \A r \in Requests : SlaExpires(r) => UNCHANGED directory
    BY DEF SlaExpires
  <2>5. Edit => UNCHANGED <<staff, staffEdits>>
    BY <1>2, BoundsAssumption DEF Edit, UpdateEmployee, Deactivate, EditStaff, UpdateLeaveType
  <2>6. UNCHANGED vars \/ UNCHANGED directory => UNCHANGED <<staff, staffEdits>>
    BY DEF vars, directory
  <2> QED BY <1>2, <2>1, <2>2, <2>3, <2>4, <2>5, <2>6 DEF Next
<1> QED BY <1>1, <1>2, PTL DEF Spec
-----------------------------------------------------------------------------
(* Who is told, by a directory that does not change: a message that r waits  *)
(* at this stage, and what all approvers of a request are told.              *)
Announces(n, r, stage, u) ==
  /\ n.ref = r /\ n.to = u
  /\ \/ n.type = Kind[r] /\ n.stage = stage
     \/ n.type \in {"delegated", "auto_escalated"} /\ stage = "hr"

AllTold(box, r, s) ==
  \A u \in ApproverUserIDs(staff, StageForStatus(s), Owner[r]) \ {Owner[r]} :
    \E n \in box : Announces(n, r, StageForStatus(s), u)

LEMMA AllToldIs == ApproversTold <=>
  \A r \in Requests : status[r] \in Pending => AllTold(inbox, r, status[r])
  BY DEF ApproversTold, AllTold, Announces

LEMMA ToldStays ==
  ASSUME ApproversTold, staff' = staff, inbox \subseteq inbox',
         \A r \in Requests : status'[r] = status[r] \/ status'[r] \notin Pending
                             \/ AllTold(inbox', r, status'[r])
  PROVE  ApproversTold'
<1>1. ASSUME NEW r \in Requests, status'[r] \in Pending PROVE AllTold(inbox', r, status'[r])
  <2>1. CASE status'[r] = status[r]
    BY <1>1, <2>1, AllToldIs DEF AllTold
  <2> QED BY <1>1, <2>1
<1>2. ASSUME NEW r \in Requests, status'[r] \in Pending PROVE AllTold(inbox, r, status[r])'
  BY <1>1, <1>2 DEF AllTold, Announces, ApproverUserIDs, ActiveUserIDsByRole
<1> QED BY <1>2 DEF ApproversTold, AllTold, Announces

(* The drafts reach all approvers but the actor. *)
LEMMA ApproverDraftsReach ==
  ASSUME NEW r \in Requests, NEW actor, NEW stage, stage # "",
         NEW u \in ApproverUserIDs(staff, stage, Owner[r]), u # Owner[r], u # actor
  PROVE  \E n \in ApproverDrafts(staff, Kind[r], r, Owner[r], actor, stage) :
           Announces(n, r, stage, u)
<1>1. Draft(Kind[r], r, stage, u) \in ApproverDrafts(staff, Kind[r], r, Owner[r], actor, stage)
  BY DEF ApproverDrafts, SkipSelfNotify
<1>2. Announces(Draft(Kind[r], r, stage, u), r, stage, u)
  BY DEF Announces, Draft
<1> QED BY <1>1, <1>2

LEMMA HandoffDraftsReach ==
  ASSUME NEW r \in Requests, NEW actor, NEW type \in {"delegated", "auto_escalated"},
         NEW u \in ApproverUserIDs(staff, "hr", Owner[r]), u # Owner[r], u # actor
  PROVE  \E n \in HandoffDrafts(staff, type, r, Owner[r], actor) : Announces(n, r, "hr", u)
<1>1. Draft(type, r, "atasan", u) \in HandoffDrafts(staff, type, r, Owner[r], actor)
  BY DEF HandoffDrafts, SkipSelfNotify
<1>2. Announces(Draft(type, r, "atasan", u), r, "hr", u)
  BY DEF Announces, Draft
<1> QED BY <1>1, <1>2

(* The supervisor who hands on to HR is not of HR. *)
LEMMA SettleToldAll ==
  ASSUME IInv, EntitledInv, ApproversTold, NEW c \in Calls, pc[c] \in {"locked", "charged"},
         NEW drafts, drafts \subseteq Notification, Settle(c, drafts),
         NextStatus(c) = "menunggu_hr" =>
           \A u \in ApproverUserIDs(staff, "hr", Owner[call[c].req])
                      \ {Owner[call[c].req], call[c].actor} :
             \E n \in drafts : Announces(n, call[c].req, "hr", u)
  PROVE  ApproversTold'
<1> PICK r \in Requests : r = call[c].req
  BY DeciderFacts
<1>1. inbox' = inbox \cup drafts /\ staff' = staff
  BY InsertAddsAll DEF Settle, directory, IInv, TypeOK, Notification
<1>2. status'[r] = NextStatus(c) /\ \A q \in Requests \ {r} : status'[q] = status[q]
  BY DEF Settle, IInv, TypeOK
<1>3. ASSUME NextStatus(c) \in Pending PROVE AllTold(inbox', r, NextStatus(c))
  <2>1. /\ call[c].op \in {"approve", "reject", "delegate"} /\ call[c].at \in Pending
        /\ call[c].op = "delegate" => call[c].at = "menunggu_atasan"
        /\ CanDecide(call[c].as, call[c].at) /\ call[c].as = staff[call[c].actor].role
    BY DeciderFacts DEF IInv, CallsInOrder, DecidesWhatItRead, EntitledInv, CallsFit, CallFits
  <2>2. NextStatus(c) = "menunggu_hr" /\ call[c].at = "menunggu_atasan"
    BY <1>3, <2>1 DEF NextStatus, NextStatusAfterApprove, Pending
  <2>3. staff[call[c].actor].role = "atasan"
    BY <2>1, <2>2 DEF CanDecide
  <2>4. call[c].actor \notin ApproverUserIDs(staff, "hr", Owner[r])
    BY <2>3 DEF ApproverUserIDs, ActiveUserIDsByRole
  <2>5. \A u \in ApproverUserIDs(staff, "hr", Owner[r]) \ {Owner[r]} :
          \E n \in inbox' : Announces(n, r, "hr", u)
    BY <1>1, <2>2, <2>4
  <2> QED BY <2>2, <2>5 DEF AllTold, StageForStatus
<1> QED BY <1>1, <1>2, <1>3, ToldStays

LEMMA DecisionToldAll ==
  ASSUME IInv, EntitledInv, ApproversTold, NEW c \in Calls, pc[c] \in {"locked", "charged"},
         Settle(c, DecisionEvent(c))
  PROVE  ApproversTold'
<1> PICK r \in Requests : r = call[c].req
  BY DeciderFacts
<1>1. DecisionEvent(c) \subseteq Notification
  BY DeciderFacts, DraftsType, RequestAssumption DEF DecisionEvent, IInv
<1>2. ASSUME NextStatus(c) = "menunggu_hr",
             NEW u \in ApproverUserIDs(staff, "hr", Owner[r]) \ {Owner[r], call[c].actor}
      PROVE  \E n \in DecisionEvent(c) : Announces(n, r, "hr", u)
  <2>1. StageForStatus(NextStatus(c)) = "hr" /\ NextStatus(c) \in Pending
    BY <1>2 DEF StageForStatus, Pending
  <2>2. ApproverDrafts(staff, Kind[r], r, Owner[r], call[c].actor, "hr") \subseteq DecisionEvent(c)
    BY <2>1 DEF DecisionEvent, DecisionDrafts
  <2> QED BY <2>2, ApproverDraftsReach
<1> QED BY <1>1, <1>2, SettleToldAll

LEMMA DelegationToldAll ==
  ASSUME IInv, EntitledInv, ApproversTold, NEW c \in Calls, CommitDelegation(c)
  PROVE  ApproversTold'
<1>1. pc[c] \in {"locked", "charged"}
  BY DEF CommitDelegation
<1> PICK r \in Requests : r = call[c].req
  BY <1>1, DeciderFacts
<1> DEFINE drafts == HandoffDrafts(staff, "delegated", r, Owner[r], call[c].actor)
<1>2. Settle(c, drafts)
  BY DEF CommitDelegation
<1>3. drafts \subseteq Notification
  <2>1. /\ Owner[r] \in Users /\ Kind[r] \in {"leave", "overtime"}
        /\ "atasan" \in Stages /\ "disetujui" \in Statuses
    BY RequestAssumption DEF Stages, Statuses, Settled
  <2> QED BY <2>1, DraftsType DEF IInv
<1>4. \A u \in ApproverUserIDs(staff, "hr", Owner[r]) \ {Owner[r], call[c].actor} :
        \E n \in drafts : Announces(n, r, "hr", u)
  BY HandoffDraftsReach
<1> HIDE DEF drafts
<1> QED BY <1>1, <1>2, <1>3, <1>4, SettleToldAll

LEMMA EscalationToldAll ==
  ASSUME IInv, ApproversTold, NEW j \in Jobs, CommitEscalation(j)
  PROVE  ApproversTold'
<1> DEFINE Batched(r) == HandoffDrafts(staff, "auto_escalated", r, Owner[r], NoUser)
           drafts == UNION {Batched(r) : r \in claim[j]}
<1>1. claim[j] \subseteq Requests /\ staff' = staff
  BY DEF IInv, TypeOK, CommitEscalation, directory
<1>2. drafts \subseteq Notification
  <2>1. ASSUME NEW r \in claim[j] PROVE Batched(r) \subseteq Notification
    <3>1. /\ r \in Requests /\ Kind[r] \in {"leave", "overtime"} /\ Owner[r] \in Users
          /\ "atasan" \in Stages /\ "disetujui" \in Statuses
      BY <1>1, RequestAssumption DEF Stages, Statuses, Settled
    <3> QED BY <3>1, DraftsType DEF IInv
  <2> QED BY <2>1
<1>3. inbox' = inbox \cup drafts
  BY <1>2, InsertAddsAll DEF CommitEscalation, IInv, TypeOK, Notification
<1>4. ASSUME NEW r \in claim[j] PROVE AllTold(inbox', r, "menunggu_hr")
  <2>1. \A u \in ApproverUserIDs(staff, "hr", Owner[r]) : u \in Users /\ u # NoUser
    BY NullsAssumption DEF ApproverUserIDs, ActiveUserIDsByRole
  <2>2. \A u \in ApproverUserIDs(staff, "hr", Owner[r]) \ {Owner[r]} :
          \E n \in Batched(r) : Announces(n, r, "hr", u)
    BY <1>1, <2>1, HandoffDraftsReach
  <2>3. Batched(r) \subseteq inbox'
    BY <1>3
  <2> QED BY <2>2, <2>3 DEF AllTold, StageForStatus
<1>5. \A r \in Requests : status'[r] = IF r \in claim[j] THEN "menunggu_hr" ELSE status[r]
  BY DEF CommitEscalation
<1> HIDE DEF drafts
<1> QED BY <1>1, <1>3, <1>4, <1>5, ToldStays

LEMMA SubmissionToldAll ==
  ASSUME IInv, ApproversTold, NEW c \in Calls, CommitSubmission(c)
  PROVE  ApproversTold'
<1>1. /\ call[c].req \in Requests /\ call[c].at \in Pending
      /\ call[c].actor = Owner[call[c].req]
  BY DEF IInv, TypeOK, Call, CallsInOrder, CommitSubmission
<1> PICK r \in Requests : r = call[c].req
  BY <1>1
<1> DEFINE stage == StageForStatus(call[c].at)
           drafts == ApproverDrafts(staff, Kind[r], r, Owner[r], Owner[r], stage)
<1>2. stage \in Stages /\ stage # "" /\ call[c].at \in Statuses
  BY <1>1 DEF Pending, StageForStatus, Stages, Statuses
<1>3. drafts \subseteq Notification
  <2>1. Owner[r] \in Users /\ Kind[r] \in {"leave", "overtime"}
    BY RequestAssumption
  <2> HIDE DEF stage
  <2> QED BY <1>2, <2>1, DraftsType DEF IInv
<1>4. /\ inbox' = inbox \cup drafts /\ staff' = staff
      /\ status'[r] = call[c].at /\ \A q \in Requests \ {r} : status'[q] = status[q]
  BY <1>1, <1>3, InsertAddsAll DEF CommitSubmission, directory, IInv, TypeOK, Notification
<1>5. AllTold(inbox', r, call[c].at)
  <2>1. \A u \in ApproverUserIDs(staff, stage, Owner[r]) \ {Owner[r]} :
          \E n \in drafts : Announces(n, r, stage, u)
    BY <1>2, ApproverDraftsReach
  <2> QED BY <1>4, <2>1 DEF AllTold
<1> HIDE DEF drafts
<1> QED BY <1>4, <1>5, ToldStays

(* While a request waits, everybody who can decide it has been told so, over *)
(* delegations, escalations and retries, as long as nobody's role, supervisor *)
(* or employment changes.                                                    *)
THEOREM EveryApproverKnows == Spec /\ [](staff = InitStaff) => []ApproversTold
<1>1. Init => EntitledInv /\ ApproversTold
  BY StaffAssumption
     DEF Init, EntitledInv, NobodyHisOwnBoss, RequestsFit, FitsOwner, CallsFit, CallFits,
         OnlyTheEntitledDecide, ApproversTold, Pending
<1>2. IInv /\ EntitledInv /\ ApproversTold /\ [Next]_vars /\ staff = InitStaff
        /\ (staff = InitStaff)' => EntitledInv' /\ ApproversTold'
  <2> SUFFICES ASSUME IInv, EntitledInv, ApproversTold, [Next]_vars, staff = InitStaff,
                      (staff = InitStaff)'
               PROVE  EntitledInv' /\ ApproversTold'
    OBVIOUS
  <2>1. ASSUME NEW c \in Calls, CommitLeaveDecision(c) \/ CommitOvertimeDecision(c)
        PROVE  ApproversTold'
    BY <2>1, DecisionToldAll DEF CommitLeaveDecision, CommitOvertimeDecision
  <2>2. UNCHANGED tables => ApproversTold'
    BY ToldStays DEF tables
  <2>3. ApproversTold'
    BY TablesStep, <2>1, <2>2, DelegationToldAll, EscalationToldAll, SubmissionToldAll
  <2> QED BY <2>3, EntitledStep
<1> QED BY <1>1, <1>2, Invariance, PTL DEF Spec
-----------------------------------------------------------------------------
(* The ledger, by leave types that do not change: what a decision knows of   *)
(* the type is what it is charged by.                                        *)
ChargeFits(c) ==
  pc[c] \in {"waiting", "locked", "charged"} =>
    (call[c].charge <=> /\ Kind[call[c].req] = "leave"
                        /\ Chargeable(InitTypes[TypeOf[call[c].req]]))

ChargesFit == \A c \in Calls : ChargeFits(c)

LEMMA ChargesFitStep ==
  ASSUME IInv, ChargesFit, [Next]_vars, leaveType = InitTypes
  PROVE  ChargesFit'
<1>1. ASSUME NEW c \in Calls, pc'[c] = pc[c], call'[c] = call[c] PROVE ChargeFits(c)'
  BY <1>1 DEF ChargesFit, ChargeFits
<1>2. ASSUME NEW c \in Calls, pc'[c] \in {"idle", "routed", "called"} PROVE ChargeFits(c)'
  BY <1>2 DEF ChargeFits
<1>t. /\ pc \in [Calls -> Steps] /\ call \in [Calls -> Call \cup {NoCall}]
      /\ \A c \in Calls : pc[c] # "idle" => call[c] \in Call
  BY DEF IInv, TypeOK
<1>3. ASSUME NEW c \in Calls, NEW r \in Requests, Route(c, r) PROVE ChargesFit'
  <2>1. pc'[c] = "routed" /\ \A d \in Calls \ {c} : pc'[d] = pc[d] /\ call'[d] = call[d]
    BY <1>3, <1>t DEF Route, Enters
  <2> QED BY <1>1, <1>2, <2>1 DEF ChargesFit
<1>4. ASSUME NEW c \in Calls, NEW u \in Users, NEW r \in Requests, NEW op, Begin(c, u, r, op)
      PROVE  ChargesFit'
  <2>1. pc'[c] = "called" /\ \A d \in Calls \ {c} : pc'[d] = pc[d] /\ call'[d] = call[d]
    BY <1>4, <1>t DEF Begin, Enters
  <2> QED BY <1>1, <1>2, <2>1 DEF ChargesFit
<1>5. ASSUME NEW c \in Calls, ReadLeaveForDecision(c) \/ ReadOvertimeForDecision(c)
      PROVE  ChargesFit'
  <2>1. PICK charge \in BOOLEAN :
          /\ ReadForDecision(c, charge)
          /\ charge <=> /\ Kind[call[c].req] = "leave"
                        /\ Chargeable(InitTypes[TypeOf[call[c].req]])
    BY <1>5 DEF ReadLeaveForDecision, ReadOvertimeForDecision, Chargeable
  <2>2. call[c] \in Call /\ pc[c] = "called"
    BY <1>t, <2>1 DEF ReadForDecision, Enters
  <2>3. call'[c].charge = charge /\ call'[c].req = call[c].req
    BY <1>t, <2>1, <2>2 DEF ReadForDecision, Call
  <2>4. \A d \in Calls \ {c} : pc'[d] = pc[d] /\ call'[d] = call[d]
    BY <1>t, <2>1 DEF ReadForDecision, Enters
  <2>5. ChargeFits(c)'
    BY <2>1, <2>3 DEF ChargeFits
  <2> QED BY <1>1, <2>4, <2>5 DEF ChargesFit
<1>6. ASSUME NEW c \in Calls, LockRequest(c) PROVE ChargesFit'
  <2>1. call[c] \in Call /\ pc[c] = "waiting"
    BY <1>6, <1>t DEF LockRequest, Enters
  <2>2. call'[c].charge = call[c].charge /\ call'[c].req = call[c].req
    BY <1>6, <1>t, <2>1 DEF LockRequest, Call
  <2>3. \A d \in Calls \ {c} : pc'[d] = pc[d] /\ call'[d] = call[d]
    BY <1>6, <1>t DEF LockRequest, Enters
  <2>4. ChargeFits(c)'
    BY <2>1, <2>2 DEF ChargesFit, ChargeFits
  <2> QED BY <1>1, <2>3, <2>4 DEF ChargesFit
<1>7. ASSUME NEW c \in Calls, Deduct(c) PROVE ChargesFit'
  <2>1. pc[c] = "locked" /\ call' = call
    BY <1>7 DEF Deduct, Enters
  <2>2. \A d \in Calls \ {c} : pc'[d] = pc[d]
    BY <1>7, <1>t DEF Deduct, Enters
  <2>3. ChargeFits(c)'
    BY <2>1 DEF ChargesFit, ChargeFits
  <2> QED BY <1>1, <2>1, <2>2, <2>3 DEF ChargesFit
<1>8. ASSUME NEW c \in Calls, Ends(c) PROVE ChargesFit'
  <2>1. pc'[c] = "idle" /\ \A d \in Calls \ {c} : pc'[d] = pc[d] /\ call'[d] = call[d]
    BY <1>8, <1>t DEF Ends
  <2> QED BY <1>1, <1>2, <2>1 DEF ChargesFit
<1>9. UNCHANGED <<pc, call>> => ChargesFit'
  BY <1>1 DEF ChargesFit
<1>10. ASSUME NEW c \in Calls, Submission(c) \/ Request(c) \/ Decision(c) \/ Rollback(c)
       PROVE  ChargesFit'
  <2>1. CASE Submission(c)
    BY <1>3, <1>8, <2>1 DEF Submission, RouteLeave, RouteOvertime, CommitSubmission
  <2>2. CASE Request(c)
    BY <1>4, <2>2 DEF Request, BeginDecide, BeginDelegate
  <2>3. CASE Decision(c)
    BY <1>5, <1>6, <1>7, <1>8, <2>3
       DEF Decision, Refuse, InsufficientBalance,
           CommitLeaveDecision, CommitOvertimeDecision, CommitDelegation, Settle
  <2>4. CASE Rollback(c)
    BY <1>8, <2>4 DEF Rollback
  <2> QED BY <1>10, <2>1, <2>2, <2>3, <2>4
<1>11. ASSUME NEW j \in Jobs, Escalation(j) PROVE UNCHANGED <<pc, call>>
  BY <1>11 DEF Escalation, ClaimEscalatableRequests, CommitEscalation, RollbackEscalation
<1>12. ASSUME NEW r \in Requests, SlaExpires(r) PROVE UNCHANGED <<pc, call>>
  BY <1>12 DEF SlaExpires
<1>13. Edit => UNCHANGED <<pc, call>>
  BY DEF Edit, UpdateEmployee, Deactivate, EditStaff, UpdateLeaveType
<1>14. UNCHANGED vars => UNCHANGED <<pc, call>>
  BY DEF vars
<1> QED BY <1>9, <1>10, <1>11, <1>12, <1>13, <1>14 DEF Next

(* The days of a set of requests, and what one more of them adds. *)
DaysOf(S) == UNION {{r} \X (1..Days[r]) : r \in S}

LEMMA DaysOfNone == IsFiniteSet(DaysOf({})) /\ Cardinality(DaysOf({})) = 0
<1>1. DaysOf({}) = {}
  BY DEF DaysOf
<1> QED BY <1>1, FS_EmptySet

LEMMA DaysOfOneMore ==
  ASSUME NEW S \in SUBSET Requests, NEW r \in Requests \ S, IsFiniteSet(DaysOf(S))
  PROVE  /\ IsFiniteSet(DaysOf(S \cup {r}))
         /\ Cardinality(DaysOf(S \cup {r})) = Cardinality(DaysOf(S)) + Days[r]
<1>1. Days[r] \in Nat \ {0}
  BY RequestAssumption
<1>2. IsFiniteSet(1..Days[r]) /\ Cardinality(1..Days[r]) = Days[r]
  BY <1>1, FS_Interval
<1>3. IsFiniteSet({r} \X (1..Days[r])) /\ Cardinality({r} \X (1..Days[r])) = 1 * Days[r]
  <2>1. IsFiniteSet({r}) /\ Cardinality({r}) = 1
    BY FS_Singleton
  <2> QED BY <1>2, <2>1, FS_Product
<1>4. DaysOf(S \cup {r}) = DaysOf(S) \cup ({r} \X (1..Days[r]))
  BY DEF DaysOf
<1>5. DaysOf(S) \cap ({r} \X (1..Days[r])) = {}
  BY DEF DaysOf
<1>6. Cardinality(DaysOf(S) \cap ({r} \X (1..Days[r]))) = 0
  BY <1>5, FS_EmptySet
<1>7. Cardinality(DaysOf(S)) \in Nat
  BY FS_CardinalityType
<1>8. /\ IsFiniteSet(DaysOf(S) \cup ({r} \X (1..Days[r])))
      /\ Cardinality(DaysOf(S) \cup ({r} \X (1..Days[r]))) =
           Cardinality(DaysOf(S)) + Cardinality({r} \X (1..Days[r]))
             - Cardinality(DaysOf(S) \cap ({r} \X (1..Days[r])))
  BY <1>3, FS_Union
<1>9. Cardinality({r} \X (1..Days[r])) = Days[r]
  BY <1>1, <1>3
<1>10. Cardinality(DaysOf(S) \cup ({r} \X (1..Days[r]))) = Cardinality(DaysOf(S)) + Days[r]
  BY <1>1, <1>6, <1>7, <1>8, <1>9
<1> QED BY <1>4, <1>8, <1>10

Ledger(a) == IsFiniteSet(DaysOf(Charged(a))) /\ used[a] = Cardinality(DaysOf(Charged(a)))
LedgerInv == \A a \in Accounts : Ledger(a)

(* A decision that commits: it is charged exactly when it has to be. *)
LEMMA SettleLedger ==
  ASSUME IInv, ChargesFit, LedgerInv, NEW c \in Calls, NEW drafts, Settle(c, drafts),
         \/ pc[c] = "locked" /\ used' = used /\ (Kind[call[c].req] = "leave" => ~ MustCharge(c))
         \/ /\ pc[c] = "charged" /\ Kind[call[c].req] = "leave"
            /\ used' = [used EXCEPT ![Account[call[c].req]] = @ + Days[call[c].req]]
  PROVE  LedgerInv'
<1> DEFINE r == call[c].req
           Due == Kind[r] = "leave" /\ Chargeable(InitTypes[TypeOf[r]]) /\ NextStatus(c) = "disetujui"
<1>1. /\ r \in Requests /\ status[r] = call[c].at /\ call[c].at \in Pending
      /\ status' = [status EXCEPT ![r] = NextStatus(c)] /\ status \in [Requests -> Statuses]
      /\ used \in [Accounts -> Nat]
  BY DeciderFacts DEF Settle, IInv, TypeOK
<1>2. \A a \in Accounts : r \notin Charged(a)
  BY <1>1 DEF Charged, Pending
<1>3. \A a \in Accounts : Charged(a)' = Charged(a) \cup (IF Due /\ Account[r] = a THEN {r} ELSE {})
  BY <1>1, <1>2 DEF Charged
<1>4. (Kind[r] = "leave" /\ Chargeable(InitTypes[TypeOf[r]])) <=> call[c].charge
  BY DEF ChargesFit, ChargeFits
<1>5. CASE pc[c] = "locked" /\ used' = used /\ (Kind[r] = "leave" => ~ MustCharge(c))
  <2>1. ~ Due
    BY <1>4, <1>5 DEF MustCharge
  <2>2. \A a \in Accounts : Charged(a)' = Charged(a)
    BY <1>3, <2>1
  <2> QED BY <1>5, <2>2 DEF LedgerInv, Ledger, DaysOf
<1>6. CASE /\ pc[c] = "charged" /\ Kind[r] = "leave"
           /\ used' = [used EXCEPT ![Account[r]] = @ + Days[r]]
  <2>1. MustCharge(c) /\ Account[r] \in Accounts
    BY <1>6 DEF IInv, ChargesReserved, Affordable
  <2>2. Due
    BY <1>4, <1>6, <2>1 DEF MustCharge
  <2> SUFFICES ASSUME NEW a \in Accounts PROVE Ledger(a)'
    BY DEF LedgerInv
  <2>3. CASE a # Account[r]
    <3>1. Charged(a)' = Charged(a) /\ used'[a] = used[a]
      BY <1>1, <1>3, <1>6, <2>3
    <3> QED BY <3>1 DEF LedgerInv, Ledger, DaysOf
  <2>4. CASE a = Account[r]
    <3>1. Charged(a)' = Charged(a) \cup {r} /\ used'[a] = used[a] + Days[r]
      BY <1>1, <1>3, <1>6, <2>1, <2>2, <2>4
    <3>2. Charged(a) \in SUBSET Requests /\ r \in Requests \ Charged(a)
      BY <1>1, <1>2 DEF Charged
    <3>3. IsFiniteSet(DaysOf(Charged(a))) /\ used[a] = Cardinality(DaysOf(Charged(a)))
      BY DEF LedgerInv, Ledger
    <3>4. /\ IsFiniteSet(DaysOf(Charged(a) \cup {r}))
          /\ Cardinality(DaysOf(Charged(a) \cup {r})) = Cardinality(DaysOf(Charged(a))) + Days[r]
      BY <3>2, <3>3, DaysOfOneMore
    <3> QED BY <3>1, <3>3, <3>4 DEF Ledger, DaysOf
  <2> QED BY <2>3, <2>4
<1> QED BY <1>5, <1>6

LEMMA ApprovalsStayLedger ==
  ASSUME LedgerInv, used' = used,
         \A r \in Requests : Kind[r] = "leave" =>
           (status'[r] = "disetujui" <=> status[r] = "disetujui")
  PROVE  LedgerInv'
<1>1. \A a \in Accounts : Charged(a)' = Charged(a)
  BY DEF Charged
<1> QED BY <1>1 DEF LedgerInv, Ledger, DaysOf

LEMMA LedgerStep ==
  ASSUME IInv, ChargesFit, LedgerInv, [Next]_vars
  PROVE  LedgerInv'
<1>1. CASE UNCHANGED tables
  BY <1>1, ApprovalsStayLedger DEF tables
<1>2. ASSUME NEW c \in Calls, CommitSubmission(c) PROVE LedgerInv'
  <2>1. /\ call[c].req \in Requests /\ call[c].at \in Pending /\ used' = used
        /\ status[call[c].req] = "belum_ada"
        /\ status' = [status EXCEPT ![call[c].req] = call[c].at]
        /\ status \in [Requests -> Statuses]
    BY <1>2 DEF CommitSubmission, IInv, TypeOK, Call, CallsInOrder
  <2>2. \A r \in Requests : status'[r] = "disetujui" <=> status[r] = "disetujui"
    BY <2>1 DEF Pending
  <2> QED BY <2>1, <2>2, ApprovalsStayLedger
<1>3. ASSUME NEW c \in Calls, CommitLeaveDecision(c) PROVE LedgerInv'
  BY <1>3, SettleLedger DEF CommitLeaveDecision
<1>4. ASSUME NEW c \in Calls, CommitOvertimeDecision(c) PROVE LedgerInv'
  BY <1>4, SettleLedger DEF CommitOvertimeDecision
<1>5. ASSUME NEW c \in Calls, CommitDelegation(c) PROVE LedgerInv'
  <2>1. ~ MustCharge(c)
    BY <1>5 DEF CommitDelegation, MustCharge, NextStatus
  <2> QED BY <1>5, <2>1, SettleLedger DEF CommitDelegation
<1>6. ASSUME NEW j \in Jobs, CommitEscalation(j) PROVE LedgerInv'
  <2>1. \A r \in Requests : status'[r] = "disetujui" <=> status[r] = "disetujui"
    BY <1>6 DEF CommitEscalation
  <2> QED BY <1>6, <2>1, ApprovalsStayLedger DEF CommitEscalation
<1> QED BY TablesStep, <1>1, <1>2, <1>3, <1>4, <1>5, <1>6

(* The days used of every balance row are the days of the approved requests  *)
(* charged to it, as long as HR edits no leave type: whatever runs at once,  *)
(* is rolled back or is tried again, no deduction is lost, made twice or     *)
(* made without its approval.                                                *)
THEOREM LedgerEqualsApprovals ==
  Spec /\ [](leaveType = InitTypes) => []ApprovedLeaveIsCharged
<1>1. Init => ChargesFit /\ LedgerInv
  <2> SUFFICES ASSUME Init PROVE ChargesFit /\ LedgerInv
    OBVIOUS
  <2>1. \A a \in Accounts : Charged(a) = {} /\ used[a] = 0
    BY DEF Init, Charged
  <2> QED BY <2>1, DaysOfNone DEF Init, ChargesFit, ChargeFits, LedgerInv, Ledger
<1>2. IInv /\ ChargesFit /\ LedgerInv /\ [Next]_vars /\ leaveType = InitTypes
        => ChargesFit' /\ LedgerInv'
  BY ChargesFitStep, LedgerStep
<1>3. LedgerInv => ApprovedLeaveIsCharged
  BY DEF LedgerInv, Ledger, DaysOf, ApprovedLeaveIsCharged
<1> QED BY <1>1, <1>2, <1>3, Invariance, PTL DEF Spec

(* The case that the runs check: HR makes no edits of the leave types. *)
THEOREM TypesStay ==
  ASSUME MaxTypeEdits = 0 PROVE Spec => [](leaveType = InitTypes)
<1>1. Init => leaveType = InitTypes /\ typeEdits = 0
  BY DEF Init
<1>2. ASSUME leaveType = InitTypes, typeEdits = 0, [Next]_vars
      PROVE  (leaveType = InitTypes)' /\ (typeEdits = 0)'
  <2>1. \A c \in Calls : Submission(c) \/ Request(c) \/ Rollback(c) => UNCHANGED directory
    BY DEF Submission, RouteLeave, RouteOvertime, Route, CommitSubmission, Request, BeginDecide,
           BeginDelegate, Begin, Rollback
  <2>2. \A c \in Calls : Decision(c) => UNCHANGED directory
    BY DEF Decision, ReadLeaveForDecision, ReadOvertimeForDecision, ReadForDecision, LockRequest,
           Refuse, Deduct, InsufficientBalance, CommitLeaveDecision, CommitOvertimeDecision,
           CommitDelegation, Settle
  <2>3. \A j \in Jobs : Escalation(j) => UNCHANGED directory
    BY DEF Escalation, ClaimEscalatableRequests, CommitEscalation, RollbackEscalation
  <2>4. \A r \in Requests : SlaExpires(r) => UNCHANGED directory
    BY DEF SlaExpires
  <2>5. Edit => UNCHANGED <<leaveType, typeEdits>>
    <3>1. \A t \in LeaveTypes : ~ UpdateLeaveType(t)
      BY <1>2 DEF UpdateLeaveType
    <3>2. \A u \in Users : UpdateEmployee(u) \/ Deactivate(u) => UNCHANGED <<leaveType, typeEdits>>
      BY DEF UpdateEmployee, Deactivate, EditStaff
    <3> QED BY <3>1, <3>2 DEF Edit
  <2>6. UNCHANGED vars \/ UNCHANGED directory => UNCHANGED <<leaveType, typeEdits>>
    BY DEF vars, directory
  <2> QED BY <1>2, <2>1, <2>2, <2>3, <2>4, <2>5, <2>6 DEF Next
<1> QED BY <1>1, <1>2, PTL DEF Spec
-----------------------------------------------------------------------------
(* ApprovalWorkflow implements RequestLifecycle: each commit is one step of *)
(* the abstract specification, everything else a stutter.                   *)

LEMMA SettleLifecycle ==
  ASSUME IInv, NEW c \in Calls, pc[c] \in {"locked", "charged"},
         NEW drafts, Settle(c, drafts),
         \/ used' = used
         \/ /\ pc[c] = "charged"
            /\ used' = [used EXCEPT ![Account[call[c].req]] = @ + Days[call[c].req]]
  PROVE  Lifecycle!Next
<1> DEFINE r == call[c].req
<1>1. /\ r \in Requests
      /\ call[c].op \in {"approve", "reject", "delegate"}
      /\ call[c].at \in Pending /\ status[r] = call[c].at
  BY DeciderFacts
<1>2. call[c].op = "delegate" => call[c].at = "menunggu_atasan"
  BY DEF IInv, CallsInOrder
<1>3. status' = [status EXCEPT ![r] = NextStatus(c)] /\ status \in [Requests -> Statuses]
  BY DEF Settle, IInv, TypeOK
<1>4. pc[c] = "charged" => MustCharge(c) /\ Affordable(r)
  BY DEF IInv, ChargesReserved
<1>5. CASE NextStatus(c) = "disetujui"
  <2>1. status[r] \in Pending \ {"menunggu_atasan"}
    BY <1>1, <1>2, <1>5 DEF NextStatus, NextStatusAfterApprove
  <2>2. UNCHANGED used \/ Lifecycle!Charge(r)
    BY <1>4 DEF Affordable, Lifecycle!Charge
  <2>3. Lifecycle!Approve(r)
    BY <1>3, <1>5, <2>1, <2>2 DEF Lifecycle!Approve, Lifecycle!Pending, Pending
  <2> QED BY <1>1, <2>3 DEF Lifecycle!Next
<1>6. CASE NextStatus(c) # "disetujui"
  <2>1. UNCHANGED used
    BY <1>4, <1>6 DEF MustCharge
  <2>2. CASE call[c].op = "reject"
    <3>1. NextStatus(c) = "ditolak"
      BY <2>2 DEF NextStatus
    <3>2. Lifecycle!Reject(r)
      BY <1>1, <1>3, <2>1, <3>1 DEF Lifecycle!Reject, Lifecycle!Pending, Pending
    <3> QED BY <1>1, <3>2 DEF Lifecycle!Next
  <2>3. CASE call[c].op # "reject"
    <3>1. status[r] = "menunggu_atasan" /\ NextStatus(c) = "menunggu_hr"
      BY <1>1, <1>2, <1>6, <2>3 DEF NextStatus, NextStatusAfterApprove
    <3>2. status' = [q \in Requests |-> IF q \in {r} THEN "menunggu_hr" ELSE status[q]]
      BY <1>3, <3>1
    <3>3. Lifecycle!HandToHR({r})
      BY <2>1, <3>1, <3>2 DEF Lifecycle!HandToHR
    <3> QED BY <1>1, <3>3 DEF Lifecycle!Next
  <2> QED BY <2>2, <2>3
<1> QED BY <1>5, <1>6

(* Submission, handover to HR, refusal, approval and charge of a request    *)
(* appear to happen in one step each, though calls and jobs interleave.     *)
THEOREM Implementation == Spec => Implements
<1>1. Init => Lifecycle!Init
  BY DEF Init, Lifecycle!Init
<1>2. IInv /\ [Next]_vars => [Lifecycle!Next]_(Lifecycle!vars)
  <2> SUFFICES ASSUME IInv, [Next]_vars
               PROVE  Lifecycle!Next \/ UNCHANGED Lifecycle!vars
    OBVIOUS
  <2>1. ASSUME NEW c \in Calls, CommitSubmission(c) PROVE Lifecycle!Next
    <3>1. /\ call[c].req \in Requests /\ call[c].at \in Pending
          /\ status[call[c].req] = "belum_ada"
      BY <2>1 DEF IInv, TypeOK, Call, CallsInOrder, CommitSubmission
    <3>2. Lifecycle!Submit(call[c].req)
      <4>1. status' = [status EXCEPT ![call[c].req] = call[c].at] /\ UNCHANGED used
        BY <2>1 DEF CommitSubmission
      <4>2. \E s \in Pending : status' = [status EXCEPT ![call[c].req] = s]
        BY <3>1, <4>1
      <4> QED BY <3>1, <4>1, <4>2 DEF Lifecycle!Submit, Lifecycle!Pending, Pending
    <3> QED BY <3>1, <3>2 DEF Lifecycle!Next
  <2>2. ASSUME NEW c \in Calls,
               CommitLeaveDecision(c) \/ CommitOvertimeDecision(c) \/ CommitDelegation(c)
        PROVE  Lifecycle!Next
    BY <2>2, SettleLifecycle DEF CommitLeaveDecision, CommitOvertimeDecision, CommitDelegation
  <2>3. ASSUME NEW j \in Jobs, CommitEscalation(j) PROVE Lifecycle!Next
    <3>1. claim[j] \in SUBSET Requests
      BY DEF IInv, TypeOK
    <3>2. Lifecycle!HandToHR(claim[j])
      BY <2>3 DEF CommitEscalation, Lifecycle!HandToHR
    <3> QED BY <3>1, <3>2 DEF Lifecycle!Next
  <2>4. UNCHANGED tables => UNCHANGED Lifecycle!vars
    BY DEF tables, Lifecycle!vars
  <2> QED BY TablesStep, <2>1, <2>2, <2>3, <2>4
<1> QED BY <1>1, <1>2, Invariance, PTL DEF Spec, Implements, Lifecycle!Spec
=============================================================================
