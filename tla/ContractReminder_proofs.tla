---------------------- MODULE ContractReminder_proofs ----------------------
(***************************************************************************)
(* Who is told of an ending contract, for every company, every number of   *)
(* simultaneous runs and every batch size; and that nothing undoes what a  *)
(* recipient did.                                                          *)
(***************************************************************************)
EXTENDS ContractReminder, TLAPS

Informed(c) == Told(c) = Entitled(c)

(* What a run has passed over without a failure has been announced. *)
PassedIsAnnounced ==
  \A w \in Workers : run[w] # NoRun /\ run[w].ok =>
    \A c \in FirstOf(Due(run[w].target), BatchSize) \ run[w].todo : Informed(c)

IInv == TypeOK /\ EveryoneEntitledOrNobody /\ PassedIsAnnounced /\ CompletedRunsRemind

(* The code's list of recipients and the words of the decision agree. *)
LEMMA RecipientsAreEntitled ==
  ASSUME NEW c \in Contracts PROVE Recipients(c) = Entitled(c)
<1>1. Subject[c] \in Users
  BY ReminderAssumption
<1> QED BY <1>1, ReminderAssumption
        DEF Recipients, Entitled, ActiveUserIDsByRole, SupervisorUserID

LEMMA InsertTells ==
  ASSUME TypeOK, EveryoneEntitledOrNobody, NEW c \in Contracts,
         notif' = [notif EXCEPT ![c] = Insert(c, @)], UNCHANGED active
  PROVE  /\ Informed(c)'
         /\ \A d \in Contracts \ {c} : Told(d)' = Told(d)
         /\ notif' \in [Contracts -> [Users -> Row \cup {NoRow}]]
         /\ \A d \in Contracts, u \in Users : notif[d][u] # NoRow => notif'[d][u] = notif[d][u]
<1>1. NewRow \in Row /\ NewRow # NoRow
  BY ReminderAssumption DEF NewRow, Row
<1>2. notif'[c] = Insert(c, notif[c])
  BY DEF TypeOK
<1>3. \A d \in Contracts \ {c} : notif'[d] = notif[d]
  BY DEF TypeOK
<1>4. Insert(c, notif[c]) \in [Users -> Row \cup {NoRow}]
  BY <1>1 DEF Insert, TypeOK
<1>5. \A u \in Users : notif'[c][u] = IF u \in Recipients(c) /\ notif[c][u] = NoRow
                                      THEN NewRow ELSE notif[c][u]
  BY <1>2 DEF Insert
<1>6. Told(c)' = Told(c) \cup Recipients(c)
  <2>1. Recipients(c) \subseteq Users
    BY DEF Recipients, ActiveUserIDsByRole, SupervisorUserID
  <2> QED BY <1>1, <1>5, <2>1 DEF Told
<1>7. Told(c) \in {{}, Entitled(c)} /\ Entitled(c)' = Entitled(c)
  BY DEF EveryoneEntitledOrNobody, Entitled
<1>8. Informed(c)'
  BY <1>6, <1>7, RecipientsAreEntitled DEF Informed
<1>9. notif' \in [Contracts -> [Users -> Row \cup {NoRow}]]
  BY <1>4 DEF TypeOK
<1>10. \A d \in Contracts \ {c} : Told(d)' = Told(d)
  BY <1>3 DEF Told
<1> QED BY <1>3, <1>5, <1>8, <1>9, <1>10

(* An inbox call changes a row and tells nobody. *)
LEMMA InboxCalls ==
  ASSUME TypeOK, NEW c \in Contracts, NEW u \in Readers, MarkRead(c, u) \/ Dismiss(c, u)
  PROVE  /\ notif' \in [Contracts -> [Users -> Row \cup {NoRow}]]
         /\ \A d \in Contracts : Told(d)' = Told(d)
<1>1. u \in Users /\ notif[c][u] \in Row /\ notif[c][u] # NoRow /\ day \in Days
  BY ReminderAssumption DEF TypeOK, MarkRead, Dismiss
<1>2. PICK row \in Row : notif' = [notif EXCEPT ![c][u] = row]
  <2>1. CASE MarkRead(c, u)
    <3>1. [notif[c][u] EXCEPT !.read = IF @ = NoDay THEN day ELSE @] \in Row
      BY <1>1 DEF Row
    <3> QED BY <1>1, <2>1, <3>1 DEF MarkRead
  <2>2. CASE Dismiss(c, u)
    <3>1. [notif[c][u] EXCEPT !.dismissed = IF @ = NoDay THEN day ELSE @] \in Row
      BY <1>1 DEF Row
    <3> QED BY <1>1, <2>2, <3>1 DEF Dismiss
  <2> QED BY <2>1, <2>2
<1>3. row # NoRow
  BY ReminderAssumption
<1>4. \A d \in Contracts, v \in Users : notif'[d][v] = NoRow <=> notif[d][v] = NoRow
  BY <1>1, <1>2, <1>3 DEF TypeOK
<1>5. notif' \in [Contracts -> [Users -> Row \cup {NoRow}]]
  BY <1>1, <1>2 DEF TypeOK
<1> QED BY <1>4, <1>5 DEF Told
-----------------------------------------------------------------------------
LEMMA InitInv == Init => IInv
  BY ReminderAssumption
     DEF Init, IInv, TypeOK, Days, EveryoneEntitledOrNobody, Told, PassedIsAnnounced,
         CompletedRunsRemind

(* The runs and their records are untouched, and who was told still is. *)
LEMMA Stays ==
  ASSUME IInv, UNCHANGED <<active, run, completed>>, \A d \in Contracts : Told(d)' = Told(d)
  PROVE  EveryoneEntitledOrNobody' /\ PassedIsAnnounced' /\ CompletedRunsRemind'
<1>1. \A d \in Contracts : Entitled(d)' = Entitled(d) /\ (Informed(d) => Informed(d)')
  BY DEF Entitled, Informed
<1>2. \A t : FirstOf(Due(t), BatchSize)' = FirstOf(Due(t), BatchSize)
             /\ FirstOf(Due(t), BatchSize) \subseteq Contracts
  BY DEF FirstOf, Due
<1>3. EveryoneEntitledOrNobody'
  BY <1>1 DEF IInv, EveryoneEntitledOrNobody
<1>4. PassedIsAnnounced'
  BY <1>1, <1>2 DEF IInv, PassedIsAnnounced
<1>5. CompletedRunsRemind'
  BY <1>1, <1>2 DEF IInv, CompletedRunsRemind, Informed
<1> QED BY <1>3, <1>4, <1>5

(* Who was told still is, and every run that is still without failure has  *)
(* announced what it has passed over.                                      *)
LEMMA RunsAdvance ==
  ASSUME IInv, UNCHANGED <<active, completed>>,
         \A d \in Contracts : Told(d)' = Told(d) \/ Informed(d)',
         \A w \in Workers : run'[w] # NoRun /\ run'[w].ok =>
           \/ run'[w] = run[w]
           \/ \A c \in FirstOf(Due(run'[w].target), BatchSize) \ run'[w].todo : Informed(c)'
  PROVE  EveryoneEntitledOrNobody' /\ PassedIsAnnounced' /\ CompletedRunsRemind'
<1>1. \A d \in Contracts : Entitled(d)' = Entitled(d) /\ (Informed(d) => Informed(d)')
  BY DEF Entitled, Informed
<1>2. \A t : FirstOf(Due(t), BatchSize)' = FirstOf(Due(t), BatchSize)
             /\ FirstOf(Due(t), BatchSize) \subseteq Contracts
  BY DEF FirstOf, Due
<1>3. EveryoneEntitledOrNobody'
  BY <1>1 DEF IInv, EveryoneEntitledOrNobody, Informed
<1>4. PassedIsAnnounced'
  <2> SUFFICES ASSUME NEW w \in Workers, run'[w] # NoRun, run'[w].ok,
                      NEW c \in FirstOf(Due(run'[w].target), BatchSize) \ run'[w].todo
               PROVE  Informed(c)'
    BY <1>2 DEF PassedIsAnnounced
  <2>1. CASE run'[w] = run[w]
    <3>1. Informed(c) /\ c \in Contracts
      BY <1>2, <2>1 DEF IInv, PassedIsAnnounced
    <3> QED BY <1>1, <3>1
  <2> QED BY <2>1
<1>5. CompletedRunsRemind'
  BY <1>1, <1>2 DEF IInv, CompletedRunsRemind, Informed
<1> QED BY <1>3, <1>4, <1>5

LEMMA RunStep ==
  ASSUME IInv, NEW w \in Workers,
         \/ ClaimExpiringContracts(w) \/ FinishRun(w) \/ StopRun(w)
         \/ \E c \in Contracts : Notify(w, c) \/ FailContract(w, c)
  PROVE  IInv'
<1>1. CASE ClaimExpiringContracts(w)
  <2>1. run'[w].todo = FirstOf(Due(run'[w].target), BatchSize)
        /\ (\A v \in Workers \ {w} : run'[v] = run[v])
    BY <1>1 DEF ClaimExpiringContracts, IInv, TypeOK
  <2>2. \A d \in Contracts : Told(d)' = Told(d)
    BY <1>1 DEF ClaimExpiringContracts, Told
  <2>3. EveryoneEntitledOrNobody' /\ PassedIsAnnounced' /\ CompletedRunsRemind'
    <3>1. UNCHANGED <<active, completed>>
      BY <1>1 DEF ClaimExpiringContracts
    <3>2. \A v \in Workers : run'[v] # NoRun /\ run'[v].ok =>
           \/ run'[v] = run[v]
           \/ \A c \in FirstOf(Due(run'[v].target), BatchSize) \ run'[v].todo : Informed(c)'
      BY <2>1
    <3> QED BY <2>2, <3>1, <3>2, RunsAdvance
  <2>4. [target |-> day + ContractLeadDays, ok |-> TRUE,
         todo |-> FirstOf(Due(day + ContractLeadDays), BatchSize)] \in Run
    <3>1. FirstOf(Due(day + ContractLeadDays), BatchSize) \subseteq Contracts
      BY DEF FirstOf, Due
    <3> QED BY <3>1 DEF IInv, TypeOK, Run, Targets
  <2>5. TypeOK'
    BY <1>1, <2>4 DEF ClaimExpiringContracts, IInv, TypeOK
  <2> QED BY <2>3, <2>5 DEF IInv
<1>2. CASE FinishRun(w)
  <2>1. run[w] \in Run /\ run[w].todo = {}
    BY <1>2 DEF FinishRun, IInv, TypeOK
  <2>2. TypeOK'
    BY <1>2, <2>1 DEF FinishRun, IInv, TypeOK, Run
  <2>3. /\ \A d \in Contracts : Told(d)' = Told(d) /\ Entitled(d)' = Entitled(d)
        /\ \A t : FirstOf(Due(t), BatchSize)' = FirstOf(Due(t), BatchSize)
                  /\ FirstOf(Due(t), BatchSize) \subseteq Contracts
    BY <1>2 DEF FinishRun, Told, Entitled, FirstOf, Due
  <2>4. EveryoneEntitledOrNobody'
    BY <2>3 DEF IInv, EveryoneEntitledOrNobody
  <2>5. \A v \in Workers : run'[v] # NoRun => run'[v] = run[v]
    BY <1>2 DEF FinishRun, IInv, TypeOK
  <2>6. PassedIsAnnounced'
    BY <2>3, <2>5 DEF IInv, PassedIsAnnounced, Informed
  <2>7. run[w].ok => \A c \in FirstOf(Due(run[w].target), BatchSize) : Informed(c)
    BY <1>2, <2>1 DEF FinishRun, IInv, PassedIsAnnounced
  <2>8. CompletedRunsRemind'
    BY <1>2, <2>3, <2>7 DEF FinishRun, IInv, CompletedRunsRemind, Informed
  <2> QED BY <2>2, <2>4, <2>6, <2>8 DEF IInv
<1>3. CASE StopRun(w)
  <2>1. TypeOK' /\ (\A v \in Workers : run'[v] # NoRun => run'[v] = run[v])
    BY <1>3 DEF StopRun, IInv, TypeOK
  <2>2. UNCHANGED <<active, completed>> /\ (\A d \in Contracts : Told(d)' = Told(d))
    BY <1>3 DEF StopRun, Told
  <2> QED BY <2>1, <2>2, RunsAdvance DEF IInv
<1>4. ASSUME NEW c \in Contracts, Notify(w, c) PROVE IInv'
  <2>0. TypeOK /\ EveryoneEntitledOrNobody
    BY DEF IInv
  <2>1. run[w] \in Run /\ run[w] # NoRun
    BY <1>4 DEF Notify, Turn, IInv, TypeOK
  <2>2. /\ Informed(c)'
        /\ \A d \in Contracts \ {c} : Told(d)' = Told(d)
        /\ notif' \in [Contracts -> [Users -> Row \cup {NoRow}]]
    BY <1>4, <2>0, InsertTells DEF Notify
  <2>3. /\ run'[w] \in Run /\ run'[w].target = run[w].target /\ run'[w].ok = run[w].ok
        /\ run'[w].todo = run[w].todo \ {c}
        /\ \A v \in Workers \ {w} : run'[v] = run[v]
    BY <1>4, <2>1 DEF Notify, IInv, TypeOK, Run
  <2>4. TypeOK'
    BY <1>4, <2>2, <2>3 DEF Notify, IInv, TypeOK
  <2>5. run[w].ok => \A d \in FirstOf(Due(run[w].target), BatchSize) \ run'[w].todo : Informed(d)'
    <3>1. run[w].ok => \A d \in FirstOf(Due(run[w].target), BatchSize) \ run[w].todo :
                         Informed(d) /\ d \in Contracts
      BY <2>1 DEF IInv, PassedIsAnnounced, FirstOf, Due
    <3>2. \A d \in Contracts : Informed(d) => Informed(d)'
      BY <1>4, <2>2 DEF Notify, Informed, Entitled
    <3> QED BY <2>2, <2>3, <3>1, <3>2
  <2>6. UNCHANGED <<active, completed>> /\ (\A d \in Contracts : Told(d)' = Told(d) \/ Informed(d)')
    BY <1>4, <2>2 DEF Notify
  <2>7. \A v \in Workers : run'[v] # NoRun /\ run'[v].ok =>
           \/ run'[v] = run[v]
           \/ \A d \in FirstOf(Due(run'[v].target), BatchSize) \ run'[v].todo : Informed(d)'
    BY <2>3, <2>5
  <2> QED BY <2>4, <2>6, <2>7, RunsAdvance DEF IInv
<1>5. ASSUME NEW c \in Contracts, FailContract(w, c) PROVE IInv'
  <2>0. TypeOK /\ EveryoneEntitledOrNobody
    BY DEF IInv
  <2>1. run[w] \in Run /\ run[w] # NoRun
    BY <1>5 DEF FailContract, Turn, IInv, TypeOK
  <2>2. /\ Informed(c)' \/ Told(c)' = Told(c)
        /\ \A d \in Contracts \ {c} : Told(d)' = Told(d)
        /\ notif' \in [Contracts -> [Users -> Row \cup {NoRow}]]
    <3>1. CASE UNCHANGED notif
      BY <3>1 DEF IInv, TypeOK, Told
    <3>2. CASE notif' = [notif EXCEPT ![c] = Insert(c, @)]
      BY <1>5, <2>0, <3>2, InsertTells DEF FailContract
    <3> QED BY <1>5, <3>1, <3>2 DEF FailContract
  <2>3. /\ run'[w] \in Run /\ ~ run'[w].ok
        /\ \A v \in Workers \ {w} : run'[v] = run[v]
    BY <1>5, <2>1 DEF FailContract, IInv, TypeOK, Run
  <2>4. TypeOK'
    BY <1>5, <2>2, <2>3 DEF FailContract, IInv, TypeOK
  <2>5. UNCHANGED <<active, completed>> /\ (\A d \in Contracts : Told(d)' = Told(d) \/ Informed(d)')
    BY <1>5, <2>2 DEF FailContract
  <2> QED BY <2>3, <2>4, <2>5, RunsAdvance DEF IInv
<1> QED BY <1>1, <1>2, <1>3, <1>4, <1>5

LEMMA NextInv == IInv /\ [Next]_vars => IInv'
<1> SUFFICES ASSUME IInv, [Next]_vars PROVE IInv'
  OBVIOUS
<1>1. CASE NextDay
  <2>1. TypeOK'
    BY <1>1, ReminderAssumption DEF NextDay, IInv, TypeOK, Days
  <2>2. UNCHANGED <<active, run, completed>> /\ (\A d \in Contracts : Told(d)' = Told(d))
    BY <1>1 DEF NextDay, Told
  <2> QED BY <2>1, <2>2, Stays DEF IInv
<1>2. ASSUME NEW c \in Contracts, NEW u \in Readers, MarkRead(c, u) \/ Dismiss(c, u) PROVE IInv'
  <2>1. /\ notif' \in [Contracts -> [Users -> Row \cup {NoRow}]]
        /\ \A d \in Contracts : Told(d)' = Told(d)
    BY <1>2, InboxCalls DEF IInv
  <2>2. TypeOK' /\ UNCHANGED <<active, run, completed>>
    BY <1>2, <2>1 DEF MarkRead, Dismiss, IInv, TypeOK
  <2> QED BY <2>1, <2>2, Stays DEF IInv
<1>3. CASE UNCHANGED vars
  <2>1. TypeOK' /\ UNCHANGED <<active, run, completed>> /\ (\A d \in Contracts : Told(d)' = Told(d))
    BY <1>3 DEF vars, IInv, TypeOK, Told
  <2> QED BY <2>1, Stays DEF IInv
<1> QED BY <1>1, <1>2, <1>3, RunStep DEF Next
-----------------------------------------------------------------------------
(* Every run, notification and completed target is of its type: a target is *)
(* ContractLeadDays after a day of the model, a batch is of the contracts,   *)
(* whatever replicas stop or fail.                                           *)
THEOREM RemindersWellTyped == Spec => []TypeOK
<1>1. IInv => TypeOK
  BY DEF IInv
<1> QED BY <1>1, InitInv, NextInv, PTL DEF Spec

(* A contract is announced to exactly the recipients of decision D-014 or  *)
(* to nobody, in every company and whatever fails.                         *)
THEOREM AllOrNobody == Spec => []EveryoneEntitledOrNobody
<1>1. IInv => EveryoneEntitledOrNobody
  BY DEF IInv
<1> QED BY <1>1, InitInv, NextInv, PTL DEF Spec

(* A run that ends without a failure has announced its whole batch. *)
THEOREM CompletedRunsHaveReminded == Spec => []CompletedRunsRemind
<1>1. IInv => CompletedRunsRemind
  BY DEF IInv
<1> QED BY <1>1, InitInv, NextInv, PTL DEF Spec

(* Nothing a recipient did to a notification is undone, by another run or by *)
(* another call.                                                             *)
Advances ==
  \A c \in Contracts, u \in Users : notif[c][u] # NoRow =>
    /\ notif'[c][u] # NoRow
    /\ notif[c][u].read # NoDay => notif'[c][u].read = notif[c][u].read
    /\ notif[c][u].dismissed # NoDay => notif'[c][u] = notif[c][u]

LEMMA StepAdvances == IInv /\ [Next]_vars => Advances
<1> SUFFICES ASSUME IInv, [Next]_vars PROVE Advances
  OBVIOUS
<1>0. TypeOK /\ EveryoneEntitledOrNobody
  BY DEF IInv
<1>1. CASE UNCHANGED notif
  BY <1>1 DEF Advances
<1>2. ASSUME NEW c \in Contracts, notif' = [notif EXCEPT ![c] = Insert(c, @)], UNCHANGED active
      PROVE  Advances
  BY <1>0, <1>2, InsertTells DEF Advances
<1>3. ASSUME NEW c \in Contracts, NEW u \in Readers, MarkRead(c, u) \/ Dismiss(c, u)
      PROVE  Advances
  <2>1. u \in Users /\ notif[c][u] \in Row /\ notif[c][u] # NoRow /\ day \in Days
    BY <1>0, <1>3, ReminderAssumption DEF TypeOK, MarkRead, Dismiss
  <2>2. \A d \in Contracts, v \in Users : (d # c \/ v # u) => notif'[d][v] = notif[d][v]
    BY <1>0, <1>3 DEF TypeOK, MarkRead, Dismiss
  <2>3. CASE MarkRead(c, u)
    <3>1. notif'[c][u] = [notif[c][u] EXCEPT !.read = IF @ = NoDay THEN day ELSE @]
      BY <1>0, <2>1, <2>3 DEF TypeOK, MarkRead
    <3>2. notif'[c][u] \in Row
      BY <2>1, <3>1 DEF Row
    <3> QED BY <2>1, <2>2, <2>3, <3>1, <3>2, ReminderAssumption DEF Advances, MarkRead, Row
  <2>4. CASE Dismiss(c, u)
    <3>1. notif'[c][u] = [notif[c][u] EXCEPT !.dismissed = IF @ = NoDay THEN day ELSE @]
      BY <1>0, <2>1, <2>4 DEF TypeOK, Dismiss
    <3>2. notif'[c][u] \in Row
      BY <2>1, <3>1 DEF Row
    <3>3. notif[c][u].dismissed # NoDay => notif'[c][u] = notif[c][u]
      BY <2>1, <3>1 DEF Row
    <3>4. notif'[c][u].read = notif[c][u].read
      BY <2>1, <3>1 DEF Row
    <3> QED BY <2>1, <2>2, <3>2, <3>3, <3>4, ReminderAssumption DEF Advances
  <2> QED BY <1>3, <2>3, <2>4
<1>4. UNCHANGED active
  BY DEF Next, vars, NextDay, ClaimExpiringContracts, FinishRun, StopRun, Notify, FailContract,
         MarkRead, Dismiss
<1> QED BY <1>1, <1>2, <1>3, <1>4
        DEF Next, vars, NextDay, ClaimExpiringContracts, FinishRun, StopRun, Notify, FailContract

(* A notification never disappears, is read once, and stays dismissed. *)
THEOREM InboxAdvances == Spec => InboxOnlyAdvances
<1>1. IInv /\ [Next]_vars => [Advances]_vars
  BY StepAdvances
<1>2. Spec => [][Advances]_vars
  BY <1>1, InitInv, NextInv, PTL DEF Spec
<1> QED BY <1>2 DEF InboxOnlyAdvances, Advances
=============================================================================
