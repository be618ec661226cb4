------------------------- MODULE MaintenanceProofs -------------------------
(***************************************************************************)
(* Proofs that every behaviour of Maintenance keeps its invariants, for    *)
(* any set of clients.  MaintenanceInv is the inductive invariant.         *)
(***************************************************************************)
EXTENDS Maintenance, TLAPS

USE ClientsAssumption DEF NoAction, Reboot, ClearSessions, Reset, Actions

(* Every boot starts in the invariant.                                     *)
LEMMA InitEstablishesInv == Init => MaintenanceInv
  BY DEF Init, MaintenanceInv, TypeOK, TaskStates, SupervisorStates,
     PromisesRemembered, AppliedIsDone, FreshTask, GoalIsNewer, ClosedIsFinal,
     TaskAccounting, MarkedIsRetried, PromiseKept, OneTask,
     RunningClientIsActive, NoClientDuringReset, Unyielding

(* Every step keeps every variable's type.                                 *)
LEMMA TypeKept == TypeOK /\ Next => TypeOK'
  <1> SUFFICES ASSUME TypeOK, Next PROVE TypeOK'
    OBVIOUS
  <1> USE DEF TypeOK, coordinator, locals, task, clients, flash
  <1>1. ASSUME NEW action \in Actions, AdminQueued(action) PROVE TypeOK'
    BY <1>1 DEF AdminQueued, Upgrade, StrongerOf
  <1>2. ASSUME NEW action \in Actions, AdminStart(action) PROVE TypeOK'
    BY <1>2 DEF AdminStart, Upgrade, StrongerOf
  <1>3. CASE AdminSpawn
    BY <1>3 DEF AdminSpawn, TaskStates
  <1>4. CASE AdminCancel
    <2>1. /\ running' \in BOOLEAN /\ requested' \in Actions \cup {NoAction}
          /\ starting' \in Actions \cup {NoAction}
      BY <1>4, Zenon DEF AdminCancel
    <2> QED
      BY <1>4, <2>1 DEF AdminCancel
  <1>5. CASE MaintenanceBegin
    BY <1>5 DEF MaintenanceBegin, TaskStates
  <1>6. CASE ClientStopped
    BY <1>6 DEF ClientStopped, StopClient, TaskStates
  <1>7. CASE LoopRead
    BY <1>7 DEF LoopRead, Requested, TaskStates
  <1>8. CASE LogoutDone
    BY <1>8 DEF LogoutDone, TaskStates
  <1>9. CASE ApplyOk
    <2>1. device' \in BOOLEAN /\ sessions' \in BOOLEAN /\ resetMark' \in BOOLEAN
      BY <1>9, Zenon DEF ApplyOk
    <2> QED
      BY <1>9, <2>1 DEF ApplyOk, TaskStates
  <1>10. CASE ApplyFails
    <2>1. device' \in BOOLEAN /\ sessions' \in BOOLEAN /\ resetMark' \in BOOLEAN
      BY <1>10, Zenon DEF ApplyFails, TaskStates
    <2> QED
      BY <1>10, <2>1 DEF ApplyFails, TaskStates
  <1>11. CASE BeginReboot
    <2>1. accepting' \in BOOLEAN /\ mpc' \in TaskStates
      BY <1>11, Zenon DEF BeginReboot, CommitUnless, TaskStates
    <2> QED
      BY <1>11, <2>1 DEF BeginReboot, CommitUnless, TaskStates
  <1>12. CASE Restart
    BY <1>12 DEF Restart, ChipResets, TaskStates, SupervisorStates
  <1>13. CASE RestartFails
    BY <1>13 DEF RestartFails, TaskStates
  <1>14. CASE BotBuilt
    BY <1>14 DEF BotBuilt, SupervisorStates
  <1>15. CASE BuildFails
    BY <1>15 DEF BuildFails, SupervisorStates
  <1>16. CASE BotExits
    BY <1>16 DEF BotExits, SupervisorStates
  <1>17. CASE DelayOver
    BY <1>17 DEF DelayOver, SupervisorStates
  <1>18. CASE SupervisorStarts
    BY <1>18 DEF SupervisorStarts, ResetHere, Upgrade, StrongerOf, SupervisorStates, TaskStates
  <1>19. CASE SupervisorQueues
    BY <1>19 DEF SupervisorQueues, Upgrade, StrongerOf, SupervisorStates
  <1>20. CASE SupervisorRejected
    BY <1>20 DEF SupervisorRejected, SupervisorStates
  <1>21. CASE ClientWrites
    <2>1. device' \in BOOLEAN /\ sessions' \in BOOLEAN
      BY <1>21, Zenon DEF ClientWrites
    <2> QED
      BY <1>21, <2>1 DEF ClientWrites
  <1>22. CASE PowerLoss
    BY <1>22 DEF PowerLoss, ChipResets, TaskStates, SupervisorStates
  <1>23. CASE OpenOk
    <2>1. device' \in BOOLEAN /\ sessions' \in BOOLEAN /\ resetMark' \in BOOLEAN
      BY <1>23, Zenon DEF OpenOk
    <2> QED
      BY <1>23, <2>1 DEF OpenOk, SupervisorStates
  <1>24. CASE OpenFails
    <2>1. device' \in BOOLEAN /\ sessions' \in BOOLEAN
      BY <1>24, Zenon DEF OpenFails
    <2> QED
      BY <1>24, <2>1 DEF OpenFails
  <1>25. CASE ExecutorExits
    BY <1>25 DEF ExecutorExits, TaskStates, SupervisorStates
  <1> QED
    BY <1>1, <1>2, <1>3, <1>4, <1>5, <1>6, <1>7, <1>8, <1>9, <1>10,
       <1>11, <1>12, <1>13, <1>14, <1>15, <1>16, <1>17, <1>18, <1>19, <1>20,
       <1>21, <1>22, <1>23, <1>24, <1>25
       DEF Next, Httpd, MaintenanceTask, Supervisor, Chip

(* The dashboard's handlers keep the invariant.                            *)
LEMMA HttpdKeepsInv == MaintenanceInv /\ Httpd => MaintenanceInv'
  <1> SUFFICES ASSUME MaintenanceInv, Httpd PROVE MaintenanceInv'
    OBVIOUS
  <1> TypeOK'
    BY TypeKept DEF MaintenanceInv, Next
  <1> USE DEF MaintenanceInv, TypeOK, PromisesRemembered, AppliedIsDone, FreshTask,
      GoalIsNewer, ClosedIsFinal, TaskAccounting, MarkedIsRetried, PromiseKept,
      OneTask, Erased, RunningClientIsActive, NoClientDuringReset, Unyielding,
      coordinator, locals, task, clients, flash
  <1>1. ASSUME NEW action \in Actions, AdminQueued(action) PROVE MaintenanceInv'
    BY <1>1 DEF AdminQueued, Upgrade, StrongerOf
  <1>2. ASSUME NEW action \in Actions, AdminStart(action) PROVE MaintenanceInv'
    BY <1>2 DEF AdminStart, Upgrade, StrongerOf
  <1>3. CASE AdminSpawn
    BY <1>3 DEF AdminSpawn
  <1>4. CASE AdminCancel
    <2>1. TaskAccounting' /\ OneTask' /\ PromisesRemembered'
      BY <1>4 DEF AdminCancel
    <2>2. ClosedIsFinal' /\ PromiseKept'
      BY <1>4 DEF AdminCancel
    <2>3. AppliedIsDone' /\ FreshTask' /\ GoalIsNewer' /\ MarkedIsRetried'
      BY <1>4 DEF AdminCancel
    <2>4. RunningClientIsActive' /\ NoClientDuringReset'
      BY <1>4 DEF AdminCancel
    <2> QED
      BY <2>1, <2>2, <2>3, <2>4
  <1> QED
    BY <1>1, <1>2, <1>3, <1>4 DEF Httpd

(* The maintenance task's own steps keep the invariant.                    *)
LEMMA TaskKeepsInv == MaintenanceInv /\ MaintenanceTask => MaintenanceInv'
  <1> SUFFICES ASSUME MaintenanceInv, MaintenanceTask PROVE MaintenanceInv'
    OBVIOUS
  <1> TypeOK'
    BY TypeKept DEF MaintenanceInv, Next
  <1> USE DEF MaintenanceInv, TypeOK, PromisesRemembered, AppliedIsDone, FreshTask,
      GoalIsNewer, ClosedIsFinal, TaskAccounting, MarkedIsRetried, PromiseKept,
      OneTask, Erased, RunningClientIsActive, NoClientDuringReset, Unyielding,
      coordinator, locals, task, clients, flash
  <1>1. CASE MaintenanceBegin
    BY <1>1 DEF MaintenanceBegin, Requested, ExecutorFree, ExecutorUp
  <1>2. CASE ClientStopped
    BY <1>2 DEF ClientStopped, StopClient, ExecutorFree, ExecutorUp
  <1>3. CASE LoopRead
    BY <1>3 DEF LoopRead, Requested, NeedsLogout
  <1>4. CASE LogoutDone
    BY <1>4 DEF LogoutDone, ExecutorFree, ExecutorUp
  <1>5. CASE ApplyOk
    BY <1>5 DEF ApplyOk
  <1>6. CASE ApplyFails
    <2> USE <1>6 DEF ApplyFails
    <2>1. /\ applied < goal /\ goal <= requested
          /\ applied \in Actions /\ goal \in {ClearSessions, Reset}
      OBVIOUS
    <2>2. (sessions' => sessions) /\ (device' => device)
      BY Zenon
    <2>3. goal = ClearSessions => resetMark' = resetMark
      OBVIOUS
    <2>4. PromisesRemembered'
      OBVIOUS
    <2>5. AppliedIsDone'
      BY <2>1, <2>2
    <2>6. FreshTask'
      OBVIOUS
    <2>7. GoalIsNewer'
      OBVIOUS
    <2>8. ClosedIsFinal'
      OBVIOUS
    <2>9. TaskAccounting'
      OBVIOUS
    <2>10. MarkedIsRetried'
      BY <2>1, <2>3
    <2>11. PromiseKept'
      OBVIOUS
    <2>12. OneTask'
      OBVIOUS
    <2>13. RunningClientIsActive'
      OBVIOUS
    <2>14. NoClientDuringReset'
      OBVIOUS
    <2> QED
      BY <2>4, <2>5, <2>6, <2>7, <2>8, <2>9,
         <2>10, <2>11, <2>12, <2>13, <2>14
  <1>7. CASE BeginReboot
    BY <1>7 DEF BeginReboot, CommitUnless
  <1>8. CASE Restart
    BY <1>8 DEF Restart, ChipResets
  <1>9. CASE RestartFails
    BY <1>9 DEF RestartFails
  <1> QED
    BY <1>1, <1>2, <1>3, <1>4, <1>5, <1>6, <1>7, <1>8, <1>9 DEF MaintenanceTask

(* The supervisor and the clients it runs keep the invariant.              *)
LEMMA SupervisorKeepsInv == MaintenanceInv /\ (Supervisor \/ ClientWrites) => MaintenanceInv'
  <1> SUFFICES ASSUME MaintenanceInv, Supervisor \/ ClientWrites PROVE MaintenanceInv'
    OBVIOUS
  <1> TypeOK'
    BY TypeKept DEF MaintenanceInv, Next
  <1> USE DEF MaintenanceInv, TypeOK, PromisesRemembered, AppliedIsDone, FreshTask,
      GoalIsNewer, ClosedIsFinal, TaskAccounting, MarkedIsRetried, PromiseKept,
      OneTask, Erased, RunningClientIsActive, NoClientDuringReset, Unyielding,
      coordinator, locals, task, clients, flash,
      ExecutorFree, ExecutorUp
  <1>1. CASE BotBuilt
    BY <1>1 DEF BotBuilt
  <1>2. CASE BuildFails
    BY <1>2 DEF BuildFails
  <1>3. CASE BotExits
    BY <1>3 DEF BotExits
  <1>4. CASE DelayOver
    BY <1>4 DEF DelayOver
  <1>5. CASE SupervisorStarts
    BY <1>5 DEF SupervisorStarts, ResetHere, Upgrade, StrongerOf
  <1>6. CASE SupervisorQueues
    BY <1>6 DEF SupervisorQueues, Upgrade, StrongerOf
  <1>7. CASE SupervisorRejected
    BY <1>7 DEF SupervisorRejected
  <1>8. CASE ClientWrites
    BY <1>8 DEF ClientWrites
  <1> QED
    BY <1>1, <1>2, <1>3, <1>4, <1>5, <1>6, <1>7, <1>8 DEF Supervisor

(* Power losses, boots and an executor that exits keep the invariant.      *)
LEMMA ChipKeepsInv == MaintenanceInv /\ Chip => MaintenanceInv'
  <1> SUFFICES ASSUME MaintenanceInv, Chip PROVE MaintenanceInv'
    OBVIOUS
  <1> TypeOK'
    BY TypeKept DEF MaintenanceInv, Next
  <1> USE DEF MaintenanceInv, TypeOK, PromisesRemembered, AppliedIsDone, FreshTask,
      GoalIsNewer, ClosedIsFinal, TaskAccounting, MarkedIsRetried, PromiseKept,
      OneTask, Erased, RunningClientIsActive, NoClientDuringReset, Unyielding,
      coordinator, locals, task, clients, flash
  <1>1. CASE PowerLoss
    BY <1>1 DEF PowerLoss, ChipResets
  <1>2. CASE OpenOk
    BY <1>2 DEF OpenOk
  <1>3. CASE OpenFails
    BY <1>3 DEF OpenFails
  <1>4. CASE ExecutorExits
    BY <1>4 DEF ExecutorExits, ExecutorFree, ExecutorUp
  <1> QED
    BY <1>1, <1>2, <1>3, <1>4 DEF Chip

(* The inductive invariant holds throughout.                               *)
THEOREM MaintenanceInvariance == Spec => []MaintenanceInv
  <1>1. MaintenanceInv /\ [Next]_vars => MaintenanceInv'
    <2> SUFFICES ASSUME MaintenanceInv, [Next]_vars PROVE MaintenanceInv'
      OBVIOUS
    <2>1. CASE UNCHANGED vars
      BY <2>1 DEF vars, coordinator, locals, task, clients, flash, MaintenanceInv, TypeOK,
         PromisesRemembered, AppliedIsDone, FreshTask, GoalIsNewer, ClosedIsFinal,
         TaskAccounting, MarkedIsRetried, PromiseKept, OneTask, Erased,
         RunningClientIsActive, NoClientDuringReset
    <2> QED
      BY <2>1, HttpdKeepsInv, TaskKeepsInv, SupervisorKeepsInv, ChipKeepsInv DEF Next
  <1> QED
    BY <1>1, InitEstablishesInv, PTL DEF Spec

(* TypeOK: every variable keeps its type, so the coordinator only ever     *)
(* holds one of the three actions.                                         *)
THEOREM TypeCorrect == Spec => []TypeOK
  BY MaintenanceInvariance, PTL DEF MaintenanceInv

(* PromiseKept: when begin_reboot closes the window, every accepted        *)
(* request has had its effect on flash.                                    *)
THEOREM PromisesAreKept == Spec => []PromiseKept
  BY MaintenanceInvariance, PTL DEF MaintenanceInv

(* OneTask: request() hands out the right to start a task only while no    *)
(* task exists, and never forgets one.                                     *)
THEOREM TasksAreUnique == Spec => []OneTask
  BY MaintenanceInvariance, PTL DEF MaintenanceInv

(* RunningClientIsActive: clear_if never hides a newer client.             *)
THEOREM RunningClientReachable == Spec => []RunningClientIsActive
  BY MaintenanceInvariance, PTL DEF MaintenanceInv

(* NoClientDuringReset: no client task runs over a flash that carries the  *)
(* reset marker, power losses included.                                    *)
THEOREM ResetExcludesClients == Spec => []NoClientDuringReset
  BY MaintenanceInvariance, PTL DEF MaintenanceInv

(* DeviceErasedOnlyByReset: only a reset that was asked for, or the boot   *)
(* that finishes one, removes the linked device from flash.                *)
THEOREM OnlyResetErasesDevice == Spec => DeviceErasedOnlyByReset
  <1>1. MaintenanceInv /\ [Next]_vars =>
          [device /\ ~device' => resetMark \/ (Reset = requested /\ goal = Reset)]_vars
    <2> SUFFICES ASSUME MaintenanceInv, Next, device, ~device'
                 PROVE  resetMark \/ (Reset = requested /\ goal = Reset)
      OBVIOUS
    <2>1. CASE Httpd
      BY <2>1 DEF Httpd, AdminQueued, AdminStart, AdminSpawn, AdminCancel, flash
    <2>2. CASE ApplyOk \/ ApplyFails
      <3>1. mpc = "apply" /\ goal = Reset
        BY <2>2 DEF ApplyOk, ApplyFails, flash
      <3>2. requested = Reset
        BY <3>1 DEF MaintenanceInv, GoalIsNewer, TypeOK
      <3> QED
        BY <3>1, <3>2
    <2>3. CASE MaintenanceTask /\ ~(ApplyOk \/ ApplyFails)
      BY <2>3 DEF MaintenanceTask, MaintenanceBegin, ClientStopped, StopClient, LoopRead,
         LogoutDone, BeginReboot, CommitUnless, Restart, RestartFails, ChipResets, flash
    <2>4. CASE Supervisor
      BY <2>4 DEF Supervisor, BotBuilt, BuildFails, BotExits, DelayOver,
         SupervisorStarts, ResetHere, SupervisorQueues, SupervisorRejected, flash
    <2>5. CASE ClientWrites
      BY <2>5 DEF ClientWrites
    <2>6. CASE Chip
      BY <2>6 DEF Chip, PowerLoss, ChipResets, OpenOk, OpenFails, ExecutorExits, flash
    <2> QED
      BY <2>1, <2>2, <2>3, <2>4, <2>5, <2>6 DEF Next
  <1> QED
    BY <1>1, MaintenanceInvariance, PTL DEF Spec, DeviceErasedOnlyByReset
=============================================================================
