--------------------------- MODULE NvsResetProofs ---------------------------
(***************************************************************************)
(* Proofs about NvsReset for any set of identities: its invariants, and    *)
(* that it implements LinkedDevice.                                        *)
(***************************************************************************)
EXTENDS NvsReset, TLAPS

USE PairingsAssumption, UsedAssumption

(* Steps 2 to 8 of erase_all reach every blob, and nothing else.           *)
LEMMA TargetsCoverBlobs ==
    /\ \A i \in 2..LastStep : Target(i) \in Blobs
    /\ \A b \in Blobs : \E i \in 2..LastStep : Target(i) = b
    /\ Namespaces \subseteq Blobs
    /\ "session" \in Namespaces
  <1>1. Blobs = {Target(i) : i \in 2..LastStep}
    <2>1. \A i \in 1..6 : i + 2 \in 2..8 /\ Target(i + 2) = SignalOrder[i]
      BY DEF Target
    <2>2. \A i \in 3..8 : i - 2 \in 1..6 /\ Target(i) = SignalOrder[i - 2]
      BY DEF Target
    <2>3. Target(2) = LatestSync
      BY DEF Target
    <2> QED
      BY <2>1, <2>2, <2>3 DEF Blobs, Namespaces, LastStep
  <1>2. SignalOrder[2] = "session"
    BY DEF SignalOrder
  <1> QED
    BY <1>1, <1>2 DEF Blobs, Namespaces

(* Whatever a boot finds is in the invariant.                              *)
LEMMA InitEstablishesInv == Init => ResetInv
  <1> SUFFICES ASSUME Init PROVE ResetInv
    OBVIOUS
  <1>1. \A b \in Blobs : records[b] \subseteq {device} \ {None}
    BY DEF Init
  <1>2. records \in [Blobs -> SUBSET Pairings]
    BY DEF Init
  <1>3. TypeOK
    <2>1. mark \in BOOLEAN /\ sealed \in BOOLEAN /\ minted \in SUBSET Pairings
      BY DEF Init
    <2> QED
    BY <1>2, <2>1 DEF Init, TypeOK, Phases, LastStep, MaxTries
  <1> QED
    BY <1>1, <1>3, TargetsCoverBlobs DEF Init, ResetInv, MarkByPhase, Accounted,
       Swept, Coherent, NoMixing, ForgottenStaysForgotten, DoneIsClean, Erasing, Opening

(* Every step keeps every variable's type.                                 *)
LEMMA TypeKept == TypeOK /\ Next => TypeOK'
  <1> SUFFICES ASSUME TypeOK, Next PROVE TypeOK'
    OBVIOUS
  <1> USE TargetsCoverBlobs DEF TypeOK, flash, worker, ram, history, Phases, LastStep, MaxTries
  <1>0. ASSUME ChipResets PROVE TypeOK'
    <2>1. sealed' \in BOOLEAN
      BY <1>0, Zenon DEF ChipResets
    <2> QED
      BY <1>0, <2>1 DEF ChipResets
  <1>1. CASE OpenPending
    BY <1>1 DEF OpenPending
  <1>2. CASE OpenClean
    BY <1>2 DEF OpenClean
  <1>3. CASE LoadDevice
    BY <1>3 DEF LoadDevice
  <1>4. CASE LoadNothing
    BY <1>4 DEF LoadNothing, OpensEmpty
  <1>5. CASE LoadOrphans
    BY <1>5 DEF LoadOrphans
  <1>6. CASE LoadFails
    BY <1>0, <1>6 DEF LoadFails
  <1>7. CASE EraseOk
    BY <1>7 DEF EraseOk, Leaves
  <1>8. CASE EraseRetries
    BY <1>8 DEF EraseRetries, EraseAgainIf, EraseInPart, Leaves
  <1>9. CASE EraseFails
    <2>1. sealed' \in BOOLEAN
      BY <1>9, Zenon DEF EraseFails, GiveUp, GiveUpTo
    <2>2. device' \in Pairings \cup {None} /\ records' \in [Blobs -> SUBSET Pairings]
      BY <1>9 DEF EraseFails, EraseInPart, Leaves
    <2> QED
      BY <1>9, <2>1, <2>2 DEF EraseFails, GiveUp, GiveUpTo
  <1>10. CASE DiscardDone
    BY <1>10 DEF DiscardDone, OpensEmpty
  <1>11. CASE FinishDone
    BY <1>11 DEF FinishDone
  <1>12. CASE FinishFails
    <2>1. sealed' \in BOOLEAN
      BY <1>12, Zenon DEF FinishFails, GiveUp, GiveUpTo
    <2> QED
      BY <1>12, <2>1 DEF FinishFails, GiveUp, GiveUpTo
  <1>13. CASE Mint
    BY <1>13 DEF Mint
  <1>14. ASSUME NEW p \in clients, SaveDevice(p) \/ SaveFails(p) PROVE TypeOK'
    BY <1>14 DEF SaveDevice, SaveFails, Writing
  <1>15. CASE SealWrites
    BY <1>15 DEF SealWrites
  <1>16. CASE ClearSessions
    BY <1>16 DEF ClearSessions
  <1>17. ASSUME NEW p \in clients, NEW b \in Used, PutRecord(p, b) PROVE TypeOK'
    BY <1>17 DEF PutRecord, Writing
  <1>18. ASSUME NEW ns \in Used \ {LatestSync}, DeleteRecords(ns) PROVE TypeOK'
    BY <1>18 DEF DeleteRecords, Writing
  <1>19. CASE MarkReset
    BY <1>19 DEF MarkReset, Commit, InUse
  <1>20. CASE MarkResetFails
    BY <1>20 DEF MarkResetFails, InUse
  <1>21. CASE PowerLoss
    BY <1>0, <1>21 DEF PowerLoss
  <1> QED
    BY <1>1, <1>2, <1>3, <1>4, <1>5, <1>6, <1>7, <1>8, <1>9, <1>10, <1>11,
       <1>12, <1>13, <1>14, <1>15, <1>16, <1>17, <1>18, <1>19, <1>20, <1>21
       DEF Next, Open, EraseSteps, Serve, Reset

(* Every step keeps the invariant.                                         *)
LEMMA StepKeepsInv == ResetInv /\ Next => ResetInv'
  <1> SUFFICES ASSUME ResetInv, Next PROVE ResetInv'
    OBVIOUS
  <1> TypeOK'
    BY TypeKept DEF ResetInv
  <1> USE TargetsCoverBlobs DEF ResetInv, TypeOK, MarkByPhase, Accounted, Swept,
      Coherent, NoMixing, ForgottenStaysForgotten, DoneIsClean, Erasing, Opening,
      LastStep, flash, worker, ram, history
  <1>1. CASE OpenPending
    BY <1>1 DEF OpenPending
  <1>2. CASE OpenClean
    BY <1>2 DEF OpenClean
  <1>3. CASE LoadDevice
    BY <1>3 DEF LoadDevice
  <1>4. CASE LoadNothing
    BY <1>4 DEF LoadNothing, OpensEmpty, HasSignalRecords
  <1>5. CASE LoadOrphans
    BY <1>5 DEF LoadOrphans
  <1>6. CASE LoadFails
    BY <1>6 DEF LoadFails, ChipResets
  <1>7. CASE EraseOk
    BY <1>7 DEF EraseOk, Leaves
  <1>8. CASE EraseRetries
    BY <1>8 DEF EraseRetries, EraseAgainIf, EraseInPart, Leaves
  <1>9. CASE EraseFails
    BY <1>9 DEF EraseFails, EraseInPart, Leaves, GiveUp, GiveUpTo
  <1>10. CASE DiscardDone
    BY <1>10 DEF DiscardDone, OpensEmpty
  <1>11. CASE FinishDone
    BY <1>11 DEF FinishDone
  <1>12. CASE FinishFails
    BY <1>12 DEF FinishFails, GiveUp, GiveUpTo
  <1>13. CASE Mint
    BY <1>13 DEF Mint
  <1>14. ASSUME NEW p \in clients, SaveDevice(p) \/ SaveFails(p) PROVE ResetInv'
    BY <1>14 DEF SaveDevice, SaveFails, Writing
  <1>15. CASE SealWrites
    BY <1>15 DEF SealWrites
  <1>16. CASE ClearSessions
    BY <1>16 DEF ClearSessions
  <1>17. ASSUME NEW p \in clients, NEW b \in Used, PutRecord(p, b) PROVE ResetInv'
    BY <1>17 DEF PutRecord, Writing
  <1>18. ASSUME NEW ns \in Used \ {LatestSync}, DeleteRecords(ns) PROVE ResetInv'
    BY <1>18 DEF DeleteRecords, Writing
  <1>19. CASE MarkReset
    BY <1>19 DEF MarkReset, Commit, InUse
  <1>20. CASE MarkResetFails
    BY <1>20 DEF MarkResetFails, InUse
  <1>21. CASE PowerLoss
    BY <1>21 DEF PowerLoss, ChipResets
  <1> QED
    BY <1>1, <1>2, <1>3, <1>4, <1>5, <1>6, <1>7, <1>8, <1>9, <1>10, <1>11,
       <1>12, <1>13, <1>14, <1>15, <1>16, <1>17, <1>18, <1>19, <1>20, <1>21
       DEF Next, Open, EraseSteps, Serve, Reset

(* The inductive invariant holds throughout.                               *)
THEOREM ResetInvariance == Spec => []ResetInv
  <1>1. ResetInv /\ UNCHANGED vars => ResetInv'
    BY DEF vars, flash, worker, ram, history, ResetInv, TypeOK, MarkByPhase, Accounted,
       Swept, Coherent, NoMixing, ForgottenStaysForgotten, DoneIsClean, Erasing, Opening
  <1> QED
    BY <1>1, InitEstablishesInv, StepKeepsInv, PTL DEF Spec

(* TypeOK: the cursor never leaves erase_all's steps and no namespace is   *)
(* tried more than three times.                                            *)
THEOREM TypeCorrect == Spec => []TypeOK
  BY ResetInvariance, PTL DEF ResetInv

(* NoMixing: a new pairing never finds records of an old one, other than   *)
(* of clients that the same boot built and lost before a device was saved. *)
THEOREM PairingsNeverMix == Spec => []NoMixing
  BY ResetInvariance, PTL DEF ResetInv

(* ForgottenStaysForgotten: an identity whose reset marker was committed   *)
(* is never served again, and an open store has none of its records.       *)
THEOREM ForgottenForGood == Spec => []ForgottenStaysForgotten
  BY ResetInvariance, PTL DEF ResetInv

(* DoneIsClean: a reset that reports success has erased everything.        *)
THEOREM ResetLeavesNothing == Spec => []DoneIsClean
  BY ResetInvariance, PTL DEF ResetInv

(* Every step of the store is a step of LinkedDevice, or leaves it alone.  *)
LEMMA StepSimulates == ResetInv /\ ResetInv' /\ [Next]_vars => [Promise!Next]_(Promise!vars)
  <1> SUFFICES ASSUME ResetInv, ResetInv', [Next]_vars
               PROVE  Promise!Next \/ UNCHANGED Promise!vars
    OBVIOUS
  <1> USE DEF Promise!Next, Promise!vars, ResetInv, TypeOK, MarkByPhase, Accounted,
      Swept, Coherent, NoMixing, ForgottenStaysForgotten, Erasing, Opening,
      flash, worker, ram, history
  <1>1. CASE UNCHANGED vars
    BY <1>1 DEF vars
  <1>2. CASE OpenPending \/ OpenClean \/ LoadNothing \/ LoadOrphans
    BY <1>2 DEF OpenPending, OpenClean, LoadNothing, LoadOrphans, OpensEmpty
  <1>3. CASE LoadDevice
    BY <1>3 DEF LoadDevice, Promise!Start
  <1>4. CASE LoadFails \/ PowerLoss
    BY <1>4 DEF LoadFails, PowerLoss, ChipResets, Promise!Stop
  <1>5. CASE EraseOk \/ EraseRetries
    BY <1>5 DEF EraseOk, EraseRetries, EraseAgainIf, EraseInPart, Leaves
  <1>6. CASE EraseFails
    BY <1>6 DEF EraseFails, EraseInPart, Leaves, GiveUp, GiveUpTo
  <1>7. CASE DiscardDone \/ FinishDone \/ FinishFails
    BY <1>7 DEF DiscardDone, OpensEmpty, FinishDone, FinishFails, GiveUp, GiveUpTo
  <1>8. CASE Mint
    BY <1>8 DEF Mint, Promise!Mint
  <1>9. CASE \E p \in clients : SaveDevice(p) \/ SaveFails(p)
    BY <1>9 DEF SaveDevice, SaveFails, Writing, Promise!Link
  <1>10. CASE SealWrites \/ ClearSessions
    BY <1>10 DEF SealWrites, ClearSessions, Promise!Settle
  <1>11. CASE \E p \in clients, b \in Used : PutRecord(p, b)
    BY <1>11 DEF PutRecord
  <1>12. CASE \E ns \in Used \ {LatestSync} : DeleteRecords(ns)
    BY <1>12 DEF DeleteRecords
  <1>13. CASE MarkReset
    BY <1>13 DEF MarkReset, Commit, InUse, Promise!Forget
  <1>14. CASE MarkResetFails
    BY <1>14 DEF MarkResetFails, InUse, Promise!Forget
  <1> QED
    BY <1>1, <1>2, <1>3, <1>4, <1>5, <1>6, <1>7, <1>8, <1>9, <1>10,
       <1>11, <1>12, <1>13, <1>14
       DEF Next, Open, EraseSteps, Serve, Reset

(* PromiseHolds: the store, flash step by flash step and through every     *)
(* failure, implements the indivisible LinkedDevice.                       *)
THEOREM StoreKeepsItsPromise == Spec => PromiseHolds
  <1>1. Init => Promise!Init
    BY DEF Init, Promise!Init
  <1> QED
    BY <1>1, StepSimulates, ResetInvariance, PTL DEF Spec, PromiseHolds, Promise!Spec
=============================================================================
