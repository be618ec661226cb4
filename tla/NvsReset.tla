------------------------------ MODULE NvsReset ------------------------------
(***************************************************************************)
(* NvsStore's life cycle over flash (storage.rs): open with its recovery,  *)
(* the writes of a linked client, and the factory reset, one flash         *)
(* operation at a time.  Each NVS operation is atomic in itself, may fail  *)
(* having taken effect or not, and power may be lost after any of them.    *)
(* A record is abstracted to the pairing that wrote it.                    *)
(***************************************************************************)
EXTENDS Integers

CONSTANTS
    Pairings,  \* device identities the SDK may generate, each used once
    None,      \* no device record
    Used       \* the namespaces the SDK writes to, all of them in the firmware

ASSUME PairingsAssumption == None \notin Pairings

VARIABLES
    \* flash: the device record, the pairings with records per namespace, the marker
    device, records, mark,
    \* where the thread that opens or resets the store is, and in which erase
    phase, cursor, tries,
    \* RAM: StoreInner.device, the identities this boot's clients run with (one
    \* that was superseded may still write), and accepting_writes negated
    known, clients, sealed,
    \* history: the identities ever generated, those generated since the store
    \* was last opened empty, and those whose reset was committed
    minted, cohort, forgotten

flash   == <<device, records, mark>>
worker  == <<phase, cursor, tries>>
ram     == <<known, clients, sealed>>
history == <<minted, cohort, forgotten>>
vars    == <<flash, worker, ram, history>>

(* erase_signal's namespaces in its order, after the latest-sync blob.     *)
SignalOrder == <<"identity", "session", "prekey", "signed prekey", "sender key",
                 "sync key">>
Namespaces  == {SignalOrder[i] : i \in 1..6}
LatestSync  == "latestsync"
Blobs       == Namespaces \cup {LatestSync}

ASSUME UsedAssumption == Used \subseteq Blobs

(* erase_all erases the device in step 1 and Target(i) in step i > 1.      *)
LastStep  == 8
Target(i) == IF i = 2 THEN LatestSync ELSE SignalOrder[i - 2]

Phases == {"off", "finish", "load", "discard", "ready", "erase", "retry", "done"}
MaxTries == 3

TypeOK ==
    /\ device \in Pairings \cup {None}
    /\ records \in [Blobs -> SUBSET Pairings]
    /\ mark \in BOOLEAN
    /\ phase \in Phases
    /\ cursor \in 1..(LastStep + 1)
    /\ tries \in 1..MaxTries
    /\ known \in Pairings \cup {None}
    /\ clients \in SUBSET Pairings
    /\ sealed \in BOOLEAN
    /\ minted \in SUBSET Pairings
    /\ cohort \in SUBSET Pairings
    /\ forgotten \in SUBSET Pairings

(* A partition some earlier boot left behind.                              *)
Init ==
    /\ device \in Pairings \cup {None}
    /\ \E kept \in SUBSET Used :
           records = [b \in Blobs |-> IF b \in kept THEN {device} \ {None} ELSE {}]
    /\ mark = FALSE
    /\ phase = "off" /\ cursor = 1 /\ tries = 1
    /\ known = None /\ clients = {} /\ sealed = FALSE
    /\ minted = {device} \ {None} /\ cohort = minted
    /\ forgotten = {}

ChipResets ==
    /\ phase' = "off" /\ cursor' = 1 /\ tries' = 1
    /\ known' = None /\ clients' = {} /\ sealed' = FALSE
    /\ UNCHANGED <<flash, history>>

HasSignalRecords == \E ns \in Namespaces : records[ns] # {}

-----------------------------------------------------------------------------
(* NvsStore::open.                                                         *)

(* Open with a pending reset finishes that reset first.                    *)
OpenPending ==
    /\ phase = "off"
    /\ mark
    /\ phase' = "finish" /\ cursor' = 1 /\ tries' = 1
    /\ UNCHANGED <<flash, ram, history>>

(* Faulty variant: goes on to load with a reset still pending.             *)
OpenAnyway ==
    /\ phase = "off"
    /\ phase' = "load"
    /\ UNCHANGED <<flash, cursor, tries, ram, history>>

OpenClean ==
    /\ phase = "off"
    /\ ~mark
    /\ phase' = "load"
    /\ UNCHANGED <<flash, cursor, tries, ram, history>>

(* The device is there: replay its records and serve it.                   *)
LoadDevice ==
    /\ phase = "load" /\ device # None
    /\ known' = device /\ clients' = {device}
    /\ phase' = "ready"
    /\ UNCHANGED <<flash, cursor, tries, sealed, history>>

OpensEmpty == phase' = "ready" /\ cohort' = {}

(* Faulty variant: serves a store whose orphans were not discarded.        *)
LoadKeepsOrphans ==
    /\ phase = "load" /\ device = None
    /\ OpensEmpty
    /\ UNCHANGED <<flash, cursor, tries, ram, minted, forgotten>>

LoadNothing ==
    /\ phase = "load" /\ device = None /\ ~HasSignalRecords
    /\ OpensEmpty
    /\ UNCHANGED <<flash, cursor, tries, ram, minted, forgotten>>

LoadOrphans ==
    /\ phase = "load" /\ device = None /\ HasSignalRecords
    /\ phase' = "discard" /\ cursor' = 2 /\ tries' = 1
    /\ UNCHANGED <<flash, ram, history>>

(* A record that cannot be read: main() reboots to retry.                  *)
LoadFails ==
    /\ phase = "load"
    /\ ChipResets

-----------------------------------------------------------------------------
(* erase_namespace and remove_blob, shared by the three erasing phases.    *)

Erasing == phase \in {"finish", "discard", "erase"}

(* Step i of erase_all leaves device d and, in its target, the records l.  *)
Leaves(d, l) ==
    /\ device' = d
    /\ records' = IF cursor = 1 THEN records ELSE [records EXCEPT ![Target(cursor)] = l]

EraseOk ==
    /\ Erasing /\ cursor <= LastStep
    /\ Leaves(IF cursor = 1 THEN None ELSE device, {})
    /\ cursor' = cursor + 1 /\ tries' = 1
    /\ UNCHANGED <<mark, phase, ram, history>>

(* What a failed operation may leave of what it was to erase.              *)
EraseInPart ==
    \E left \in SUBSET (IF cursor = 1 THEN {} ELSE records[Target(cursor)]) :
    \E kept \in (IF cursor = 1 THEN {None, device} ELSE {device}) : Leaves(kept, left)

EraseAgainIf(allowed) ==
    /\ Erasing /\ cursor <= LastStep
    /\ allowed
    /\ EraseInPart
    /\ tries' = tries + 1
    /\ UNCHANGED <<mark, phase, cursor, ram, history>>

(* erase_namespace verifies and tries again; remove_blob has one attempt.  *)
EraseRetries == EraseAgainIf(cursor # 2 /\ tries < MaxTries)

GiveUpTo(next) ==
    IF phase = "erase"
    THEN phase' = next /\ UNCHANGED <<cursor, tries, ram>>
    ELSE phase' = "off" /\ cursor' = 1 /\ tries' = 1
         /\ known' = None /\ clients' = {} /\ sealed' = FALSE

(* Faulty variant: a failed reset is not tried again.                      *)
GiveUpForGood == GiveUpTo("done")

(* An error while opening ends in a reboot, one in a reset in a retry.     *)
GiveUp == GiveUpTo("retry")

EraseFails ==
    /\ Erasing /\ cursor <= LastStep
    /\ cursor = 2 \/ tries = MaxTries
    /\ EraseInPart
    /\ GiveUp
    /\ UNCHANGED <<mark, history>>

(* erase_signal over orphans has no marker to remove.                      *)
DiscardDone ==
    /\ phase = "discard" /\ cursor = LastStep + 1
    /\ OpensEmpty
    /\ UNCHANGED <<flash, cursor, tries, ram, minted, forgotten>>

(* complete_reset's last step removes the marker; reset() then clears RAM.  *)
FinishDone ==
    /\ phase \in {"finish", "erase"} /\ cursor = LastStep + 1
    /\ mark' = FALSE
    /\ phase' = IF phase = "finish" THEN "load" ELSE "done"
    /\ known' = None
    /\ UNCHANGED <<device, records, cursor, tries, clients, sealed, history>>

FinishFails ==
    /\ phase \in {"finish", "erase"} /\ cursor = LastStep + 1
    /\ mark' \in BOOLEAN
    /\ GiveUp
    /\ UNCHANGED <<device, records, history>>

-----------------------------------------------------------------------------
(* The open store.                                                         *)

(* The supervisor builds a client, the first or another one in the same    *)
(* boot.  load() answers from RAM: until a save has succeeded the SDK is   *)
(* told there is no device and generates an identity, whatever an earlier  *)
(* client of this boot has written.  With a device known it runs with that *)
(* one.  create() is refused behind the seal.                              *)
Mint ==
    /\ phase = "ready" /\ known = None /\ ~sealed
    /\ \E p \in Pairings \ minted :
           /\ clients' = clients \cup {p}
           /\ minted' = minted \cup {p}
           /\ cohort' = cohort \cup {p}
    /\ UNCHANGED <<flash, worker, known, sealed, forgotten>>

Writing == phase = "ready" /\ ~sealed

(* DeviceStore::save: flash first, then the copy in RAM.                   *)
SaveDevice(p) ==
    /\ Writing
    /\ device' = p /\ known' = p
    /\ UNCHANGED <<records, mark, worker, clients, sealed, history>>

(* A save that fails having reached flash leaves RAM without the device.   *)
SaveFails(p) ==
    /\ Writing
    /\ device' = p
    /\ UNCHANGED <<records, mark, worker, ram, history>>

(* Any Signal or sync-key write; a failed one may have taken effect.       *)
PutRecord(p, b) ==
    /\ Writing
    /\ records' = [records EXCEPT ![b] = @ \cup {p}]
    /\ UNCHANGED <<device, mark, worker, ram, history>>

(* The last record of a namespace is deleted.                              *)
DeleteRecords(ns) ==
    /\ Writing /\ clients # {}
    /\ records' = [records EXCEPT ![ns] = {}]
    /\ UNCHANGED <<device, mark, worker, ram, history>>

(* clear_sessions, which only runs behind the seal.                        *)
ClearSessions ==
    /\ phase = "ready" /\ sealed
    /\ \E left \in SUBSET records["session"] :
           records' = [records EXCEPT !["session"] = left]
    /\ UNCHANGED <<device, mark, worker, ram, history>>

SealWrites ==
    /\ phase = "ready"
    /\ sealed' = TRUE
    /\ UNCHANGED <<flash, worker, known, clients, history>>

(* The identities a reset gives up.                                        *)
InUse == clients \cup ({device} \ {None})

Commit(marker) ==
    /\ phase \in {"ready", "retry"} /\ sealed
    /\ mark' = marker
    /\ forgotten' = forgotten \cup InUse
    /\ phase' = "erase" /\ cursor' = 1 /\ tries' = 1
    /\ UNCHANGED <<device, records, ram, minted, cohort>>

(* Faulty variant: erases without the marker.                              *)
MarkResetUnmarked == Commit(mark)

(* reset_all: the marker is committed, so the identity is given up.        *)
MarkReset == Commit(TRUE)

(* Writing the marker failed; it may be on flash all the same.             *)
MarkResetFails ==
    /\ phase \in {"ready", "retry"} /\ sealed
    /\ \/ mark' = TRUE /\ forgotten' = forgotten \cup InUse
       \/ UNCHANGED <<mark, forgotten>>
    /\ phase' = "retry"
    /\ UNCHANGED <<device, records, cursor, tries, ram, minted, cohort>>

(* Power loss, panic or the reboot that ends maintenance.                  *)
PowerLoss ==
    /\ phase # "off"
    /\ ChipResets

-----------------------------------------------------------------------------
Open == \/ OpenPending \/ OpenClean \/ LoadDevice \/ LoadNothing \/ LoadOrphans
        \/ LoadFails

EraseSteps == \/ EraseOk \/ EraseRetries \/ EraseFails
              \/ DiscardDone \/ FinishDone \/ FinishFails

Serve == \/ Mint \/ SealWrites \/ ClearSessions
         \/ \E p \in clients : SaveDevice(p) \/ SaveFails(p)
         \/ \E p \in clients, b \in Used : PutRecord(p, b)
         \/ \E ns \in Used \ {LatestSync} : DeleteRecords(ns)

Reset == MarkReset \/ MarkResetFails

Next == Open \/ EraseSteps \/ Serve \/ Reset \/ PowerLoss

Spec == Init /\ [][Next]_vars

(* main() goes on with open, the worker with an erase, and run_maintenance *)
(* with a failed reset.  Nothing makes a client write or ask for a reset.  *)
Fairness ==
    /\ WF_vars(Open)
    /\ WF_vars(EraseOk \/ EraseRetries \/ EraseFails)
    /\ WF_vars(DiscardDone) /\ WF_vars(FinishDone \/ FinishFails)
    /\ WF_vars(phase = "retry" /\ Reset)

FairSpec == Spec /\ Fairness

-----------------------------------------------------------------------------
(* An open store holds the device and the records of no identity but those *)
(* generated since it was last opened empty: no interrupted reset, orphan  *)
(* or failed erase lets a new pairing find keys of an old one.  They are a *)
(* single identity, unless clients were rebuilt within one boot before a   *)
(* device was saved: the store does not tell the records of such a client  *)
(* from those of its successor.  (The latest-sync blob is exempt: a stale  *)
(* one names a key that is not there, which open ignores.)                 *)
NoMixing ==
    phase = "ready" =>
        /\ clients \cup ({device} \ {None}) \subseteq cohort
        /\ \A ns \in Namespaces : records[ns] \subseteq cohort

(* Once the reset marker is committed, an open store serves none of the    *)
(* identities it gives up again, and holds none of their records, whatever *)
(* fails and whenever power does.                                          *)
ForgottenStaysForgotten ==
    phase = "ready" =>
        /\ clients \cap forgotten = {}
        /\ \A ns \in Namespaces : records[ns] \cap forgotten = {}

(* A reset reported as done has left nothing.                              *)
DoneIsClean ==
    phase = "done" => /\ device = None /\ ~mark
                      /\ \A b \in Blobs : records[b] = {}

(* The inductive strengthening of the invariants above.                    *)

Opening == phase \in {"off", "finish", "load", "discard"}

(* Which phases run with and without the marker, and without a client; no  *)
(* reset begins before the seal.                                           *)
MarkByPhase ==
    /\ phase \in {"load", "discard", "ready", "done"} => ~mark
    /\ phase \in {"finish", "erase"} => mark
    /\ Opening => known = None /\ clients = {} /\ ~sealed
    /\ phase \in {"erase", "retry", "done"} => sealed

(* Every identity in flash or RAM is one that was generated; what carries  *)
(* the marker is given up, and nothing else on flash is.                   *)
Accounted ==
    /\ {device, known} \subseteq minted \cup {None}
    /\ clients \cup cohort \cup forgotten \subseteq minted
    /\ \A b \in Blobs : records[b] \subseteq minted
    /\ mark => device \in forgotten \cup {None}
    /\ ~mark => device \notin forgotten

(* An erase has left nothing behind its cursor.                            *)
Swept ==
    /\ phase = "discard" => cursor > 1
    /\ Erasing /\ cursor > 1 => device = None
    /\ Erasing => \A i \in 2..LastStep : i < cursor => records[Target(i)] = {}

(* An unmarked device record sits among the records of its cohort, of whom *)
(* none is given up; what RAM knows, a client runs with; and a device that *)
(* RAM does not know was left by a failed save of this boot.               *)
Coherent ==
    /\ ~mark /\ device # None => /\ device \in cohort /\ cohort \cap forgotten = {}
                                 /\ \A ns \in Namespaces : records[ns] \subseteq cohort
    /\ phase = "ready" => /\ cohort \cap forgotten = {} /\ known \in clients \cup {None}
                          /\ known = None => device \in clients \cup {None}

ResetInv ==
    /\ TypeOK /\ MarkByPhase /\ Accounted /\ Swept /\ Coherent
    /\ NoMixing /\ ForgottenStaysForgotten /\ DoneIsClean

(* A committed reset completes, however often it was interrupted, once the *)
(* flash has stopped failing and power stays on.                           *)
Fault == EraseRetries \/ EraseFails \/ FinishFails \/ MarkResetFails \/ LoadFails \/ PowerLoss
ResetCompletes ==
    <>[][~Fault]_vars => (mark ~> ~mark /\ device = None)

(* The life cycle implements the indivisible promise: the moment the       *)
(* marker is committed is the moment the linked device is forgotten.       *)
Promise == INSTANCE LinkedDevice WITH
    linked <- IF mark THEN None ELSE device, serving <- clients,
    settled <- sealed \/ known # None

PromiseHolds == Promise!Spec
=============================================================================
