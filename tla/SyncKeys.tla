------------------------------ MODULE SyncKeys ------------------------------
(***************************************************************************)
(* The app-state sync keys of NvsStore: one durable record per key, the    *)
(* control blob that names the latest one, and the capped RAM mirror that  *)
(* must never lose it.  set_sync_key commits the blob before the record,   *)
(* so power may be lost between the two; and again at any record of the    *)
(* walk that rebuilds the mirror at boot.  It shares no name with          *)
(* NvsRecords, the rest of the store.                                      *)
(***************************************************************************)
EXTENDS LruOrder, FiniteSets

CONSTANTS
    Ids,            \* key ids
    NoId,           \* None
    TimeOf,         \* the phone's timestamp of each key
    SyncMirrorCap,  \* 8 without PSRAM
    MaxSyncKeys     \* MAX_SYNC_KEYS, the durable budget

ASSUME SyncKeysAssumption ==
    /\ NoId \notin Ids
    /\ TimeOf \in [Ids -> Nat]
    /\ SyncMirrorCap \in Nat /\ MaxSyncKeys \in Nat

VARIABLES
    syncFlash, marker,              \* ids with a record; the id in "latestsync"
    syncMirror, syncOrder, latest,  \* sync_keys, sync_key_order, latest_sync_key_id
    writing,                        \* its marker is committed and its record is not
    syncUp,                         \* NvsStore::open has returned
    seen, best,                     \* open: the records walked; timestamp_latest
    \* history: the last acknowledged id; a set has failed or was torn since
    lastSet, syncDoubt

syncDurable == <<syncFlash, marker>>
syncRam     == <<syncMirror, syncOrder, latest>>
boot        == <<seen, best>>
syncVars    == <<syncDurable, syncRam, writing, syncUp, boot, lastSet, syncDoubt>>

SyncTypeOK ==
    /\ syncFlash \subseteq Ids /\ marker \in Ids \cup {NoId}
    /\ syncMirror \subseteq Ids /\ syncOrder \in Seq(Ids)
    /\ latest \in Ids \cup {NoId} /\ writing \in Ids \cup {NoId}
    /\ seen \subseteq syncFlash /\ best \in seen \cup {NoId}
    /\ syncUp \in BOOLEAN /\ syncDoubt \in BOOLEAN
    /\ lastSet \in Ids \cup {NoId}

SyncInit ==
    /\ syncFlash = {} /\ marker = NoId
    /\ syncMirror = {} /\ syncOrder = <<>> /\ latest = NoId
    /\ writing = NoId /\ syncUp = TRUE
    /\ seen = {} /\ best = NoId
    /\ lastSet = NoId /\ syncDoubt = FALSE

-----------------------------------------------------------------------------
(* Faulty variant: the oldest go, protected or not.                        *)
VictimsUnprotected(m, o, protected) == ToSet(Overflow(o, Cardinality(m), SyncMirrorCap))

(* enforce_sync_keys_cap_except: oldest first, but never the protected.    *)
Victims(m, o, protected) ==
    ToSet(Overflow(o, Cardinality(m), SyncMirrorCap)) \ {protected}

(* The mirror and order after an id was inserted and touched.              *)
Insert(m, o, id, protected) ==
    LET all     == m \cup {id}
        recent  == Touched(o, id)
        oldest  == Overflow(recent, Cardinality(all), SyncMirrorCap)
        victims == Victims(all, recent, protected)
        spared  == IF protected \in ToSet(oldest) \ victims THEN <<protected>> ELSE <<>>
    IN  [mirror |-> all \ victims,
         order  |-> spared \o SubSeq(recent, Len(oldest) + 1, Len(recent))]

(* get_sync_key: a hit is a use; a miss is loaded and mirrored.            *)
Hit(id) ==
    /\ syncUp /\ writing = NoId
    /\ id \in syncMirror
    /\ syncOrder' = Touched(syncOrder, id)
    /\ UNCHANGED <<syncDurable, syncMirror, latest, writing, syncUp, boot, lastSet, syncDoubt>>

Miss(id) ==
    /\ syncUp /\ writing = NoId
    /\ id \in syncFlash \ syncMirror
    /\ LET r == Insert(syncMirror, syncOrder, id, latest)
       IN  syncMirror' = r.mirror /\ syncOrder' = r.order
    /\ UNCHANGED <<syncDurable, latest, writing, syncUp, boot, lastSet, syncDoubt>>

(* Room in the mirror and, for a new record, in the namespace.             *)
MayInsert(id) ==
    /\ id \in syncMirror \/ Cardinality(syncMirror) < MaxSyncKeys
    /\ id \in syncFlash \/ Cardinality(syncFlash) < MaxSyncKeys

(* set_sync_key: the slot is checked, then the marker is committed.        *)
SetMarker(id) ==
    /\ syncUp /\ writing = NoId
    /\ MayInsert(id)
    /\ marker' = id
    /\ writing' = id
    /\ syncDoubt' = TRUE
    /\ UNCHANGED <<syncFlash, syncRam, syncUp, boot, lastSet>>

(* The marker could not be written, or so it was reported.                 *)
SetMarkerFails(id) ==
    /\ syncUp /\ writing = NoId
    /\ MayInsert(id)
    /\ marker' \in {marker, id}
    /\ syncDoubt' = TRUE
    /\ UNCHANGED <<syncFlash, syncRam, writing, syncUp, boot, lastSet>>

SetRecord ==
    /\ writing # NoId
    /\ syncFlash' = syncFlash \cup {writing}
    /\ latest' = writing
    /\ LET r == Insert(syncMirror, syncOrder, writing, writing)
       IN  syncMirror' = r.mirror /\ syncOrder' = r.order
    /\ lastSet' = writing /\ syncDoubt' = FALSE
    /\ writing' = NoId
    /\ UNCHANGED <<marker, syncUp, boot>>

(* RAM goes on naming the previous key.                                    *)
SetRecordFails ==
    /\ writing # NoId
    /\ syncFlash' \in {syncFlash, syncFlash \cup {writing}}
    /\ writing' = NoId
    /\ UNCHANGED <<marker, syncRam, syncUp, boot, lastSet, syncDoubt>>

SyncPowerLoss ==
    /\ syncUp \/ seen # {}
    /\ syncUp' = FALSE
    /\ syncMirror' = {} /\ syncOrder' = <<>> /\ latest' = NoId /\ writing' = NoId
    /\ seen' = {} /\ best' = NoId
    /\ UNCHANGED <<syncDurable, lastSet, syncDoubt>>

-----------------------------------------------------------------------------
(* NvsStore::open.                                                         *)

(* It walks a namespace only if that has no more records than the budget.  *)
Opening == ~syncUp /\ Cardinality(syncFlash) <= MaxSyncKeys

(* timestamp_latest once id was read: the newest key by timestamp.         *)
Newest(id) ==
    IF best \notin syncMirror \/ TimeOf[id] >= TimeOf[best] THEN id ELSE best

(* visit_records: one record of the boot replay, in the order NVS lists    *)
(* them, which may be any.                                                 *)
ReplayNext(id) ==
    /\ Opening
    /\ id \in syncFlash \ seen
    /\ LET r == Insert(syncMirror, syncOrder, id, Newest(id))
       IN  syncMirror' = r.mirror /\ syncOrder' = r.order
    /\ best' = Newest(id)
    /\ seen' = seen \cup {id}
    /\ UNCHANGED <<syncDurable, latest, writing, syncUp, lastSet, syncDoubt>>

(* Faulty variant: the timestamp wins over the recorded id.                *)
ChooseByTime(recorded) == IF best # NoId THEN best ELSE recorded

(* The recorded id if it names a key that is there, else the best guess.   *)
ChooseLatest(recorded) == IF recorded \in syncFlash THEN recorded ELSE best

(* Faulty variant: drops the keys and leaves their order.                  *)
SettleKeepsOrder(id) ==
    LET missing == id \in syncFlash \ syncMirror
        loaded  == IF missing THEN syncMirror \cup {id} ELSE syncMirror
    IN  /\ syncMirror' = IF Cardinality(loaded) > SyncMirrorCap THEN {id} \ {NoId} ELSE loaded
        /\ syncOrder' = IF missing THEN Touched(syncOrder, id) ELSE syncOrder

(* What stays mirrored: everything, or latest alone if that is too much.   *)
Settle(id) ==
    LET missing == id \in syncFlash \ syncMirror
        loaded  == IF missing THEN syncMirror \cup {id} ELSE syncMirror
        recent  == IF missing THEN Touched(syncOrder, id) ELSE syncOrder
    IN  IF Cardinality(loaded) > SyncMirrorCap
        THEN syncMirror' = {id} \ {NoId} /\ syncOrder' = IF id = NoId THEN <<>> ELSE <<id>>
        ELSE syncMirror' = loaded /\ syncOrder' = recent

(* recorded is the marker.  Reading it, or the record it names, may fail,  *)
(* which open shrugs off as if nothing were recorded.                      *)
OpenWith(recorded) ==
    /\ Opening
    /\ seen = syncFlash
    /\ latest' = ChooseLatest(recorded)
    /\ Settle(ChooseLatest(recorded))
    /\ syncUp' = TRUE
    /\ seen' = {} /\ best' = NoId
    /\ UNCHANGED <<syncDurable, writing, lastSet>>

OpenReadable   == OpenWith(marker) /\ UNCHANGED syncDoubt
OpenUnreadable == OpenWith(NoId) /\ marker # NoId /\ syncDoubt' = TRUE

SyncNext ==
    \/ \E id \in Ids :
           Hit(id) \/ Miss(id) \/ SetMarker(id) \/ SetMarkerFails(id) \/ ReplayNext(id)
    \/ SetRecord \/ SetRecordFails \/ SyncPowerLoss \/ OpenReadable \/ OpenUnreadable

SyncSpec == SyncInit /\ [][SyncNext]_syncVars

-----------------------------------------------------------------------------
(* The latest key is mirrored and durable, so the next sync never has to   *)
(* ask the phone for it, however much eviction and however many torn       *)
(* writes came before; and it is the last one whose set was acknowledged,  *)
(* across reboots, unless a later set failed or was torn.                  *)
LatestIsHeld ==
    /\ latest # NoId => latest \in syncMirror \cap syncFlash
    /\ syncUp /\ ~syncDoubt => latest = lastSet

(* When the marker is unreadable or names a key that is not there, open    *)
(* falls back to a key with the newest timestamp of all on flash, not just *)
(* of those still mirrored.                                                *)
FallbackIsNewest ==
    [][syncUp' /\ ~syncUp /\ latest' # marker =>
         \A id \in syncFlash : TimeOf[id] <= TimeOf[latest']]_syncVars

(* The use order lists exactly the mirrored keys, each once, while the     *)
(* replay, eviction, the spared latest key and a boot that keeps that one  *)
(* alone all change both; an order that names other keys evicts nothing    *)
(* when the mirror overflows.  Every variable is typed.                    *)
OrderFollowsMirror ==
    /\ SyncTypeOK
    /\ ToSet(syncOrder) = syncMirror /\ Len(syncOrder) = Cardinality(syncMirror)

(* "Without PSRAM the mirror holds at most 8 entries", as LruOrder says.   *)
MirrorWithinCap == Cardinality(syncMirror) <= SyncMirrorCap

(* What is left of that: sparing the latest key costs one entry at most.   *)
MirrorNearCap == Cardinality(syncMirror) <= SyncMirrorCap + 1
=============================================================================
