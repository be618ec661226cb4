----------------------------- MODULE NvsRecords -----------------------------
(***************************************************************************)
(* One record namespace of NvsStore: the durable slots, the RAM mirror     *)
(* over them, and for sessions the cache of validated slots.               *)
(*                                                                         *)
(* Calls run on the one executor thread and never await, so each is one    *)
(* step.  A batch is its puts in order up to the first that fails, each    *)
(* committed on its own.  Each flash operation may report an error having  *)
(* taken effect or not, and power may be lost between any two.  A call     *)
(* that is refused (a collision, a full namespace, an unreadable slot)     *)
(* changes nothing.                                                        *)
(***************************************************************************)
EXTENDS LruOrder, FiniteSets

CONSTANTS
    Keys,        \* logical keys (addresses, prekey ids)
    Values,      \* record payloads
    Slots,       \* physical NVS names
    SlotOf,      \* record_name: a truncated hash, so two keys may collide
    MaxEntries,  \* durable budget of each kind of namespace
    MirrorCap,   \* RAM entries kept: 0 or 8 without PSRAM, no limit with it
    CacheCap,    \* SessionSlots keeps 8
    NoValue      \* absent

(* Prekeys stand for every store without a cap: signed prekeys and sender  *)
(* keys too.                                                               *)
Kinds == {"session", "identity", "prekey"}

ASSUME RecordsAssumption ==
    /\ IsFiniteSet(Keys) /\ IsFiniteSet(Slots) /\ SlotOf \in [Keys -> Slots]
    /\ MaxEntries \in [Kinds -> Nat] /\ MirrorCap \in [Kinds -> Nat]
    /\ CacheCap \in Nat \ {0}
    /\ NoValue \notin Values /\ NoValue \notin Keys

VARIABLES
    kind,    \* which namespace this is; never changes
    flash,   \* slot -> the logical key and value encoded there, or none
    mirror,  \* key -> mirrored value, or NoValue
    order,   \* LruOrder of the mirror
    cache,   \* SessionSlots, oldest first
    up,      \* the store is open
    \* history: last acknowledged value per key; keys whose last write failed
    acked, doubt

ram     == <<mirror, order, cache, up>>
history == <<acked, doubt>>
vars    == <<kind, flash, ram, history>>

Empty   == [key |-> NoValue, val |-> NoValue]
Records == [key : Keys, val : Values]

Occupied(f)   == {s \in Slots : f[s] # Empty}
Stored(f, k)  == IF f[SlotOf[k]].key = k THEN f[SlotOf[k]].val ELSE NoValue
Mirrored(m)   == {k \in Keys : m[k] # NoValue}
Persisted(f)  == {f[s].key : s \in Occupied(f)}

TypeOK ==
    /\ kind \in Kinds
    /\ flash \in [Slots -> Records \cup {Empty}]
    /\ \A s \in Occupied(flash) : SlotOf[flash[s].key] = s
    /\ mirror \in [Keys -> Values \cup {NoValue}]
    /\ order \in BoundedSeq(Keys, Cardinality(Keys))
    /\ cache \in BoundedSeq([slot : Slots, key : Keys], CacheCap)
    /\ up \in BOOLEAN
    /\ acked \in [Keys -> Values \cup {NoValue}]
    /\ doubt \subseteq Keys

Init ==
    /\ kind \in Kinds
    /\ flash = [s \in Slots |-> Empty]
    /\ mirror = [k \in Keys |-> NoValue] /\ order = <<>> /\ cache = <<>>
    /\ up = TRUE
    /\ acked = [k \in Keys |-> NoValue] /\ doubt = {}

-----------------------------------------------------------------------------
(* RAM structures.                                                         *)

(* SessionSlots::remember: the newest slot last, at most CacheCap.         *)
Remember(slots, k) ==
    LET others == RemoveFirstMatch(slots, LAMBDA e : e.slot = SlotOf[k])
        kept   == IF Len(others) = CacheCap THEN Tail(others) ELSE others
    IN  Append(kept, [slot |-> SlotOf[k], key |-> k])

(* remember_session_slot: only the session namespace has a cache.          *)
RememberSession(k) == IF kind = "session" THEN Remember(cache, k) ELSE cache

CachedKeys(k) == {e.key : e \in {e \in ToSet(cache) : e.slot = SlotOf[k]}}

(* enforce_*_cap: drop the least recently used entries over the cap; each, *)
(* when its turn comes, is at the front of the order.                      *)
EnforceCap(m, o) ==
    LET dropped == Overflow(o, Cardinality(Mirrored(m)), MirrorCap[kind])
    IN  /\ mirror' = [k \in Keys |-> IF k \in ToSet(dropped) THEN NoValue ELSE m[k]]
        /\ order' = SubSeq(o, Len(dropped) + 1, Len(o))

(* Mirror a value just written or loaded; uncapped stores keep no order.   *)
Mirror(k, v) ==
    IF kind = "prekey"
    THEN mirror' = [mirror EXCEPT ![k] = v] /\ UNCHANGED order
    ELSE EnforceCap([mirror EXCEPT ![k] = v], Touched(order, k))

-----------------------------------------------------------------------------
(* put_session, put_identity, store_prekey, put_sender_key, and batches.   *)

(* Faulty variant: counts the RAM mirror, which evicts, not the namespace. *)
CheckRecordSlotByMirror(k) ==
    IF CachedKeys(k) # {} THEN CachedKeys(k) = {k}
    ELSE IF flash[SlotOf[k]] # Empty THEN flash[SlotOf[k]].key = k
    ELSE Cardinality(Mirrored(mirror)) < MaxEntries[kind]

(* Faulty variant: any cached validation of the slot will do.              *)
CheckRecordSlotByName(k) ==
    IF CachedKeys(k) # {} THEN TRUE
    ELSE IF flash[SlotOf[k]] # Empty THEN flash[SlotOf[k]].key = k
    ELSE Cardinality(Occupied(flash)) < MaxEntries[kind]

(* check_record_slot: the slot is this key's, or free within the budget.   *)
(* A cached slot answers without reading flash.                            *)
CheckRecordSlot(k) ==
    IF CachedKeys(k) # {} THEN CachedKeys(k) = {k}
    ELSE IF flash[SlotOf[k]] # Empty THEN flash[SlotOf[k]].key = k
    ELSE Cardinality(Occupied(flash)) < MaxEntries[kind]

(* ensure_insert_capacity on the mirror, then check_record_slot.           *)
MayPut(k) ==
    /\ mirror[k] # NoValue \/ Cardinality(Mirrored(mirror)) < MaxEntries[kind]
    /\ CheckRecordSlot(k)

(* The check read this key's record from flash, so its slot is remembered. *)
CacheAfterCheck(k) ==
    IF CachedKeys(k) = {} /\ Stored(flash, k) # NoValue THEN RememberSession(k) ELSE cache

PutOk(k, v) ==
    /\ up /\ MayPut(k)
    /\ flash' = [flash EXCEPT ![SlotOf[k]] = [key |-> k, val |-> v]]
    /\ cache' = CacheAfterCheck(k)
    /\ Mirror(k, v)
    /\ acked' = [acked EXCEPT ![k] = v]
    /\ doubt' = doubt \ {k}
    /\ UNCHANGED up

(* set_blob failed: the old or the new record is there, RAM is untouched.  *)
PutFails(k, v) ==
    /\ up /\ MayPut(k)
    /\ flash' \in {flash, [flash EXCEPT ![SlotOf[k]] = [key |-> k, val |-> v]]}
    /\ cache' = CacheAfterCheck(k)
    /\ doubt' = doubt \cup {k}
    /\ UNCHANGED <<mirror, order, up, acked>>

-----------------------------------------------------------------------------
(* load_identity and get_session: RAM, then flash.  (load_prekey and its   *)
(* like read RAM alone and change nothing.)                                *)

Load(k) ==
    /\ up /\ kind # "prekey"
    /\ \/ /\ mirror[k] # NoValue
          /\ order' = Touched(order, k)
          /\ UNCHANGED <<mirror, cache>>
       \/ /\ mirror[k] = NoValue /\ Stored(flash, k) # NoValue
          /\ cache' = RememberSession(k)
          /\ Mirror(k, Stored(flash, k))
    /\ UNCHANGED <<flash, up, history>>

-----------------------------------------------------------------------------
(* delete_record and its callers.                                          *)

(* Faulty variant: the mirrored value outlives the record.                 *)
ForgetOrderOnly(k) ==
    /\ order' = RemoveFirst(order, k)
    /\ UNCHANGED mirror

Forget(k) ==
    /\ mirror' = [mirror EXCEPT ![k] = NoValue]
    /\ order' = RemoveFirst(order, k)

DeleteWhen(k, allowed, slots) ==
    /\ up
    /\ allowed
    /\ flash' = [flash EXCEPT ![SlotOf[k]] = Empty]
    /\ cache' = slots
    /\ Forget(k)
    /\ acked' = [acked EXCEPT ![k] = NoValue]
    /\ doubt' = doubt \ {k}
    /\ UNCHANGED up

(* Faulty variant: the logical key in the record is not compared.          *)
DeleteOkAnyKey(k) == DeleteWhen(k, TRUE, <<>>)

(* The cache goes first; deleting an absent record is no error.            *)
DeleteOk(k) == DeleteWhen(k, flash[SlotOf[k]].key \in {k, NoValue}, <<>>)

(* An error, a collision included; if it is this key's, it may be gone.    *)
DeleteFails(k) ==
    /\ up
    /\ cache' = <<>>
    /\ \/ UNCHANGED <<flash, doubt>>
       \/ /\ flash[SlotOf[k]].key = k
          /\ flash' = [flash EXCEPT ![SlotOf[k]] = Empty]
          /\ doubt' = doubt \cup {k}
    /\ UNCHANGED <<mirror, order, up, acked>>

(* clear_sessions; a failed one leaves any part of the namespace.          *)
ClearOk ==
    /\ up /\ kind = "session"
    /\ flash' = [s \in Slots |-> Empty]
    /\ mirror' = [k \in Keys |-> NoValue] /\ order' = <<>> /\ cache' = <<>>
    /\ acked' = [k \in Keys |-> NoValue] /\ doubt' = {}
    /\ UNCHANGED up

ClearFails ==
    /\ up /\ kind = "session"
    /\ \E left \in SUBSET Occupied(flash) :
           /\ flash' = [s \in Slots |-> IF s \in left THEN flash[s] ELSE Empty]
           /\ doubt' = doubt \cup (Persisted(flash) \ Persisted(flash'))
    /\ cache' = <<>>
    /\ UNCHANGED <<mirror, order, up, acked>>

-----------------------------------------------------------------------------
PowerLoss ==
    /\ up
    /\ up' = FALSE
    /\ mirror' = [k \in Keys |-> NoValue] /\ order' = <<>> /\ cache' = <<>>
    /\ UNCHANGED <<flash, history>>

(* Replay the records of walk, of which the mirror keeps the last n.       *)
Replay(walk, n) ==
    LET kept == SubSeq(walk, Len(walk) + 1 - n, Len(walk)) IN
    /\ order' = IF kind = "prekey" THEN <<>> ELSE kept
    /\ mirror' = [k \in Keys |-> IF k \in ToSet(kept) THEN Stored(flash, k) ELSE NoValue]

Replayed(walk) == IF kind = "prekey" THEN Len(walk) ELSE Min({MirrorCap[kind], Len(walk)})

(* Open walks the namespace in NVS order, mirroring each record under the  *)
(* cap; it refuses a namespace over its budget.  What it finds settles the *)
(* outcome of the writes that had failed.                                  *)
Open ==
    /\ ~up
    /\ Cardinality(Occupied(flash)) <= MaxEntries[kind]
    /\ \E walk \in SetToSeqs(Persisted(flash)) : Replay(walk, Replayed(walk))
    /\ up' = TRUE
    /\ acked' = [k \in Keys |-> IF k \in doubt THEN Stored(flash, k) ELSE acked[k]]
    /\ doubt' = {}
    /\ UNCHANGED <<flash, cache>>

Write  == \E k \in Keys, v \in Values : PutOk(k, v) \/ PutFails(k, v)
Delete == \E k \in Keys : DeleteOk(k) \/ DeleteFails(k)
Clear  == ClearOk \/ ClearFails

Next ==
    /\ \/ Write \/ Delete \/ Clear \/ PowerLoss \/ Open
       \/ \E k \in Keys : Load(k)
    /\ UNCHANGED kind

Spec == Init /\ [][Next]_vars

-----------------------------------------------------------------------------
(* A slot's record is replaced by another record of the same logical key   *)
(* only: neither a colliding name nor a cached validation from before a    *)
(* deletion lets a write land on someone else's record.                    *)
NeverClobbers ==
    [][\A s \in Slots :
         flash[s] # Empty /\ flash'[s] # Empty => flash'[s].key = flash[s].key]_vars

(* The namespace stays within the budget that open enforces, evicting      *)
(* mirrors and failed writes notwithstanding: a store can always reopen.   *)
(* Every variable is typed.                                                *)
CanReopen == TypeOK /\ Cardinality(Occupied(flash)) <= MaxEntries[kind]

(* Flash holds the last acknowledged value of every key whose last write   *)
(* did not fail, through power losses, collisions and other keys' errors.  *)
AckedIsDurable == \A k \in Keys \ doubt : Stored(flash, k) = acked[k]

(* Unless the key's last write failed, the mirror answers with what flash  *)
(* holds, and misses nothing if it is the only one asked: load_prekey and  *)
(* its like never look at flash.  The use order lists exactly the mirrored *)
(* keys, once each and within the cap, so eviction can name its victims.   *)
MirrorIsFresh ==
    /\ up => \A k \in Keys \ doubt :
                 mirror[k] = Stored(flash, k) \/ (kind # "prekey" /\ mirror[k] = NoValue)
    /\ kind # "prekey" => /\ ToSet(order) = Mirrored(mirror)
                          /\ Len(order) = Cardinality(Mirrored(mirror))
                          /\ Len(order) <= MirrorCap[kind]
=============================================================================
