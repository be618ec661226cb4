--------------------------- MODULE NvsStoreProofs ---------------------------
(***************************************************************************)
(* Proofs about the two parts of NvsStore, NvsRecords and SyncKeys.        *)
(*                                                                         *)
(* NvsRecords, for every set of keys and slots, every hash from one to the *)
(* other, every budget and every cap.                                      *)
(*                                                                         *)
(* The invariant has three parts: what flash holds, that the cache of      *)
(* validated slots is true of flash, and that the mirror is and its use    *)
(* order lists it.  A write is safe by the first two together: the check   *)
(* that lets it through may have read only the cache.                      *)
(*                                                                         *)
(* The last part is about SyncKeys, for every set of ids, every timestamp  *)
(* and every cap: its invariant ties the marker to flash and follows the   *)
(* boot replay record by record.                                           *)
(***************************************************************************)
EXTENDS NvsRecords, SyncKeys, FiniteSetTheorems, SequenceTheorems, TLAPS

(* No element of s occurs twice.                                           *)
Distinct(s) == \A i, j \in 1..Len(s) : s[i] = s[j] => i = j

FlashTypes(f) ==
    /\ f \in [Slots -> Records \cup {Empty}]
    /\ \A s \in Occupied(f) : SlotOf[f[s].key] = s

FlashInv ==
    /\ kind \in Kinds
    /\ FlashTypes(flash)
    /\ Cardinality(Occupied(flash)) <= MaxEntries[kind]
    /\ acked \in [Keys -> Values \cup {NoValue}]
    /\ doubt \subseteq Keys
    /\ AckedIsDurable

Validated == [slot : Slots, key : Keys]

(* The entry e of a cache of validated slots is true of f.                 *)
TrueOf(f, e) == f[e.slot].key = e.key /\ SlotOf[e.key] = e.slot

(* SessionSlots within its size, each slot once, each entry true of f.     *)
CacheOf(c, f) ==
    /\ c \in Seq(Validated) /\ Len(c) <= CacheCap
    /\ \A i, j \in 1..Len(c) : c[i].slot = c[j].slot => i = j
    /\ \A i \in 1..Len(c) : TrueOf(f, c[i])

CacheInv == CacheOf(cache, flash)

(* A mirror m for kind n and, if it is capped, the order o that lists it.  *)
MirrorOf(m, o, n) ==
    /\ m \in [Keys -> Values \cup {NoValue}]
    /\ o \in Seq(Keys) /\ Distinct(o)
    /\ n # "prekey" => ToSet(o) = Mirrored(m) /\ Len(o) <= MirrorCap[n]

MirrorShape == MirrorOf(mirror, order, kind)

(* Value x is one the mirror may have for a key with stored value v.       *)
MayMirror(x, v) == x = v \/ (kind # "prekey" /\ x = NoValue)

MirrorFresh == up => \A k \in Keys \ doubt : MayMirror(mirror[k], Stored(flash, k))

RecordsInv == FlashInv /\ CacheInv /\ MirrorShape /\ MirrorFresh /\ up \in BOOLEAN

-----------------------------------------------------------------------------
(* Sequences.                                                              *)

(* What the sequence without its first n elements is.                      *)
LEMMA SuffixIs ==
    ASSUME NEW S, NEW s \in Seq(S), NEW n \in 0..Len(s)
    PROVE  LET t == SubSeq(s, n + 1, Len(s))
           IN  /\ t \in Seq(S) /\ Len(t) = Len(s) - n
               /\ \A j \in 1..Len(s) - n : t[j] = s[n + j]
<1> DEFINE t == SubSeq(s, n + 1, Len(s))
<1>1. Len(s) \in Nat /\ n \in Nat /\ n <= Len(s)
    BY LenProperties
<1>2. \A i \in n + 1..Len(s) : s[i] \in S
    BY <1>1, ElementOfSeq
<1>3. /\ t \in Seq(S)
      /\ Len(t) = IF n + 1 <= Len(s) THEN Len(s) - (n + 1) + 1 ELSE 0
      /\ \A j \in 1..Len(s) - (n + 1) + 1 : t[j] = s[n + 1 + j - 1]
    BY <1>1, <1>2, SubSeqProperties
<1> HIDE DEF t
<1>4. ASSUME NEW j \in 1..Len(s) - n
      PROVE  t[j] = s[n + j]
    <2>1. j \in 1..Len(s) - (n + 1) + 1 /\ n + 1 + j - 1 = n + j
        BY <1>1
    <2>2. QED
        BY <1>3, <2>1
<1>5. QED
    BY <1>1, <1>3, <1>4

(* What removing a position leaves.                                        *)
LEMMA RemoveAtIs ==
    ASSUME NEW S, NEW s \in Seq(S), NEW i \in 1..Len(s)
    PROVE  /\ RemoveAt(s, i) \in Seq(S)
           /\ Len(RemoveAt(s, i)) = Len(s) - 1
           /\ \A j \in 1..Len(s) - 1 :
                  RemoveAt(s, i)[j] = IF j < i THEN s[j] ELSE s[j + 1]
<1> DEFINE a == SubSeq(s, 1, i - 1)
           b == SubSeq(s, i + 1, Len(s))
<1>1. Len(s) \in Nat
    BY LenProperties
<1>2. /\ a \in Seq(S) /\ Len(a) = i - 1
      /\ \A j \in 1..i - 1 : a[j] = s[j]
    BY <1>1, SubSeqProperties
<1>3. /\ b \in Seq(S) /\ Len(b) = Len(s) - i
      /\ \A j \in 1..Len(s) - i : b[j] = s[i + j]
    BY <1>1, SubSeqProperties
<1>4. RemoveAt(s, i) = a \o b
    BY DEF RemoveAt
<1> HIDE DEF a, b
<1>5. /\ a \o b \in Seq(S) /\ Len(a \o b) = Len(a) + Len(b)
      /\ \A j \in 1..Len(a) + Len(b) :
             (a \o b)[j] = IF j <= Len(a) THEN a[j] ELSE b[j - Len(a)]
    BY <1>2, <1>3, ConcatProperties
<1>6. ASSUME NEW j \in 1..Len(s) - 1
      PROVE  (a \o b)[j] = IF j < i THEN s[j] ELSE s[j + 1]
    <2>1. CASE j < i
        BY <1>1, <1>2, <1>3, <1>5, <2>1
    <2>2. CASE j >= i
        <3>1. (a \o b)[j] = b[j - (i - 1)] /\ j - (i - 1) \in 1..Len(s) - i
            BY <1>1, <1>2, <1>3, <1>5, <2>2
        <3>2. i + (j - (i - 1)) = j + 1
            OBVIOUS
        <3>3. QED
            BY <1>3, <2>2, <3>1, <3>2
    <2>3. j < i \/ j >= i
        BY <1>1
    <2>4. QED
        BY <2>1, <2>2, <2>3
<1>7. QED
    BY <1>1, <1>2, <1>3, <1>4, <1>5, <1>6

(* The least of a set with one element.                                    *)
LEMMA MinOfOne ==
    ASSUME NEW n \in Int
    PROVE  Min({n}) = n
    BY DEF Min

(* LruOrder::removed, on an order without repetitions.                     *)
LEMMA RemoveFirstIs ==
    ASSUME NEW S, NEW s \in Seq(S), NEW e, Distinct(s)
    PROVE  LET t == RemoveFirst(s, e)
           IN  /\ t \in Seq(S) /\ Distinct(t)
               /\ ToSet(t) = ToSet(s) \ {e}
               /\ Len(t) = IF e \in ToSet(s) THEN Len(s) - 1 ELSE Len(s)
<1>1. DOMAIN s = 1..Len(s) /\ Len(s) \in Nat
    BY LenProperties
<1>2. CASE e \notin ToSet(s)
    <2>1. RemoveFirst(s, e) = s
        BY <1>1, <1>2 DEF RemoveFirst, ToSet
    <2>2. QED
        BY <1>2, <2>1
<1>3. CASE e \in ToSet(s)
    <2>1. PICK i \in 1..Len(s) : s[i] = e
        BY <1>1, <1>3 DEF ToSet
    <2>2. {j \in 1..Len(s) : s[j] = e} = {i}
        BY <2>1 DEF Distinct
    <2>3. RemoveFirst(s, e) = RemoveAt(s, i)
        BY <2>1, <2>2, MinOfOne DEF RemoveFirst, SelectInSeq
    <2> DEFINE t == RemoveAt(s, i)
    <2>4. /\ t \in Seq(S) /\ Len(t) = Len(s) - 1
          /\ \A j \in 1..Len(s) - 1 : t[j] = IF j < i THEN s[j] ELSE s[j + 1]
        BY RemoveAtIs
    <2> HIDE DEF t
    <2>5. DOMAIN t = 1..Len(s) - 1
        BY <2>4, LenProperties
    <2>6. Distinct(t)
        BY <1>1, <2>4 DEF Distinct
    <2>7. ToSet(t) = ToSet(s) \ {e}
        <3>1. ASSUME NEW j \in 1..Len(s) - 1
              PROVE  t[j] \in ToSet(s) \ {e}
            BY <1>1, <2>1, <2>4 DEF ToSet, Distinct
        <3>2. ASSUME NEW j \in 1..Len(s), s[j] # e
              PROVE  s[j] \in ToSet(t)
            <4>1. CASE j < i
                BY <1>1, <2>1, <2>4, <2>5, <4>1 DEF ToSet
            <4>2. CASE j > i
                <5>1. j - 1 \in 1..Len(s) - 1 /\ t[j - 1] = s[j]
                    BY <1>1, <2>1, <2>4, <4>2
                <5>2. QED
                    BY <2>5, <5>1 DEF ToSet
            <4>3. QED
                BY <1>1, <2>1, <3>2, <4>1, <4>2
        <3>3. QED
            BY <1>1, <2>5, <3>1, <3>2 DEF ToSet
    <2>8. QED
        BY <1>3, <2>3, <2>4, <2>6, <2>7 DEF t
<1>4. QED
    BY <1>2, <1>3

(* LruOrder::touched, on an order without repetitions.                     *)
LEMMA TouchedIs ==
    ASSUME NEW S, NEW s \in Seq(S), NEW e \in S, Distinct(s)
    PROVE  LET t == Touched(s, e)
           IN  /\ t \in Seq(S) /\ Distinct(t)
               /\ ToSet(t) = ToSet(s) \cup {e}
               /\ Len(t) = IF e \in ToSet(s) THEN Len(s) ELSE Len(s) + 1
<1> DEFINE r == RemoveFirst(s, e)
           t == Append(r, e)
<1>1. /\ r \in Seq(S) /\ Distinct(r)
      /\ ToSet(r) = ToSet(s) \ {e}
      /\ Len(r) = IF e \in ToSet(s) THEN Len(s) - 1 ELSE Len(s)
    BY RemoveFirstIs
<1> HIDE DEF r
<1>2. /\ Len(r) \in Nat /\ DOMAIN r = 1..Len(r) /\ Len(s) \in Nat
      /\ t \in Seq(S) /\ Len(t) = Len(r) + 1 /\ DOMAIN t = 1..Len(r) + 1
      /\ \A j \in 1..Len(r) : t[j] = r[j]
      /\ t[Len(r) + 1] = e
    BY <1>1, AppendProperties, LenProperties
<1> HIDE DEF t
<1>3. \A j \in 1..Len(r) : r[j] # e
    BY <1>1, <1>2 DEF ToSet
<1>4. Distinct(t)
    <2>1. \A i, j \in 1..Len(r) : t[i] = t[j] => i = j
        BY <1>1, <1>2 DEF Distinct
    <2>2. \A i \in 1..Len(r) : t[i] # t[Len(r) + 1]
        BY <1>2, <1>3
    <2>3. \A i \in 1..Len(t) : i \in 1..Len(r) \/ i = Len(r) + 1
        BY <1>2
    <2>4. QED
        BY <2>1, <2>2, <2>3 DEF Distinct
<1>5. ToSet(t) = ToSet(r) \cup {e}
    BY <1>2 DEF ToSet
<1>6. Touched(s, e) = t
    BY DEF Touched, t, r
<1>7. QED
    BY <1>1, <1>2, <1>4, <1>5, <1>6

(* A sequence without repetitions is as long as its set of elements.       *)
LEMMA DistinctLength ==
    ASSUME NEW S, NEW s \in Seq(S), Distinct(s)
    PROVE  IsFiniteSet(ToSet(s)) /\ Cardinality(ToSet(s)) = Len(s)
<1>1. Len(s) \in Nat /\ DOMAIN s = 1..Len(s) /\ s \in [1..Len(s) -> S]
    BY LenProperties
<1>2. s \in Bijection(1..Len(s), ToSet(s))
    <2>1. s \in [1..Len(s) -> ToSet(s)]
        BY <1>1 DEF ToSet
    <2>2. s \in Injection(1..Len(s), ToSet(s))
        BY <2>1 DEF Injection, IsInjective, Distinct
    <2>3. s \in Surjection(1..Len(s), ToSet(s))
        BY <1>1, <2>1 DEF Surjection, ToSet
    <2>4. QED
        BY <2>2, <2>3 DEF Bijection
<1>3. ExistsBijection(1..Len(s), ToSet(s))
    BY <1>2 DEF ExistsBijection
<1>4. QED
    BY <1>1, <1>3, FS_NatBijection, FS_CountingElements

(* Dropping the first n of a sequence without repetitions drops these      *)
(* elements and no other.                                                  *)
LEMMA DropFront ==
    ASSUME NEW S, NEW s \in Seq(S), Distinct(s), NEW n \in 0..Len(s)
    PROVE  LET front == SubSeq(s, 1, n)
               rest  == SubSeq(s, n + 1, Len(s))
           IN  /\ rest \in Seq(S) /\ Distinct(rest)
               /\ Len(front) = n /\ Len(rest) = Len(s) - n
               /\ ToSet(rest) = ToSet(s) \ ToSet(front)
<1> DEFINE front == SubSeq(s, 1, n)
           rest  == SubSeq(s, n + 1, Len(s))
<1>1. Len(s) \in Nat /\ DOMAIN s = 1..Len(s)
    BY LenProperties
<1>2. /\ front \in Seq(S) /\ Len(front) = n /\ DOMAIN front = 1..n
      /\ \A j \in 1..n : front[j] = s[j]
    BY <1>1, SubSeqProperties, LenProperties
<1>3. /\ rest \in Seq(S) /\ Len(rest) = Len(s) - n /\ DOMAIN rest = 1..Len(s) - n
      /\ \A j \in 1..Len(s) - n : rest[j] = s[n + j]
    <2>1. /\ rest \in Seq(S) /\ Len(rest) = Len(s) - n
          /\ \A j \in 1..Len(s) - n : rest[j] = s[n + j]
        BY SuffixIs
    <2> HIDE DEF rest
    <2>2. QED
        BY <2>1, LenProperties
<1> HIDE DEF front, rest
<1>4. Distinct(rest)
    BY <1>1, <1>3 DEF Distinct
<1>5. ASSUME NEW j \in 1..Len(s) - n
      PROVE  rest[j] \in ToSet(s) \ ToSet(front)
    <2>1. n + j \in 1..Len(s) /\ n + j > n /\ rest[j] = s[n + j]
        BY <1>1, <1>3
    <2>2. \A m \in 1..n : front[m] # s[n + j]
        BY <1>1, <1>2, <2>1 DEF Distinct
    <2>3. QED
        BY <1>1, <1>2, <2>1, <2>2 DEF ToSet
<1>6. ASSUME NEW j \in 1..Len(s), s[j] \notin ToSet(front)
      PROVE  s[j] \in ToSet(rest)
    <2>1. j > n
        BY <1>1, <1>2, <1>6 DEF ToSet
    <2>2. j - n \in 1..Len(s) - n /\ rest[j - n] = s[j]
        BY <1>1, <1>3, <2>1
    <2>3. QED
        BY <1>3, <2>2 DEF ToSet
<1>7. ToSet(rest) = ToSet(s) \ ToSet(front)
    BY <1>1, <1>3, <1>5, <1>6 DEF ToSet
<1>8. QED
    BY <1>2, <1>3, <1>4, <1>7 DEF front, rest

-----------------------------------------------------------------------------
(* Flash.                                                                  *)

(* A record and an empty slot are told apart by their key.                 *)
LEMMA RecordKinds ==
    /\ Empty.key = NoValue
    /\ \A r \in Records : r.key \in Keys /\ r.val \in Values /\ r # Empty
    /\ \A k \in Keys : k # NoValue
    /\ \A k \in Keys, v \in Values : [key |-> k, val |-> v] \in Records
    BY RecordsAssumption DEF Empty, Records

(* A slot is empty or holds a record of a key that hashes to it.           *)
LEMMA SlotHolds ==
    ASSUME NEW f, FlashTypes(f), NEW s \in Slots
    PROVE  \/ f[s] = Empty /\ f[s].key = NoValue
           \/ /\ f[s] \in Records /\ f[s] # Empty
              /\ f[s].key \in Keys /\ f[s].val \in Values /\ SlotOf[f[s].key] = s
<1>1. f[s] = Empty \/ f[s] \in Records
    BY DEF FlashTypes
<1>2. CASE f[s] = Empty
    BY <1>2, RecordKinds
<1>3. CASE f[s] \in Records
    BY <1>3, RecordKinds DEF FlashTypes, Occupied
<1>4. QED
    BY <1>1, <1>2, <1>3

(* The stored value of a key is a value, or none.                          *)
LEMMA StoredType ==
    ASSUME NEW f, FlashTypes(f), NEW k \in Keys
    PROVE  /\ Stored(f, k) \in Values \cup {NoValue}
           /\ Stored(f, k) # NoValue <=> f[SlotOf[k]].key = k
    BY SlotHolds, RecordsAssumption DEF Stored

(* The keys with a stored value are those of the occupied slots.           *)
LEMMA PersistedIs ==
    ASSUME NEW f, FlashTypes(f), NEW k \in Keys
    PROVE  k \in Persisted(f) <=> Stored(f, k) # NoValue
<1>1. SlotOf[k] \in Slots
    BY RecordsAssumption
<1>2. ASSUME f[SlotOf[k]].key = k
      PROVE  k \in Persisted(f)
    BY <1>1, <1>2, SlotHolds, RecordKinds DEF Persisted, Occupied
<1>3. ASSUME k \in Persisted(f)
      PROVE  f[SlotOf[k]].key = k
    BY <1>3 DEF Persisted, FlashTypes
<1>4. QED
    BY <1>2, <1>3, StoredType

(* Flash f with the record of k and v in the slot of k, or with it empty.  *)
Put(f, k, v) == [f EXCEPT ![SlotOf[k]] = [key |-> k, val |-> v]]
Erase(f, k)  == [f EXCEPT ![SlotOf[k]] = Empty]

(* Writing into a slot that is free or the key's own changes this key's    *)
(* value and no other's.                                                   *)
LEMMA PutIs ==
    ASSUME NEW f, FlashTypes(f), NEW k \in Keys, NEW v \in Values,
           f[SlotOf[k]].key \in {k, NoValue},
           NEW g, g = Put(f, k, v)
    PROVE  /\ FlashTypes(g)
           /\ Occupied(g) = Occupied(f) \cup {SlotOf[k]}
           /\ Stored(g, k) = v
           /\ \A o \in Keys \ {k} : Stored(g, o) = Stored(f, o)
           /\ \A s \in Occupied(f) : g[s].key = f[s].key
<1> DEFINE r == [key |-> k, val |-> v]
<1>1. SlotOf[k] \in Slots
    BY RecordsAssumption
<1>2. r \in Records /\ r # Empty /\ r.key = k /\ r.val = v
    BY RecordKinds
<1>3. /\ DOMAIN g = Slots /\ g[SlotOf[k]] = r
      /\ \A s \in Slots \ {SlotOf[k]} : g[s] = f[s]
      /\ g \in [Slots -> Records \cup {Empty}]
    BY <1>1, <1>2 DEF FlashTypes, Put
<1> HIDE DEF r
<1>4. Occupied(g) = Occupied(f) \cup {SlotOf[k]}
    BY <1>1, <1>2, <1>3 DEF Occupied
<1>5. FlashTypes(g)
    <2>1. ASSUME NEW s \in Occupied(g)
          PROVE  SlotOf[g[s].key] = s
        <3>1. s \in Slots
            BY DEF Occupied
        <3>2. CASE s = SlotOf[k]
            BY <1>2, <1>3, <3>2
        <3>3. CASE s # SlotOf[k]
            BY <1>3, <1>4, <3>1, <3>3 DEF FlashTypes
        <3>4. QED
            BY <3>2, <3>3
    <2>2. QED
        BY <1>3, <2>1 DEF FlashTypes
<1>6. Stored(g, k) = v
    BY <1>2, <1>3 DEF Stored
<1>7. ASSUME NEW o \in Keys \ {k}
      PROVE  Stored(g, o) = Stored(f, o)
    <2>1. SlotOf[o] \in Slots /\ o # NoValue
        BY RecordsAssumption
    <2>2. CASE SlotOf[o] = SlotOf[k]
        BY <1>2, <1>3, <2>1, <2>2 DEF Stored
    <2>3. CASE SlotOf[o] # SlotOf[k]
        BY <1>3, <2>1, <2>3 DEF Stored
    <2>4. QED
        BY <2>2, <2>3
<1>8. ASSUME NEW s \in Occupied(f)
      PROVE  g[s].key = f[s].key
    <2>1. s \in Slots /\ f[s].key # NoValue
        BY SlotHolds, RecordKinds DEF Occupied
    <2>2. QED
        BY <1>2, <1>3, <2>1
<1>9. QED
    BY <1>4, <1>5, <1>6, <1>7, <1>8

(* Emptying a slot that is free or the key's own erases this key's value   *)
(* and no other's.                                                         *)
LEMMA EraseIs ==
    ASSUME NEW f, FlashTypes(f), NEW k \in Keys, f[SlotOf[k]].key \in {k, NoValue},
           NEW g, g = Erase(f, k)
    PROVE  /\ FlashTypes(g)
           /\ Occupied(g) = Occupied(f) \ {SlotOf[k]}
           /\ Stored(g, k) = NoValue
           /\ \A o \in Keys \ {k} : Stored(g, o) = Stored(f, o)
           /\ \A s \in Slots : g[s] # Empty => g[s] = f[s]
<1>1. SlotOf[k] \in Slots
    BY RecordsAssumption
<1>2. /\ DOMAIN g = Slots /\ g[SlotOf[k]] = Empty
      /\ \A s \in Slots \ {SlotOf[k]} : g[s] = f[s]
      /\ g \in [Slots -> Records \cup {Empty}]
    BY <1>1 DEF FlashTypes, Erase
<1>3. Occupied(g) = Occupied(f) \ {SlotOf[k]}
    BY <1>1, <1>2 DEF Occupied
<1>4. FlashTypes(g)
    <2>1. ASSUME NEW s \in Occupied(g)
          PROVE  g[s] = f[s] /\ s \in Occupied(f)
        BY <1>2, <1>3 DEF Occupied
    <2>2. QED
        BY <1>2, <2>1 DEF FlashTypes
<1>5. Stored(g, k) = NoValue
    BY <1>2, RecordKinds DEF Stored
<1>6. ASSUME NEW o \in Keys \ {k}
      PROVE  Stored(g, o) = Stored(f, o)
    <2>1. SlotOf[o] \in Slots /\ o # NoValue
        BY RecordsAssumption
    <2>2. QED
        BY <1>2, <2>1, RecordKinds DEF Stored
<1>7. QED
    BY <1>1, <1>2, <1>3, <1>4, <1>5, <1>6

(* Keeping only some of the slots loses the other keys' values and changes *)
(* none.                                                                   *)
LEMMA KeepIs ==
    ASSUME NEW f, FlashTypes(f), NEW left \in SUBSET Occupied(f),
           NEW g, g = [s \in Slots |-> IF s \in left THEN f[s] ELSE Empty]
    PROVE  /\ FlashTypes(g)
           /\ Occupied(g) \subseteq Occupied(f)
           /\ \A k \in Keys \ (Persisted(f) \ Persisted(g)) : Stored(g, k) = Stored(f, k)
           /\ \A s \in Slots : g[s] # Empty => g[s] = f[s]
<1>1. /\ g \in [Slots -> Records \cup {Empty}]
      /\ \A s \in Slots : g[s] = f[s] \/ g[s] = Empty
    BY DEF FlashTypes
<1>2. Occupied(g) \subseteq Occupied(f)
    BY <1>1 DEF Occupied
<1>3. FlashTypes(g)
    BY <1>1, <1>2 DEF FlashTypes, Occupied
<1>4. ASSUME NEW k \in Keys, k \notin Persisted(f) \ Persisted(g)
      PROVE  Stored(g, k) = Stored(f, k)
    <2>1. SlotOf[k] \in Slots /\ k # NoValue
        BY RecordsAssumption
    <2>2. g[SlotOf[k]].key = k => Stored(g, k) = Stored(f, k)
        BY <1>1, <2>1, RecordKinds DEF Stored
    <2>3. g[SlotOf[k]].key # k => Stored(g, k) = NoValue
        BY DEF Stored
    <2>4. QED
        BY <1>3, <1>4, <2>2, <2>3, PersistedIs, StoredType
<1>5. QED
    BY <1>1, <1>2, <1>3, <1>4

(* Occupied slots can be counted.                                          *)
LEMMA OccupiedCount ==
    ASSUME NEW f
    PROVE  /\ IsFiniteSet(Occupied(f)) /\ Cardinality(Occupied(f)) \in Nat
           /\ \A T \in SUBSET Occupied(f) :
                  IsFiniteSet(T) /\ Cardinality(T) \in Nat
                  /\ Cardinality(T) <= Cardinality(Occupied(f))
<1>1. IsFiniteSet(Occupied(f))
    BY RecordsAssumption, FS_Subset DEF Occupied
<1>2. QED
    BY <1>1, FS_Subset, FS_CardinalityType

(* Fewer records fit where the records of flash do.                        *)
LEMMA FewerFit ==
    ASSUME FlashInv, NEW T \in SUBSET Occupied(flash)
    PROVE  Cardinality(T) <= MaxEntries[kind]
<1>1. MaxEntries[kind] \in Nat
    BY RecordsAssumption DEF FlashInv
<1>2. QED
    BY <1>1, OccupiedCount DEF FlashInv

(* An erased namespace.                                                    *)
LEMMA ErasedFlash ==
    ASSUME NEW f, f = [s \in Slots |-> Empty]
    PROVE  /\ FlashTypes(f) /\ Occupied(f) = {}
           /\ \A k \in Keys : Stored(f, k) = NoValue
<1>1. \A s \in Slots : f[s] = Empty
    OBVIOUS
<1>2. Occupied(f) = {}
    BY <1>1 DEF Occupied
<1>3. QED
    BY <1>1, <1>2, RecordKinds, RecordsAssumption DEF FlashTypes, Stored

-----------------------------------------------------------------------------
(* The cache of validated slots.                                           *)

(* No entries is a cache of anything.                                      *)
LEMMA EmptyCache ==
    ASSUME NEW f
    PROVE  CacheOf(<<>>, f)
    BY EmptySeq, RecordsAssumption DEF CacheOf

(* Remembering a slot that does hold the key keeps the cache true, and     *)
(* within its size.                                                        *)
LEMMA RememberIs ==
    ASSUME NEW c, NEW f, CacheOf(c, f), NEW k \in Keys, f[SlotOf[k]].key = k
    PROVE  CacheOf(Remember(c, k), f)
<1> DEFINE e      == [slot |-> SlotOf[k], key |-> k]
           others == RemoveFirstMatch(c, LAMBDA x : x.slot = SlotOf[k])
           kept   == IF Len(others) = CacheCap THEN Tail(others) ELSE others
<1>1. /\ c \in Seq(Validated) /\ Len(c) \in Nat /\ Len(c) <= CacheCap
      /\ \A i, j \in 1..Len(c) : c[i].slot = c[j].slot => i = j
      /\ \A i \in 1..Len(c) : TrueOf(f, c[i])
    BY LenProperties DEF CacheOf
<1>2. e \in Validated /\ e.slot = SlotOf[k] /\ TrueOf(f, e)
    BY RecordsAssumption DEF Validated, TrueOf
<1>3. /\ CacheOf(others, f)
      /\ \A i \in 1..Len(others) : others[i].slot # SlotOf[k]
    <2>1. CASE \A i \in 1..Len(c) : c[i].slot # SlotOf[k]
        <3>1. others = c
            BY <2>1 DEF RemoveFirstMatch
        <3>2. QED
            BY <2>1, <3>1
    <2>2. CASE \E i \in 1..Len(c) : c[i].slot = SlotOf[k]
        <3>1. PICK i \in 1..Len(c) : c[i].slot = SlotOf[k]
            BY <2>2
        <3>2. {j \in 1..Len(c) : c[j].slot = SlotOf[k]} = {i}
            BY <1>1, <3>1
        <3>3. others = RemoveAt(c, i)
            BY <3>1, <3>2, MinOfOne DEF RemoveFirstMatch, SelectInSeq
        <3> HIDE DEF others
        <3>4. /\ others \in Seq(Validated) /\ Len(others) = Len(c) - 1
              /\ \A j \in 1..Len(c) - 1 : others[j] = IF j < i THEN c[j] ELSE c[j + 1]
            BY <1>1, <3>3, RemoveAtIs
        <3>5. ASSUME NEW j \in 1..Len(c) - 1
              PROVE  \E m \in 1..Len(c) : m # i /\ others[j] = c[m]
            <4>1. CASE j < i
                BY <1>1, <3>4, <4>1
            <4>2. CASE j >= i
                <5>1. j + 1 \in 1..Len(c) /\ j + 1 # i /\ others[j] = c[j + 1]
                    BY <1>1, <3>4, <4>2
                <5>2. QED
                    BY <5>1
            <4>3. QED
                BY <1>1, <4>1, <4>2
        <3>6. \A j \in 1..Len(others) : TrueOf(f, others[j]) /\ others[j].slot # SlotOf[k]
            BY <1>1, <3>1, <3>4, <3>5
        <3>7. ASSUME NEW j \in 1..Len(others), NEW m \in 1..Len(others),
                     others[j].slot = others[m].slot
              PROVE  j = m
            <4> DEFINE at(n) == IF n < i THEN n ELSE n + 1
            <4>1. /\ at(j) \in 1..Len(c) /\ others[j] = c[at(j)]
                  /\ at(m) \in 1..Len(c) /\ others[m] = c[at(m)]
                BY <1>1, <3>4
            <4>2. at(j) = at(m)
                <5> HIDE DEF at
                <5>1. QED
                    BY <1>1, <3>7, <4>1
            <4>3. QED
                BY <3>4, <4>2
        <3>8. QED
            BY <1>1, <3>4, <3>6, <3>7, RecordsAssumption DEF CacheOf
    <2>3. QED
        BY <2>1, <2>2
<1> HIDE DEF e, others
<1>4. /\ CacheOf(kept, f) /\ Len(kept) < CacheCap
      /\ \A i \in 1..Len(kept) : kept[i].slot # SlotOf[k]
    <2>0. others \in Seq(Validated) /\ Len(others) \in Nat /\ Len(others) <= CacheCap
        BY <1>3, LenProperties DEF CacheOf
    <2>1. CASE Len(others) = CacheCap
        <3>1. others # <<>>
            BY <2>1, EmptySeq, RecordsAssumption
        <3>2. /\ kept \in Seq(Validated) /\ Len(kept) = CacheCap - 1
              /\ \A i \in 1..CacheCap - 1 : kept[i] = others[i + 1]
            BY <2>0, <2>1, <3>1, HeadTailProperties
        <3> HIDE DEF kept
        <3>3. QED
            BY <1>3, <2>0, <2>1, <3>2, RecordsAssumption DEF CacheOf
    <2>2. CASE Len(others) # CacheCap
        BY <1>3, <2>0, <2>2, RecordsAssumption
    <2>3. QED
        BY <2>1, <2>2
<1> HIDE DEF kept
<1>5. /\ Append(kept, e) \in Seq(Validated) /\ Len(Append(kept, e)) = Len(kept) + 1
      /\ \A i \in 1..Len(kept) : Append(kept, e)[i] = kept[i]
      /\ Append(kept, e)[Len(kept) + 1] = e
    BY <1>2, <1>4, AppendProperties DEF CacheOf
<1>6. Len(kept) \in Nat
    BY <1>4, LenProperties DEF CacheOf
<1>7. CacheOf(Append(kept, e), f)
    BY <1>2, <1>4, <1>5, <1>6, RecordsAssumption DEF CacheOf
<1>8. Remember(c, k) = Append(kept, e)
    BY DEF Remember, kept, others, e
<1>9. QED
    BY <1>7, <1>8

(* The check's own reading of flash is remembered truly.                   *)
LEMMA CacheAfterCheckIs ==
    ASSUME FlashInv, CacheInv, NEW k \in Keys
    PROVE  CacheOf(CacheAfterCheck(k), flash)
<1>1. CASE Stored(flash, k) # NoValue
    <2>1. flash[SlotOf[k]].key = k
        BY <1>1, StoredType DEF FlashInv
    <2>2. CacheOf(Remember(cache, k), flash)
        BY <2>1, RememberIs DEF CacheInv
    <2>3. QED
        BY <2>2 DEF CacheAfterCheck, RememberSession, CacheInv
<1>2. CASE Stored(flash, k) = NoValue
    BY <1>2 DEF CacheAfterCheck, CacheInv
<1>3. QED
    BY <1>1, <1>2

(* A true cache survives a write into a slot free or the key's own.        *)
LEMMA PutKeepsCache ==
    ASSUME NEW f, FlashTypes(f), NEW c, CacheOf(c, f), NEW k \in Keys, NEW v \in Values,
           f[SlotOf[k]].key \in {k, NoValue}
    PROVE  CacheOf(c, Put(f, k, v))
<1> DEFINE g == Put(f, k, v)
<1>1. \A s \in Occupied(f) : g[s].key = f[s].key
    BY PutIs
<1> HIDE DEF g
<1>2. c \in Seq(Validated) /\ Len(c) \in Nat
    BY LenProperties DEF CacheOf
<1>3. ASSUME NEW i \in 1..Len(c)
      PROVE  TrueOf(g, c[i])
    <2>1. c[i] \in Validated
        BY <1>2, ElementOfSeq
    <2>2. c[i].slot \in Occupied(f)
        BY <2>1, RecordKinds DEF CacheOf, TrueOf, Occupied, Validated
    <2>3. QED
        BY <1>1, <2>2 DEF CacheOf, TrueOf
<1>4. QED
    BY <1>3 DEF CacheOf, g

(* A write that the check lets through has a slot that is free, and within *)
(* the budget, or already the key's: what the cache says is true of flash. *)
LEMMA SlotIsOurs ==
    ASSUME FlashInv, CacheInv, NEW k \in Keys, MayPut(k)
    PROVE  /\ flash[SlotOf[k]].key \in {k, NoValue}
           /\ SlotOf[k] \notin Occupied(flash) =>
                  Cardinality(Occupied(flash)) < MaxEntries[kind]
<1>1. SlotOf[k] \in Slots /\ k # NoValue
    BY RecordsAssumption
<1>2. CASE CachedKeys(k) # {}
    <2>1. k \in CachedKeys(k)
        BY <1>2 DEF MayPut, CheckRecordSlot
    <2>2. PICK e \in ToSet(cache) : e.slot = SlotOf[k] /\ e.key = k
        BY <2>1 DEF CachedKeys
    <2>3. TrueOf(flash, e)
        BY LenProperties DEF CacheInv, CacheOf, ToSet
    <2>4. QED
        BY <1>1, <2>2, <2>3, RecordKinds DEF TrueOf, Occupied
<1>3. CASE CachedKeys(k) = {}
    BY <1>1, <1>3, RecordKinds DEF MayPut, CheckRecordSlot, Occupied
<1>4. QED
    BY <1>2, <1>3

(* The namespace keeps its budget through a write that is let through.     *)
LEMMA PutKeepsBudget ==
    ASSUME FlashInv, CacheInv, NEW k \in Keys, MayPut(k)
    PROVE  Cardinality(Occupied(flash) \cup {SlotOf[k]}) <= MaxEntries[kind]
<1>1. Cardinality(Occupied(flash)) \in Nat /\ MaxEntries[kind] \in Nat
    BY OccupiedCount, RecordsAssumption DEF FlashInv
<1>2. /\ Cardinality(Occupied(flash)) <= MaxEntries[kind]
      /\ SlotOf[k] \notin Occupied(flash) =>
             Cardinality(Occupied(flash)) < MaxEntries[kind]
    BY SlotIsOurs DEF FlashInv
<1>3. Cardinality(Occupied(flash) \cup {SlotOf[k]}) =
          IF SlotOf[k] \in Occupied(flash)
          THEN Cardinality(Occupied(flash)) ELSE Cardinality(Occupied(flash)) + 1
    BY OccupiedCount, FS_AddElement
<1>4. QED
    BY <1>1, <1>2, <1>3

-----------------------------------------------------------------------------
(* The mirror and its order.                                               *)

(* Enforcing the cap keeps the order a list of the mirror.                 *)
LEMMA EnforceCapIs ==
    ASSUME kind \in Kinds, NEW m \in [Keys -> Values \cup {NoValue}],
           NEW o \in Seq(Keys), Distinct(o), ToSet(o) = Mirrored(m), EnforceCap(m, o)
    PROVE  /\ mirror' \in [Keys -> Values \cup {NoValue}]
           /\ order' \in Seq(Keys) /\ Distinct(order')
           /\ ToSet(order') = Mirrored(mirror')
           /\ Len(order') <= MirrorCap[kind]
           /\ \A k \in Keys : mirror'[k] \in {m[k], NoValue}
<1> DEFINE cap == MirrorCap[kind]
           n   == IF Len(o) > cap THEN Len(o) - cap ELSE 0
<1>1. cap \in Nat /\ Len(o) \in Nat /\ n \in 0..Len(o)
    BY RecordsAssumption, LenProperties
<1>2. Cardinality(Mirrored(m)) = Len(o)
    BY DistinctLength
<1>3. Overflow(o, Len(o), cap) = SubSeq(o, 1, n)
    <2>1. CASE Len(o) > cap
        BY <2>1 DEF Overflow
    <2>2. CASE ~(Len(o) > cap)
        BY <2>2, SubSeqEmpty DEF Overflow
    <2>3. QED
        BY <2>1, <2>2
<1> DEFINE front == SubSeq(o, 1, n)
           rest  == SubSeq(o, n + 1, Len(o))
<1>4. /\ rest \in Seq(Keys) /\ Distinct(rest)
      /\ Len(front) = n /\ Len(rest) = Len(o) - n
      /\ ToSet(rest) = ToSet(o) \ ToSet(front)
    <2> HIDE DEF cap, n
    <2>1. QED
        BY <1>1, DropFront
<1>5. /\ mirror' = [k \in Keys |-> IF k \in ToSet(front) THEN NoValue ELSE m[k]]
      /\ order' = rest
    <2> HIDE DEF n
    <2>1. Overflow(o, Cardinality(Mirrored(m)), MirrorCap[kind]) = front
        BY <1>2, <1>3
    <2>2. QED
        BY <1>4, <2>1, Zenon DEF EnforceCap
<1> HIDE DEF front, rest
<1>6. Mirrored(mirror') = Mirrored(m) \ ToSet(front)
    BY <1>5 DEF Mirrored
<1>7. Len(order') <= cap
    BY <1>1, <1>4, <1>5
<1>8. QED
    BY <1>4, <1>5, <1>6, <1>7

(* Mirroring a value shows it or, under a cap, nothing; other keys keep    *)
(* theirs or, under a cap, lose it.                                        *)
LEMMA MirrorIs ==
    ASSUME kind \in Kinds, MirrorShape, kind' = kind,
           NEW k \in Keys, NEW v \in Values, Mirror(k, v)
    PROVE  /\ MirrorShape'
           /\ MayMirror(mirror'[k], v)
           /\ \A o \in Keys \ {k} : MayMirror(mirror'[o], mirror[o])
<1> DEFINE m == [mirror EXCEPT ![k] = v]
<1>1. /\ m \in [Keys -> Values \cup {NoValue}] /\ m[k] = v
      /\ \A o \in Keys \ {k} : m[o] = mirror[o]
    BY DEF MirrorShape, MirrorOf
<1>2. CASE kind = "prekey"
    BY <1>1, <1>2 DEF Mirror, MirrorShape, MirrorOf, MayMirror
<1>3. CASE kind # "prekey"
    <2>1. EnforceCap(m, Touched(order, k))
        BY <1>3 DEF Mirror
    <2> HIDE DEF m
    <2>2. Mirrored(m) = Mirrored(mirror) \cup {k}
        BY <1>1, RecordsAssumption DEF Mirrored
    <2>3. /\ Touched(order, k) \in Seq(Keys) /\ Distinct(Touched(order, k))
          /\ ToSet(Touched(order, k)) = Mirrored(m)
        BY <1>3, <2>2, TouchedIs DEF MirrorShape, MirrorOf
    <2>4. /\ mirror' \in [Keys -> Values \cup {NoValue}]
          /\ order' \in Seq(Keys) /\ Distinct(order')
          /\ ToSet(order') = Mirrored(mirror')
          /\ Len(order') <= MirrorCap[kind]
          /\ \A o \in Keys : mirror'[o] \in {m[o], NoValue}
        BY <1>1, <2>1, <2>3, EnforceCapIs
    <2>5. QED
        BY <1>1, <1>3, <2>4 DEF MirrorShape, MirrorOf, MayMirror
<1>4. QED
    BY <1>2, <1>3

(* Forgetting a key takes it out of the mirror and of the order.           *)
LEMMA ForgetIs ==
    ASSUME kind \in Kinds, MirrorShape, kind' = kind, NEW k \in Keys, Forget(k)
    PROVE  /\ MirrorShape'
           /\ mirror'[k] = NoValue
           /\ \A o \in Keys \ {k} : mirror'[o] = mirror[o]
<1>1. /\ mirror' \in [Keys -> Values \cup {NoValue}] /\ mirror'[k] = NoValue
      /\ \A o \in Keys \ {k} : mirror'[o] = mirror[o]
    BY DEF Forget, MirrorShape, MirrorOf
<1>2. Mirrored(mirror') = Mirrored(mirror) \ {k}
    BY <1>1 DEF Mirrored
<1>3. /\ order' \in Seq(Keys) /\ Distinct(order')
      /\ ToSet(order') = ToSet(order) \ {k}
      /\ Len(order') = IF k \in ToSet(order) THEN Len(order) - 1 ELSE Len(order)
    BY RemoveFirstIs DEF Forget, MirrorShape, MirrorOf
<1>4. Len(order) \in Nat /\ MirrorCap[kind] \in Nat
    BY RecordsAssumption, LenProperties DEF MirrorShape, MirrorOf
<1>5. QED
    BY <1>1, <1>2, <1>3, <1>4 DEF MirrorShape, MirrorOf

(* An empty mirror has an empty order.                                     *)
LEMMA NothingMirrored ==
    ASSUME NEW n \in Kinds
    PROVE  MirrorOf([k \in Keys |-> NoValue], <<>>, n)
<1> DEFINE m == [k \in Keys |-> NoValue]
<1>1. ToSet(<<>>) = {} /\ Distinct(<<>>)
    BY DEF ToSet, Distinct
<1>2. Mirrored(m) = {} /\ m \in [Keys -> Values \cup {NoValue}]
    BY DEF Mirrored
<1>3. <<>> \in Seq(Keys) /\ Len(<<>>) = 0
    BY EmptySeq
<1>4. MirrorCap[n] \in Nat
    BY RecordsAssumption
<1> HIDE DEF m
<1>5. MirrorOf(m, <<>>, n)
    BY <1>1, <1>2, <1>3, <1>4 DEF MirrorOf
<1>6. QED
    BY <1>5 DEF m

-----------------------------------------------------------------------------
(* The steps.                                                              *)

(* What NeverClobbers allows.                                              *)
NoClobber ==
    \A s \in Slots : flash[s] # Empty /\ flash'[s] # Empty => flash'[s].key = flash[s].key

(* An acknowledged write.                                                  *)
LEMMA PutOkKeeps ==
    ASSUME RecordsInv, kind' = kind, NEW k \in Keys, NEW v \in Values, PutOk(k, v)
    PROVE  RecordsInv' /\ NoClobber
<1> USE DEF RecordsInv
<1>1. /\ up /\ up' = up /\ MayPut(k) /\ Mirror(k, v)
      /\ flash' = Put(flash, k, v)
      /\ cache' = CacheAfterCheck(k)
      /\ acked' = [acked EXCEPT ![k] = v] /\ doubt' = doubt \ {k}
    BY DEF PutOk, Put
<1>2. flash[SlotOf[k]].key \in {k, NoValue}
    BY <1>1, SlotIsOurs
<1>3. /\ FlashTypes(flash')
      /\ Occupied(flash') = Occupied(flash) \cup {SlotOf[k]}
      /\ Stored(flash', k) = v
      /\ \A o \in Keys \ {k} : Stored(flash', o) = Stored(flash, o)
      /\ \A s \in Occupied(flash) : flash'[s].key = flash[s].key
    BY <1>1, <1>2, PutIs DEF FlashInv
<1>4. FlashInv'
    <2>1. Cardinality(Occupied(flash')) <= MaxEntries[kind]
        BY <1>1, <1>3, PutKeepsBudget
    <2>2. \A o \in Keys \ doubt' : Stored(flash', o) = acked'[o]
        BY <1>1, <1>3 DEF FlashInv, AckedIsDurable
    <2>3. QED
        BY <1>1, <1>3, <2>1, <2>2 DEF FlashInv, AckedIsDurable
<1>5. CacheInv'
    <2>1. CacheOf(cache', flash)
        BY <1>1, CacheAfterCheckIs
    <2>2. CacheOf(cache', flash')
        BY <1>1, <1>2, <2>1, PutKeepsCache DEF FlashInv
    <2>3. QED
        BY <2>2 DEF CacheInv
<1>6. MirrorShape' /\ MirrorFresh'
    <2>1. /\ MirrorShape'
          /\ MayMirror(mirror'[k], v)
          /\ \A o \in Keys \ {k} : MayMirror(mirror'[o], mirror[o])
        BY <1>1, MirrorIs DEF FlashInv
    <2>2. QED
        BY <1>1, <1>3, <2>1 DEF MirrorFresh, MayMirror
<1>7. NoClobber
    BY <1>3 DEF NoClobber, Occupied
<1>8. QED
    BY <1>1, <1>4, <1>5, <1>6, <1>7

(* A write whose outcome is not known.                                     *)
LEMMA PutFailsKeeps ==
    ASSUME RecordsInv, kind' = kind, NEW k \in Keys, NEW v \in Values, PutFails(k, v)
    PROVE  RecordsInv' /\ NoClobber
<1> USE DEF RecordsInv
<1> DEFINE g == Put(flash, k, v)
<1>1. /\ up' = up /\ MayPut(k)
      /\ flash' = flash \/ flash' = g
      /\ cache' = CacheAfterCheck(k)
      /\ acked' = acked /\ doubt' = doubt \cup {k}
      /\ mirror' = mirror /\ order' = order
    BY DEF PutFails, Put
<1>2. flash[SlotOf[k]].key \in {k, NoValue}
    BY <1>1, SlotIsOurs
<1>3. CacheOf(cache', flash)
    BY <1>1, CacheAfterCheckIs
<1>4. /\ FlashTypes(flash')
      /\ Cardinality(Occupied(flash')) <= MaxEntries[kind]
      /\ \A o \in Keys \ {k} : Stored(flash', o) = Stored(flash, o)
      /\ \A s \in Occupied(flash) : flash'[s].key = flash[s].key
      /\ CacheOf(cache', flash')
    <2>1. CASE flash' = flash
        BY <1>3, <2>1 DEF FlashInv
    <2>2. CASE flash' = g
        <3>1. /\ FlashTypes(g)
              /\ Occupied(g) = Occupied(flash) \cup {SlotOf[k]}
              /\ \A o \in Keys \ {k} : Stored(g, o) = Stored(flash, o)
              /\ \A s \in Occupied(flash) : g[s].key = flash[s].key
            BY <1>2, PutIs DEF FlashInv
        <3>2. CacheOf(cache', g)
            BY <1>2, <1>3, PutKeepsCache DEF FlashInv
        <3>3. QED
            BY <1>1, <2>2, <3>1, <3>2, PutKeepsBudget
    <2>3. QED
        BY <1>1, <2>1, <2>2
<1>5. FlashInv'
    BY <1>1, <1>4 DEF FlashInv, AckedIsDurable
<1>6. MirrorShape' /\ MirrorFresh'
    BY <1>1, <1>4 DEF MirrorShape, MirrorFresh, MayMirror
<1>7. NoClobber
    BY <1>4 DEF NoClobber, Occupied
<1>8. QED
    BY <1>1, <1>4, <1>5, <1>6, <1>7 DEF CacheInv

(* A load, from RAM or from flash.                                         *)
LEMMA LoadKeeps ==
    ASSUME RecordsInv, kind' = kind, NEW k \in Keys, Load(k)
    PROVE  RecordsInv' /\ NoClobber
<1> USE DEF RecordsInv
<1>1. /\ up' = up /\ kind # "prekey"
      /\ flash' = flash /\ acked' = acked /\ doubt' = doubt
    BY DEF Load, history
<1>2. FlashInv' /\ NoClobber
    BY <1>1 DEF FlashInv, AckedIsDurable, NoClobber
<1>3. CASE mirror[k] # NoValue /\ order' = Touched(order, k) /\ mirror' = mirror /\ cache' = cache
    <2>1. k \in ToSet(order)
        BY <1>1, <1>3 DEF MirrorShape, MirrorOf, Mirrored
    <2>2. /\ order' \in Seq(Keys) /\ Distinct(order')
          /\ ToSet(order') = ToSet(order) \cup {k} /\ Len(order') = Len(order)
        BY <1>3, <2>1, TouchedIs DEF MirrorShape, MirrorOf
    <2>3. MirrorShape'
        BY <1>1, <1>3, <2>1, <2>2 DEF MirrorShape, MirrorOf
    <2>4. QED
        BY <1>1, <1>2, <1>3, <2>3 DEF MirrorFresh, MayMirror, CacheInv
<1>4. CASE /\ Stored(flash, k) # NoValue
           /\ cache' = RememberSession(k) /\ Mirror(k, Stored(flash, k))
    <2>1. flash[SlotOf[k]].key = k /\ Stored(flash, k) \in Values
        BY <1>4, StoredType DEF FlashInv
    <2>2. CacheInv'
        BY <1>1, <1>4, <2>1, RememberIs DEF CacheInv, RememberSession
    <2>3. /\ MirrorShape'
          /\ MayMirror(mirror'[k], Stored(flash, k))
          /\ \A o \in Keys \ {k} : MayMirror(mirror'[o], mirror[o])
        BY <1>4, <2>1, MirrorIs DEF FlashInv
    <2>4. MirrorFresh'
        BY <1>1, <2>3 DEF MirrorFresh, MayMirror
    <2>5. QED
        BY <1>1, <1>2, <2>2, <2>3, <2>4
<1>5. QED
    BY <1>3, <1>4 DEF Load

(* A deletion that succeeds.                                               *)
LEMMA DeleteOkKeeps ==
    ASSUME RecordsInv, kind' = kind, NEW k \in Keys, DeleteOk(k)
    PROVE  RecordsInv' /\ NoClobber
<1> USE DEF RecordsInv
<1>1. /\ up' = up /\ flash[SlotOf[k]].key \in {k, NoValue} /\ Forget(k)
      /\ flash' = Erase(flash, k) /\ cache' = <<>>
      /\ acked' = [acked EXCEPT ![k] = NoValue] /\ doubt' = doubt \ {k}
    BY DEF DeleteOk, DeleteWhen, Erase
<1>2. /\ FlashTypes(flash')
      /\ Occupied(flash') = Occupied(flash) \ {SlotOf[k]}
      /\ Stored(flash', k) = NoValue
      /\ \A o \in Keys \ {k} : Stored(flash', o) = Stored(flash, o)
      /\ \A s \in Slots : flash'[s] # Empty => flash'[s] = flash[s]
    BY <1>1, EraseIs DEF FlashInv
<1>3. FlashInv'
    <2>1. Cardinality(Occupied(flash')) <= MaxEntries[kind]
        BY <1>2, FewerFit
    <2>2. \A o \in Keys \ doubt' : Stored(flash', o) = acked'[o]
        BY <1>1, <1>2 DEF FlashInv, AckedIsDurable
    <2>3. QED
        BY <1>1, <1>2, <2>1, <2>2 DEF FlashInv, AckedIsDurable
<1>4. CacheInv'
    BY <1>1, EmptyCache DEF CacheInv
<1>5. MirrorShape' /\ MirrorFresh'
    <2>1. /\ MirrorShape' /\ mirror'[k] = NoValue
          /\ \A o \in Keys \ {k} : mirror'[o] = mirror[o]
        BY <1>1, ForgetIs DEF FlashInv
    <2>2. QED
        BY <1>1, <1>2, <2>1 DEF MirrorFresh, MayMirror
<1>6. NoClobber
    BY <1>2 DEF NoClobber
<1>7. QED
    BY <1>1, <1>3, <1>4, <1>5, <1>6

(* A deletion that fails, having taken effect or not.                      *)
LEMMA DeleteFailsKeeps ==
    ASSUME RecordsInv, kind' = kind, NEW k \in Keys, DeleteFails(k)
    PROVE  RecordsInv' /\ NoClobber
<1> USE DEF RecordsInv
<1>1. /\ up' = up /\ cache' = <<>> /\ acked' = acked
      /\ mirror' = mirror /\ order' = order
      /\ \/ flash' = flash /\ doubt' = doubt
         \/ /\ flash[SlotOf[k]].key = k /\ flash' = Erase(flash, k)
            /\ doubt' = doubt \cup {k}
    BY DEF DeleteFails, Erase
<1>2. CacheInv' /\ MirrorShape'
    BY <1>1, EmptyCache DEF CacheInv, MirrorShape
<1>3. CASE flash' = flash /\ doubt' = doubt
    BY <1>1, <1>2, <1>3 DEF FlashInv, AckedIsDurable, MirrorFresh, MayMirror, NoClobber
<1>4. CASE /\ flash[SlotOf[k]].key = k /\ flash' = Erase(flash, k)
           /\ doubt' = doubt \cup {k}
    <2>1. /\ FlashTypes(flash')
          /\ Occupied(flash') = Occupied(flash) \ {SlotOf[k]}
          /\ \A o \in Keys \ {k} : Stored(flash', o) = Stored(flash, o)
          /\ \A s \in Slots : flash'[s] # Empty => flash'[s] = flash[s]
        BY <1>4, EraseIs DEF FlashInv
    <2>2. Cardinality(Occupied(flash')) <= MaxEntries[kind]
        BY <2>1, FewerFit
    <2>3. FlashInv'
        BY <1>1, <1>4, <2>1, <2>2 DEF FlashInv, AckedIsDurable
    <2>4. MirrorFresh' /\ NoClobber
        BY <1>1, <1>4, <2>1 DEF MirrorFresh, MayMirror, NoClobber
    <2>5. QED
        BY <1>1, <1>2, <2>3, <2>4
<1>5. QED
    BY <1>1, <1>3, <1>4

(* Clearing the sessions.                                                  *)
LEMMA ClearOkKeeps ==
    ASSUME RecordsInv, kind' = kind, ClearOk
    PROVE  RecordsInv' /\ NoClobber
<1> USE DEF RecordsInv
<1>1. /\ up' = up /\ flash' = [s \in Slots |-> Empty] /\ cache' = <<>>
      /\ mirror' = [k \in Keys |-> NoValue] /\ order' = <<>>
      /\ acked' = [k \in Keys |-> NoValue] /\ doubt' = {}
    BY DEF ClearOk
<1>2. /\ FlashTypes(flash') /\ Occupied(flash') = {}
      /\ \A k \in Keys : Stored(flash', k) = NoValue
    BY <1>1, ErasedFlash
<1>3. FlashInv'
    <2>1. Cardinality(Occupied(flash')) <= MaxEntries[kind]
        BY <1>2, FewerFit
    <2>2. QED
        BY <1>1, <1>2, <2>1 DEF FlashInv, AckedIsDurable
<1>4. CacheInv' /\ MirrorShape'
    BY <1>1, EmptyCache, NothingMirrored DEF CacheInv, MirrorShape, FlashInv
<1>5. MirrorFresh' /\ NoClobber
    BY <1>1, <1>2 DEF MirrorFresh, MayMirror, NoClobber
<1>6. QED
    BY <1>1, <1>3, <1>4, <1>5

(* A clearing that stops anywhere.                                         *)
LEMMA ClearFailsKeeps ==
    ASSUME RecordsInv, kind' = kind, ClearFails
    PROVE  RecordsInv' /\ NoClobber
<1> USE DEF RecordsInv
<1>1. /\ up' = up /\ cache' = <<>> /\ acked' = acked
      /\ mirror' = mirror /\ order' = order
    BY DEF ClearFails
<1>2. PICK left \in SUBSET Occupied(flash) :
          /\ flash' = [s \in Slots |-> IF s \in left THEN flash[s] ELSE Empty]
          /\ doubt' = doubt \cup (Persisted(flash) \ Persisted(flash'))
    BY DEF ClearFails
<1>3. /\ FlashTypes(flash')
      /\ Occupied(flash') \subseteq Occupied(flash)
      /\ \A k \in Keys \ (Persisted(flash) \ Persisted(flash')) :
             Stored(flash', k) = Stored(flash, k)
      /\ \A s \in Slots : flash'[s] # Empty => flash'[s] = flash[s]
    BY <1>2, KeepIs DEF FlashInv
<1>4. Persisted(flash) \subseteq Keys
    BY SlotHolds DEF FlashInv, Persisted, Occupied
<1>5. FlashInv'
    <2>1. Cardinality(Occupied(flash')) <= MaxEntries[kind]
        BY <1>3, FewerFit
    <2>2. QED
        BY <1>1, <1>2, <1>3, <1>4, <2>1 DEF FlashInv, AckedIsDurable
<1>6. CacheInv' /\ MirrorShape'
    BY <1>1, EmptyCache DEF CacheInv, MirrorShape
<1>7. MirrorFresh' /\ NoClobber
    BY <1>1, <1>2, <1>3 DEF MirrorFresh, MayMirror, NoClobber
<1>8. QED
    BY <1>1, <1>5, <1>6, <1>7

(* Power loss empties RAM.                                                 *)
LEMMA PowerLossKeeps ==
    ASSUME RecordsInv, kind' = kind, PowerLoss
    PROVE  RecordsInv' /\ NoClobber
<1> USE DEF RecordsInv
<1>1. /\ up' = FALSE /\ flash' = flash /\ cache' = <<>>
      /\ mirror' = [k \in Keys |-> NoValue] /\ order' = <<>>
      /\ acked' = acked /\ doubt' = doubt
    BY DEF PowerLoss, history
<1>2. FlashInv' /\ MirrorFresh' /\ NoClobber
    BY <1>1 DEF FlashInv, AckedIsDurable, MirrorFresh, NoClobber
<1>3. CacheInv' /\ MirrorShape'
    BY <1>1, EmptyCache, NothingMirrored DEF CacheInv, MirrorShape, FlashInv
<1>4. QED
    BY <1>1, <1>2, <1>3

(* What a walk of the namespace visits: each persisted key once.           *)
LEMMA WalkIs ==
    ASSUME NEW P, IsFiniteSet(P), NEW walk \in SetToSeqs(P)
    PROVE  walk \in Seq(P) /\ Distinct(walk) /\ ToSet(walk) = P
<1> DEFINE n == Cardinality(P)
<1>1. n \in Nat
    BY FS_CardinalityType
<1>2. walk \in [1..n -> P] /\ \A i, j \in 1..n : i # j => walk[i] # walk[j]
    BY DEF SetToSeqs
<1>3. IsFiniteSet(1..n) /\ Cardinality(1..n) = n
    BY <1>1, FS_Interval
<1> HIDE DEF n
<1>4. walk \in Seq(P) /\ Len(walk) = n
    BY <1>1, <1>2, SeqDef, LenProperties
<1>5. Distinct(walk)
    BY <1>2, <1>4 DEF Distinct
<1>6. walk \in Injection(1..n, P)
    BY <1>2 DEF Injection, IsInjective
<1>7. walk \in Surjection(1..n, P)
    BY <1>3, <1>6, FS_Injection DEF n
<1>8. ToSet(walk) = P
    BY <1>2, <1>7 DEF Surjection, ToSet
<1>9. QED
    BY <1>4, <1>5, <1>8

(* The replay keeps no more records than it walks, or than the cap allows. *)
LEMMA ReplayedIs ==
    ASSUME kind \in Kinds, NEW walk \in Seq(Keys)
    PROVE  /\ Replayed(walk) \in 0..Len(walk)
           /\ kind = "prekey" => Replayed(walk) = Len(walk)
           /\ kind # "prekey" => Replayed(walk) <= MirrorCap[kind]
<1>1. Len(walk) \in Nat /\ MirrorCap[kind] \in Nat
    BY LenProperties, RecordsAssumption
<1>2. \A a, b \in Nat : Min({a, b}) = IF a <= b THEN a ELSE b
    BY DEF Min
<1>3. QED
    BY <1>1, <1>2 DEF Replayed

(* The store opens: RAM is rebuilt from flash, and flash settles doubts.   *)
LEMMA OpenKeeps ==
    ASSUME RecordsInv, kind' = kind, Open
    PROVE  RecordsInv' /\ NoClobber
<1> USE DEF RecordsInv
<1>1. /\ up' = TRUE /\ flash' = flash /\ cache' = cache /\ doubt' = {}
      /\ acked' = [k \in Keys |-> IF k \in doubt THEN Stored(flash, k) ELSE acked[k]]
    BY DEF Open
<1>2. PICK walk \in SetToSeqs(Persisted(flash)) : Replay(walk, Replayed(walk))
    BY DEF Open
<1>3. Persisted(flash) \subseteq Keys /\ IsFiniteSet(Persisted(flash))
    <2>1. Persisted(flash) \subseteq Keys
        BY SlotHolds DEF FlashInv, Persisted, Occupied
    <2>2. QED
        BY <2>1, RecordsAssumption, FS_Subset
<1>4. walk \in Seq(Keys) /\ Distinct(walk) /\ ToSet(walk) = Persisted(flash)
    <2>1. walk \in Seq(Persisted(flash)) /\ Distinct(walk) /\ ToSet(walk) = Persisted(flash)
        BY <1>3, WalkIs
    <2>2. QED
        BY <1>3, <2>1, SeqMonotonic
<1> DEFINE n    == Replayed(walk)
           kept == SubSeq(walk, Len(walk) + 1 - n, Len(walk))
<1>5. /\ Len(walk) \in Nat /\ n \in 0..Len(walk)
      /\ kind = "prekey" => n = Len(walk)
      /\ kind # "prekey" => n <= MirrorCap[kind]
    BY <1>4, ReplayedIs, LenProperties DEF FlashInv
<1>6. /\ order' = (IF kind = "prekey" THEN <<>> ELSE kept)
      /\ mirror' = [k \in Keys |-> IF k \in ToSet(kept) THEN Stored(flash, k) ELSE NoValue]
    BY <1>2 DEF Replay
<1> HIDE DEF n
<1>7. /\ kept \in Seq(Keys) /\ Distinct(kept) /\ Len(kept) = n
      /\ ToSet(kept) \subseteq Persisted(flash)
      /\ kind = "prekey" => ToSet(kept) = Persisted(flash)
    <2>1. Len(walk) - n \in 0..Len(walk) /\ Len(walk) + 1 - n = Len(walk) - n + 1
        BY <1>5
    <2> DEFINE front == SubSeq(walk, 1, Len(walk) - n)
               rest  == SubSeq(walk, Len(walk) - n + 1, Len(walk))
    <2>2. /\ rest \in Seq(Keys) /\ Distinct(rest)
          /\ Len(rest) = Len(walk) - (Len(walk) - n)
          /\ ToSet(rest) = ToSet(walk) \ ToSet(front)
        BY <1>4, <2>1, DropFront
    <2>3. kept = rest
        BY <2>1
    <2>4. ASSUME kind = "prekey"
          PROVE  ToSet(front) = {}
        <3>1. front = <<>>
            BY <1>5, <2>4, SubSeqEmpty
        <3> HIDE DEF front
        <3>2. QED
            BY <3>1 DEF ToSet
    <2> HIDE DEF kept, front, rest
    <2>5. Len(rest) = n
        BY <1>5, <2>2
    <2>6. QED
        BY <1>4, <2>2, <2>3, <2>4, <2>5
<1> HIDE DEF kept
<1>8. \A k \in Keys : k \in Persisted(flash) <=> Stored(flash, k) # NoValue
    BY PersistedIs DEF FlashInv
<1>9. \A k \in Keys : Stored(flash, k) \in Values \cup {NoValue}
    BY StoredType DEF FlashInv
<1>10. FlashInv'
    BY <1>1, <1>9 DEF FlashInv, AckedIsDurable
<1>11. CacheInv' /\ NoClobber
    BY <1>1 DEF CacheInv, NoClobber
<1>12. MirrorShape'
    <2>1. mirror' \in [Keys -> Values \cup {NoValue}]
        BY <1>6, <1>9
    <2>2. CASE kind = "prekey"
        <3>1. Distinct(<<>>) /\ <<>> \in Seq(Keys)
            BY EmptySeq DEF Distinct
        <3>2. QED
            BY <1>6, <2>1, <2>2, <3>1 DEF MirrorShape, MirrorOf
    <2>3. CASE kind # "prekey"
        <3>1. Mirrored(mirror') = ToSet(kept)
            BY <1>3, <1>6, <1>7, <1>8 DEF Mirrored
        <3>2. QED
            BY <1>5, <1>6, <1>7, <2>1, <2>3, <3>1 DEF MirrorShape, MirrorOf
    <2>4. QED
        BY <2>2, <2>3
<1>13. MirrorFresh'
    BY <1>1, <1>6, <1>7, <1>8 DEF MirrorFresh, MayMirror
<1>14. QED
    BY <1>1, <1>10, <1>11, <1>12, <1>13

-----------------------------------------------------------------------------
(* The theorems.                                                           *)

(* An empty store satisfies the invariant.                                 *)
LEMMA RecordsInit == Init => RecordsInv
<1> SUFFICES ASSUME Init PROVE RecordsInv
    OBVIOUS
<1>1. /\ kind \in Kinds /\ up = TRUE /\ flash = [s \in Slots |-> Empty] /\ cache = <<>>
      /\ mirror = [k \in Keys |-> NoValue] /\ order = <<>>
      /\ acked = [k \in Keys |-> NoValue] /\ doubt = {}
    BY DEF Init
<1>2. /\ FlashTypes(flash) /\ Occupied(flash) = {}
      /\ \A k \in Keys : Stored(flash, k) = NoValue
    BY <1>1, ErasedFlash
<1>3. FlashInv
    <2>1. Cardinality(Occupied(flash)) = 0 /\ MaxEntries[kind] \in Nat
        BY <1>1, <1>2, FS_EmptySet, RecordsAssumption
    <2>2. QED
        BY <1>1, <1>2, <2>1 DEF FlashInv, AckedIsDurable
<1>4. CacheInv /\ MirrorShape
    BY <1>1, EmptyCache, NothingMirrored DEF CacheInv, MirrorShape
<1>5. MirrorFresh
    BY <1>1, <1>2 DEF MirrorFresh, MayMirror
<1>6. QED
    BY <1>1, <1>3, <1>4, <1>5 DEF RecordsInv

(* Every step keeps the invariant and clobbers nothing.                    *)
LEMMA RecordsStep == RecordsInv /\ [Next]_vars => RecordsInv' /\ (NoClobber \/ UNCHANGED vars)
<1> SUFFICES ASSUME RecordsInv, [Next]_vars
             PROVE  RecordsInv' /\ (NoClobber \/ UNCHANGED vars)
    OBVIOUS
<1>1. CASE UNCHANGED vars
    <2>1. /\ kind' = kind /\ flash' = flash /\ mirror' = mirror /\ order' = order
          /\ cache' = cache /\ up' = up /\ acked' = acked /\ doubt' = doubt
        BY <1>1 DEF vars, ram, history
    <2>2. QED
        BY <1>1, <2>1 DEF RecordsInv, FlashInv, AckedIsDurable, CacheInv,
                          MirrorShape, MirrorFresh, MayMirror
<1>2. CASE Next
    <2>1. kind' = kind
        BY <1>2 DEF Next
    <2>2. CASE Write
        BY <2>1, <2>2, PutOkKeeps, PutFailsKeeps DEF Write
    <2>3. CASE Delete
        BY <2>1, <2>3, DeleteOkKeeps, DeleteFailsKeeps DEF Delete
    <2>4. CASE Clear
        BY <2>1, <2>4, ClearOkKeeps, ClearFailsKeeps DEF Clear
    <2>5. CASE PowerLoss
        BY <2>1, <2>5, PowerLossKeeps
    <2>6. CASE Open
        BY <2>1, <2>6, OpenKeeps
    <2>7. CASE \E k \in Keys : Load(k)
        BY <2>1, <2>7, LoadKeeps
    <2>8. QED
        BY <1>2, <2>2, <2>3, <2>4, <2>5, <2>6, <2>7 DEF Next
<1>3. QED
    BY <1>1, <1>2

(* Flash, the cache of validated slots and the mirror stay true to one     *)
(* another and to what was acknowledged.                                   *)
THEOREM RecordsInvariance == Spec => []RecordsInv
<1>1. RecordsInv /\ [Next]_vars => RecordsInv'
    BY RecordsStep
<1>2. QED
    BY <1>1, RecordsInit, PTL DEF Spec

(* No write, acknowledged or failed, lands on the record of another key,   *)
(* whichever keys record_name makes collide and whether check_record_slot  *)
(* answered from flash or from the cache.                                  *)
THEOREM WritesNeverClobber == Spec => NeverClobbers
<1>1. RecordsInv /\ [Next]_vars =>
          [\A s \in Slots :
              flash[s] # Empty /\ flash'[s] # Empty => flash'[s].key = flash[s].key]_vars
    BY RecordsStep DEF NoClobber
<1>2. QED
    BY <1>1, RecordsInvariance, PTL DEF Spec, NeverClobbers

(* Flash keeps the last value that a put or a delete acknowledged, of each *)
(* key whose last write did not fail, through errors and power losses.     *)
THEOREM AckedStaysDurable == Spec => []AckedIsDurable
<1>1. RecordsInv => AckedIsDurable
    BY DEF RecordsInv, FlashInv
<1>2. QED
    BY <1>1, RecordsInvariance, PTL

(* Every variable is typed, and the namespace stays within the budget that *)
(* visit_records enforces when the store is opened.                        *)
THEOREM StoreCanReopen == Spec => []CanReopen
<1>1. RecordsInv => CanReopen
    <2> SUFFICES ASSUME RecordsInv PROVE CanReopen
        OBVIOUS
    <2>1. order \in BoundedSeq(Keys, Cardinality(Keys))
        <3>1. /\ order \in Seq(Keys) /\ Distinct(order) /\ Len(order) \in Nat
              /\ order \in [1..Len(order) -> Keys]
            BY LenProperties DEF RecordsInv, MirrorShape, MirrorOf
        <3>2. ToSet(order) \subseteq Keys
            BY <3>1, LenProperties DEF ToSet
        <3>3. Cardinality(Keys) \in Nat /\ Len(order) <= Cardinality(Keys)
            BY <3>1, <3>2, DistinctLength, FS_Subset, FS_CardinalityType, RecordsAssumption
        <3>4. QED
            BY <3>1, <3>3 DEF BoundedSeq, SeqOf
    <2>2. cache \in BoundedSeq([slot : Slots, key : Keys], CacheCap)
        <3>1. /\ Len(cache) \in Nat /\ Len(cache) <= CacheCap
              /\ cache \in [1..Len(cache) -> Validated]
            BY LenProperties DEF RecordsInv, CacheInv, CacheOf
        <3>2. Len(cache) \in 0..CacheCap
            BY <3>1, RecordsAssumption
        <3>3. cache \in BoundedSeq(Validated, CacheCap)
            BY <3>1, <3>2 DEF BoundedSeq, SeqOf
        <3>4. QED
            BY <3>3 DEF Validated
    <2>3. QED
        BY <2>1, <2>2 DEF RecordsInv, FlashInv, FlashTypes, MirrorShape, MirrorOf,
                          CanReopen, TypeOK
<1>2. QED
    BY <1>1, RecordsInvariance, PTL

(* The mirror that the loads ask first answers with what flash holds, and  *)
(* enforce_*_cap finds in the use order exactly the mirrored keys.         *)
THEOREM MirrorStaysFresh == Spec => []MirrorIsFresh
<1>1. RecordsInv => MirrorIsFresh
    BY DistinctLength DEF RecordsInv, MirrorShape, MirrorOf, MirrorFresh, MayMirror,
                          MirrorIsFresh
<1>2. QED
    BY <1>1, RecordsInvariance, PTL

-----------------------------------------------------------------------------
(* SyncKeys: the app-state sync keys of the same store.                    *)

(* Order o lists the ids of m, which is at most one over the cap.          *)
Lists(o, m) ==
    /\ o \in Seq(Ids) /\ Distinct(o) /\ ToSet(o) = m
    /\ Len(o) <= SyncMirrorCap + 1

LatestHeld == latest # NoId => latest \in syncMirror \cap syncFlash

(* What the durable marker says: the set under way, if there is one; else, *)
(* unless a set failed since, the last one acknowledged.                   *)
MarkerTrue ==
    /\ writing # NoId => syncUp /\ syncDoubt /\ marker = writing
    /\ ~syncDoubt =>
         /\ marker = lastSet
         /\ IF lastSet = NoId THEN syncFlash = {} ELSE lastSet \in syncFlash
         /\ syncUp => latest = lastSet

(* The boot replay at any record: it has mirrored only what it has walked, *)
(* and its best guess among that.                                          *)
Walked ==
    IF syncUp THEN seen = {}
    ELSE /\ latest = NoId
         /\ syncMirror \subseteq seen
         /\ IF seen = {} THEN best = NoId
            ELSE best \in syncMirror /\ \A id \in seen : TimeOf[id] <= TimeOf[best]

SyncInv ==
    SyncTypeOK /\ Lists(syncOrder, syncMirror) /\ LatestHeld /\ MarkerTrue /\ Walked

(* One element before a sequence that does not have it.                    *)
LEMMA PrependIs ==
    ASSUME NEW S, NEW s \in Seq(S), Distinct(s), NEW e \in S, e \notin ToSet(s)
    PROVE  LET t == <<e>> \o s
           IN  /\ t \in Seq(S) /\ Distinct(t) /\ ToSet(t) = {e} \cup ToSet(s)
               /\ Len(t) = Len(s) + 1
<1> DEFINE t == <<e>> \o s
<1>1. <<e>> \in Seq(S) /\ Len(<<e>>) = 1 /\ <<e>>[1] = e
    OBVIOUS
<1>2. Len(s) \in Nat /\ DOMAIN s = 1..Len(s)
    BY LenProperties
<1>3. /\ t \in Seq(S) /\ Len(t) = 1 + Len(s)
      /\ \A i \in 1..1 + Len(s) : t[i] = IF i <= 1 THEN <<e>>[i] ELSE s[i - 1]
    BY <1>1, ConcatProperties
<1> HIDE DEF t
<1>4. DOMAIN t = 1..Len(s) + 1 /\ t[1] = e /\ \A i \in 2..Len(s) + 1 : t[i] = s[i - 1]
    BY <1>1, <1>2, <1>3, LenProperties
<1>5. \A i \in 1..Len(s) : s[i] # e /\ i + 1 \in 2..Len(s) + 1 /\ t[i + 1] = s[i]
    BY <1>2, <1>4 DEF ToSet
<1>6. \A i \in 1..Len(s) + 1 : i = 1 \/ (i \in 2..Len(s) + 1 /\ i - 1 \in 1..Len(s))
    BY <1>2
<1>7. Distinct(t)
    <2> SUFFICES ASSUME NEW i \in 1..Len(s) + 1, NEW j \in 1..Len(s) + 1, t[i] = t[j]
                 PROVE  i = j
        BY <1>2, <1>3 DEF Distinct
    <2>1. CASE i = 1 \/ j = 1
        BY <1>4, <1>5, <1>6, <2>1
    <2>2. CASE i # 1 /\ j # 1
        <3>1. i - 1 \in 1..Len(s) /\ j - 1 \in 1..Len(s) /\ s[i - 1] = s[j - 1]
            BY <1>4, <1>6, <2>2
        <3>2. i - 1 = j - 1
            BY <3>1 DEF Distinct
        <3>3. QED
            BY <1>2, <3>2
    <2>3. QED
        BY <2>1, <2>2
<1>8. ToSet(t) = {e} \cup ToSet(s)
    <2>1. \A i \in 1..Len(s) + 1 : t[i] \in {e} \cup ToSet(s)
        BY <1>2, <1>4, <1>6 DEF ToSet
    <2>2. e \in ToSet(t) /\ \A i \in 1..Len(s) : s[i] \in ToSet(t)
        BY <1>2, <1>4, <1>5 DEF ToSet
    <2>3. QED
        BY <1>2, <1>4, <2>1, <2>2 DEF ToSet
<1>9. QED
    BY <1>2, <1>3, <1>7, <1>8 DEF t

(* Insert: the mirror gains id, gives up some of the oldest but never the  *)
(* protected, and stays listed.                                            *)
LEMMA InsertIs ==
    ASSUME NEW m, NEW o, Lists(o, m), NEW id \in Ids, NEW p
    PROVE  LET r == Insert(m, o, id, p)
           IN  /\ Lists(r.order, r.mirror)
               /\ r.mirror \subseteq m \cup {id}
               /\ p \in m \cup {id} => p \in r.mirror
<1> DEFINE recent == Touched(o, id)
           all    == m \cup {id}
           cap    == SyncMirrorCap
           n      == IF Len(recent) > cap THEN Len(recent) - cap ELSE 0
           oldest == SubSeq(recent, 1, n)
           rest   == SubSeq(recent, n + 1, Len(recent))
           gone   == ToSet(oldest) \ {p}
           spared == IF p \in ToSet(oldest) \ gone THEN <<p>> ELSE <<>>
<1>1. /\ recent \in Seq(Ids) /\ Distinct(recent) /\ ToSet(recent) = all
    BY TouchedIs DEF Lists
<1> HIDE DEF recent, all
<1>2. cap \in Nat /\ Len(recent) \in Nat /\ n \in 0..Len(recent)
    BY <1>1, LenProperties, SyncKeysAssumption
<1>3. Cardinality(all) = Len(recent)
    BY <1>1, DistinctLength
<1>4. Overflow(recent, Cardinality(all), cap) = oldest
    <2>1. CASE Len(recent) > cap
        BY <1>3, <2>1 DEF Overflow
    <2>2. CASE ~(Len(recent) > cap)
        BY <1>3, <2>2, SubSeqEmpty DEF Overflow
    <2>3. QED
        BY <2>1, <2>2
<1>5. /\ rest \in Seq(Ids) /\ Distinct(rest)
      /\ Len(oldest) = n /\ Len(rest) = Len(recent) - n
      /\ ToSet(rest) = all \ ToSet(oldest)
    <2> HIDE DEF n, cap
    <2>1. QED
        BY <1>1, <1>2, DropFront
<1>6. Len(rest) <= cap
    BY <1>2, <1>5
<1>7. ToSet(oldest) \subseteq all
    <2>1. oldest \in Seq(all)
        <3>1. recent \in Seq(all) /\ \A i \in 1..n : recent[i] \in all
            BY <1>1, <1>2, LenProperties, SeqDef DEF ToSet
        <3>2. QED
            BY <1>2, <3>1, SubSeqProperties
    <2>2. QED
        BY <2>1, LenProperties DEF ToSet
<1> DEFINE r == Insert(m, o, id, p)
<1>8. r.mirror = all \ gone /\ r.order = spared \o rest
    <2> HIDE DEF rest, oldest, n
    <2>1. Victims(all, recent, p) = gone
        BY <1>4 DEF Victims
    <2>2. Overflow(recent, Cardinality(all), cap) = oldest
        BY <1>4
    <2>3. rest = SubSeq(recent, Len(oldest) + 1, Len(recent))
        BY <1>5 DEF rest
    <2>4. QED
        BY <2>1, <2>2, <2>3 DEF Insert, all, recent
<1> HIDE DEF r, rest, oldest, n, cap
<1>9. CASE p \in ToSet(oldest)
    <2>1. spared = <<p>> /\ p \in Ids /\ p \notin ToSet(rest)
        <3>1. p \in all /\ p \notin ToSet(rest)
            BY <1>5, <1>7, <1>9
        <3>2. p \in Ids
            BY <1>1, <3>1, LenProperties DEF ToSet
        <3>3. QED
            BY <1>9, <3>1, <3>2
    <2>2. /\ r.order \in Seq(Ids) /\ Distinct(r.order)
          /\ ToSet(r.order) = {p} \cup ToSet(rest) /\ Len(r.order) = Len(rest) + 1
        BY <1>5, <1>8, <2>1, PrependIs
    <2>3. {p} \cup ToSet(rest) = all \ gone
        BY <1>5, <1>7, <1>9
    <2>4. Len(r.order) <= cap + 1
        BY <1>2, <1>5, <1>6, <2>2
    <2>5. QED
        BY <1>8, <1>9, <2>2, <2>3, <2>4 DEF Lists, all, r, cap
<1>10. CASE p \notin ToSet(oldest)
    <2>1. spared \o rest = rest
        BY <1>5, <1>10, ConcatEmptySeq
    <2>2. gone = ToSet(oldest) /\ Len(rest) <= cap + 1
        BY <1>2, <1>5, <1>6, <1>10
    <2>3. QED
        BY <1>5, <1>8, <1>10, <2>1, <2>2 DEF Lists, all, r, cap
<1>11. QED
    BY <1>9, <1>10

(* An order that is empty, and one that lists a single key.                *)
LEMMA ShortLists ==
    Lists(<<>>, {}) /\ \A id \in Ids : Lists(<<id>>, {id})
<1>1. SyncMirrorCap \in Nat
    BY SyncKeysAssumption
<1>2. Lists(<<>>, {})
    BY <1>1 DEF Lists, Distinct, ToSet
<1>3. ASSUME NEW id \in Ids
      PROVE  Lists(<<id>>, {id})
    BY <1>1 DEF Lists, Distinct, ToSet
<1>4. QED
    BY <1>2, <1>3

(* Settle: what open leaves mirrored is listed and has the key it settled  *)
(* on, if there is one.                                                    *)
LEMMA SettleIs ==
    ASSUME Lists(syncOrder, syncMirror),
           NEW id \in syncFlash \cup {NoId}, syncFlash \subseteq Ids, Settle(id)
    PROVE  Lists(syncOrder', syncMirror') /\ (id # NoId => id \in syncMirror')
<1> DEFINE missing == id \in syncFlash \ syncMirror
           loaded  == IF missing THEN syncMirror \cup {id} ELSE syncMirror
           recent  == IF missing THEN Touched(syncOrder, id) ELSE syncOrder
<1>1. NoId \notin Ids /\ SyncMirrorCap \in Nat
    BY SyncKeysAssumption
<1>2. recent \in Seq(Ids) /\ Distinct(recent) /\ ToSet(recent) = loaded
    <2>1. CASE missing
        <3>1. id \in Ids /\ syncOrder \in Seq(Ids) /\ Distinct(syncOrder)
            BY <2>1 DEF Lists
        <3>2. /\ Touched(syncOrder, id) \in Seq(Ids) /\ Distinct(Touched(syncOrder, id))
              /\ ToSet(Touched(syncOrder, id)) = ToSet(syncOrder) \cup {id}
            BY <3>1, TouchedIs
        <3>3. QED
            BY <2>1, <3>2 DEF Lists
    <2>2. CASE ~missing
        BY <2>2 DEF Lists
    <2>3. QED
        BY <2>1, <2>2
<1>3. id # NoId => id \in loaded
    OBVIOUS
<1>4. IF Cardinality(loaded) > SyncMirrorCap
      THEN syncMirror' = {id} \ {NoId} /\ syncOrder' = IF id = NoId THEN <<>> ELSE <<id>>
      ELSE syncMirror' = loaded /\ syncOrder' = recent
    BY DEF Settle
<1> HIDE DEF missing, loaded, recent
<1>5. Cardinality(loaded) = Len(recent) /\ Len(recent) \in Nat
    BY <1>2, DistinctLength, LenProperties
<1>6. CASE Cardinality(loaded) > SyncMirrorCap
    <2>1. CASE id = NoId
        BY <1>4, <1>6, <2>1, ShortLists
    <2>2. CASE id # NoId
        <3>1. syncMirror' = {id} /\ syncOrder' = <<id>> /\ id \in Ids
            BY <1>4, <1>6, <2>2
        <3>2. QED
            BY <3>1, ShortLists
    <2>3. QED
        BY <2>1, <2>2
<1>7. CASE ~(Cardinality(loaded) > SyncMirrorCap)
    BY <1>1, <1>2, <1>3, <1>4, <1>5, <1>7 DEF Lists
<1>8. QED
    BY <1>6, <1>7

(* get_sync_key loads a key or uses a mirrored one: latest is spared.      *)
LEMMA GetKeeps ==
    ASSUME SyncInv, NEW id \in Ids,
           Hit(id) \/ Miss(id)
    PROVE  SyncInv'
<1>1. /\ syncFlash' = syncFlash /\ marker' = marker /\ latest' = latest /\ writing' = writing
      /\ syncUp /\ syncUp' = syncUp /\ seen' = seen /\ best' = best /\ lastSet' = lastSet
      /\ syncDoubt' = syncDoubt
    BY DEF Hit, Miss, syncDurable, boot
<1>2. CASE Hit(id)
    <2>1. syncMirror' = syncMirror /\ id \in syncMirror /\ syncOrder' = Touched(syncOrder, id)
        BY <1>2 DEF Hit
    <2> DEFINE t == Touched(syncOrder, id)
    <2>2. /\ syncOrder \in Seq(Ids) /\ Distinct(syncOrder) /\ ToSet(syncOrder) = syncMirror
          /\ Len(syncOrder) <= SyncMirrorCap + 1
        BY DEF SyncInv, Lists
    <2>3. /\ t \in Seq(Ids) /\ Distinct(t) /\ ToSet(t) = ToSet(syncOrder) \cup {id}
          /\ Len(t) = Len(syncOrder)
        BY <2>1, <2>2, TouchedIs
    <2> HIDE DEF t
    <2>4. Lists(t, syncMirror)
        BY <2>1, <2>2, <2>3 DEF Lists
    <2>5. QED
        BY <1>1, <2>1, <2>4 DEF t, SyncInv, SyncTypeOK, Lists, LatestHeld, MarkerTrue, Walked
<1>3. CASE Miss(id)
    <2> DEFINE r == Insert(syncMirror, syncOrder, id, latest)
    <2>1. syncMirror' = r.mirror /\ syncOrder' = r.order
        BY <1>3 DEF Miss
    <2>2. /\ Lists(r.order, r.mirror) /\ r.mirror \subseteq syncMirror \cup {id}
          /\ latest \in syncMirror \cup {id} => latest \in r.mirror
        BY InsertIs DEF SyncInv
    <2> HIDE DEF r
    <2>3. QED
        BY <1>1, <2>1, <2>2 DEF SyncInv, SyncTypeOK, Lists, LatestHeld, MarkerTrue, Walked
<1>4. QED
    BY <1>2, <1>3

(* set_sync_key writes the marker, or fails to: doubt covers what follows. *)
LEMMA SetMarkerKeeps ==
    ASSUME SyncInv, NEW id \in Ids,
           SetMarker(id) \/ SetMarkerFails(id)
    PROVE  SyncInv'
<1>1. /\ syncFlash' = syncFlash /\ syncMirror' = syncMirror /\ syncOrder' = syncOrder
      /\ latest' = latest /\ syncUp /\ syncUp' = syncUp /\ seen' = seen /\ best' = best
      /\ lastSet' = lastSet /\ syncDoubt' = TRUE
    BY DEF SetMarker, SetMarkerFails, syncRam, boot
<1>2. \/ marker' = id /\ writing' = id
      \/ marker' \in {marker, id} /\ writing' = writing /\ writing = NoId
    BY DEF SetMarker, SetMarkerFails
<1>3. QED
    BY <1>1, <1>2 DEF SyncInv, SyncTypeOK, Lists, LatestHeld, MarkerTrue, Walked

(* The record is written, and RAM names what the marker does.              *)
LEMMA SetRecordKeeps ==
    ASSUME SyncInv, SetRecord
    PROVE  SyncInv'
<1> DEFINE r == Insert(syncMirror, syncOrder, writing, writing)
<1>1. /\ syncFlash' = syncFlash \cup {writing} /\ latest' = writing /\ writing # NoId
      /\ syncMirror' = r.mirror /\ syncOrder' = r.order /\ lastSet' = writing
      /\ syncDoubt' = FALSE /\ writing' = NoId /\ marker' = marker /\ syncUp' = syncUp
      /\ seen' = seen /\ best' = best
    BY DEF SetRecord, boot
<1>2. writing \in Ids /\ syncUp /\ marker = writing
    BY <1>1 DEF SyncInv, SyncTypeOK, MarkerTrue
<1>3. /\ Lists(r.order, r.mirror) /\ r.mirror \subseteq syncMirror \cup {writing}
      /\ writing \in r.mirror
    BY <1>2, InsertIs DEF SyncInv
<1> HIDE DEF r
<1>4. QED
    BY <1>1, <1>2, <1>3 DEF SyncInv, SyncTypeOK, Lists, LatestHeld, MarkerTrue, Walked

(* The record was not written, or so it was reported.                      *)
LEMMA SetRecordFailsKeeps ==
    ASSUME SyncInv, SetRecordFails
    PROVE  SyncInv'
<1>1. /\ syncFlash' \in {syncFlash, syncFlash \cup {writing}} /\ writing # NoId
      /\ writing' = NoId /\ marker' = marker /\ syncUp' = syncUp /\ seen' = seen
      /\ best' = best /\ syncMirror' = syncMirror /\ syncOrder' = syncOrder
      /\ latest' = latest /\ lastSet' = lastSet /\ syncDoubt' = syncDoubt
    BY DEF SetRecordFails, syncRam, boot
<1>2. writing \in Ids /\ syncUp /\ syncDoubt
    BY <1>1 DEF SyncInv, SyncTypeOK, MarkerTrue
<1>3. QED
    BY <1>1, <1>2 DEF SyncInv, SyncTypeOK, Lists, LatestHeld, MarkerTrue, Walked

(* Power is lost, in use or at any record of the replay.                   *)
LEMMA SyncPowerLossKeeps ==
    ASSUME SyncInv, SyncPowerLoss
    PROVE  SyncInv'
<1>1. /\ syncFlash' = syncFlash /\ marker' = marker /\ syncUp' = FALSE
      /\ syncMirror' = {} /\ syncOrder' = <<>> /\ latest' = NoId /\ writing' = NoId
      /\ seen' = {} /\ best' = NoId /\ lastSet' = lastSet /\ syncDoubt' = syncDoubt
    BY DEF SyncPowerLoss, syncDurable
<1>2. QED
    BY <1>1, ShortLists DEF SyncInv, SyncTypeOK, Lists, LatestHeld, MarkerTrue, Walked

(* One more record of the replay: the best guess stays mirrored.           *)
LEMMA ReplayKeeps ==
    ASSUME SyncInv, NEW id \in Ids, ReplayNext(id)
    PROVE  SyncInv'
<1> DEFINE newest == Newest(id)
           r      == Insert(syncMirror, syncOrder, id, newest)
<1>1. /\ ~syncUp /\ syncUp' = syncUp /\ id \in syncFlash /\ seen' = seen \cup {id}
      /\ syncMirror' = r.mirror /\ syncOrder' = r.order /\ best' = newest
      /\ syncFlash' = syncFlash /\ marker' = marker /\ latest' = latest
      /\ writing' = writing /\ lastSet' = lastSet /\ syncDoubt' = syncDoubt
    BY DEF ReplayNext, Opening, syncDurable
<1>2. /\ latest = NoId /\ syncMirror \subseteq seen /\ seen \subseteq syncFlash
      /\ seen # {} => best \in syncMirror /\ \A x \in seen : TimeOf[x] <= TimeOf[best]
      /\ TimeOf \in [Ids -> Nat] /\ syncFlash \subseteq Ids
    BY <1>1, SyncKeysAssumption DEF SyncInv, Walked, SyncTypeOK
<1>3. newest = IF best \notin syncMirror \/ TimeOf[id] >= TimeOf[best] THEN id ELSE best
    BY DEF Newest
<1>4. newest \in syncMirror \cup {id} /\ newest \in seen \cup {id}
    BY <1>2, <1>3
<1>5. \A x \in seen \cup {id} : TimeOf[x] <= TimeOf[newest]
    <2>1. CASE newest = id
        <3>1. \A x \in seen : TimeOf[x] <= TimeOf[id]
            BY <1>2, <1>3, <2>1
        <3>2. QED
            BY <1>2, <2>1, <3>1
    <2>2. CASE newest # id
        BY <1>2, <1>3, <2>2
    <2>3. QED
        BY <2>1, <2>2
<1> HIDE DEF newest
<1>6. /\ Lists(r.order, r.mirror) /\ r.mirror \subseteq syncMirror \cup {id}
      /\ newest \in r.mirror
    BY <1>4, InsertIs DEF SyncInv
<1> HIDE DEF r
<1>7. Lists(syncOrder', syncMirror') /\ SyncTypeOK'
    BY <1>1, <1>2, <1>4, <1>6 DEF SyncInv, SyncTypeOK, Lists
<1>8. Walked'
    BY <1>1, <1>2, <1>4, <1>5, <1>6 DEF Walked
<1>9. LatestHeld' /\ MarkerTrue'
    BY <1>1, <1>2 DEF SyncInv, LatestHeld, MarkerTrue
<1>10. QED
    BY <1>7, <1>8, <1>9 DEF SyncInv

(* What is listed is a set of keys.                                        *)
LEMMA ListsTypes ==
    ASSUME NEW o, NEW m, Lists(o, m)
    PROVE  o \in Seq(Ids) /\ m \subseteq Ids
    BY LenProperties DEF Lists, ToSet

(* NvsStore::open returns: the recorded key if it is there, else a newest  *)
(* of all that were walked.                                                *)
LEMMA OpenWithIs ==
    ASSUME SyncInv, NEW recorded, OpenWith(recorded)
    PROVE  /\ ~syncUp /\ syncUp' /\ Lists(syncOrder', syncMirror') /\ LatestHeld'
           /\ latest' \in syncFlash \cup {NoId}
           /\ recorded \in syncFlash => latest' = recorded
           /\ syncFlash = {} => latest' = NoId
           /\ recorded \notin syncFlash =>
                \A id \in syncFlash : TimeOf[id] <= TimeOf[latest']
           /\ syncFlash' = syncFlash /\ marker' = marker /\ writing' = writing
           /\ lastSet' = lastSet /\ seen' = {} /\ best' = NoId
<1>1. /\ ~syncUp /\ syncUp' = TRUE /\ seen = syncFlash /\ latest' = ChooseLatest(recorded)
      /\ Settle(ChooseLatest(recorded)) /\ seen' = {} /\ best' = NoId
      /\ syncFlash' = syncFlash /\ marker' = marker /\ writing' = writing
      /\ lastSet' = lastSet
    BY DEF OpenWith, Opening, syncDurable
<1>2. latest' = IF recorded \in syncFlash THEN recorded ELSE best
    BY <1>1 DEF ChooseLatest
<1>3. /\ IF syncFlash = {} THEN best = NoId
         ELSE best \in syncFlash /\ \A id \in syncFlash : TimeOf[id] <= TimeOf[best]
      /\ syncFlash \subseteq Ids
    BY <1>1 DEF SyncInv, Walked, SyncTypeOK
<1>4. latest' \in syncFlash \cup {NoId}
    BY <1>2, <1>3
<1>5. Lists(syncOrder', syncMirror') /\ (latest' # NoId => latest' \in syncMirror')
    BY <1>1, <1>3, <1>4, SettleIs DEF SyncInv
<1>6. LatestHeld'
    BY <1>1, <1>4, <1>5 DEF LatestHeld
<1>7. QED
    BY <1>1, <1>2, <1>3, <1>4, <1>5, <1>6

(* What a boot may conclude when the marker cannot be trusted.             *)
NewestAtOpen ==
    syncUp' /\ ~syncUp /\ latest' # marker =>
        \A id \in syncFlash : TimeOf[id] <= TimeOf[latest']

(* Either way of opening leaves the invariant true.                        *)
LEMMA SyncOpenKeeps ==
    ASSUME SyncInv, OpenReadable \/ OpenUnreadable
    PROVE  SyncInv' /\ NewestAtOpen
<1>1. CASE OpenReadable
    <2>1. OpenWith(marker) /\ syncDoubt' = syncDoubt
        BY <1>1 DEF OpenReadable
    <2>2. /\ ~syncUp /\ syncUp' /\ Lists(syncOrder', syncMirror') /\ LatestHeld'
          /\ latest' \in syncFlash \cup {NoId}
          /\ marker \in syncFlash => latest' = marker
          /\ syncFlash = {} => latest' = NoId
          /\ marker \notin syncFlash => \A id \in syncFlash : TimeOf[id] <= TimeOf[latest']
          /\ syncFlash' = syncFlash /\ marker' = marker /\ writing' = writing
          /\ lastSet' = lastSet /\ seen' = {} /\ best' = NoId
        BY <2>1, OpenWithIs
    <2>3. MarkerTrue' /\ Walked' /\ NewestAtOpen
        BY <2>1, <2>2 DEF SyncInv, MarkerTrue, Walked, NewestAtOpen
    <2>4. QED
        BY <2>1, <2>2, <2>3, ListsTypes DEF SyncInv, SyncTypeOK
<1>2. CASE OpenUnreadable
    <2>1. OpenWith(NoId) /\ syncDoubt' = TRUE
        BY <1>2 DEF OpenUnreadable
    <2>2. /\ ~syncUp /\ syncUp' /\ Lists(syncOrder', syncMirror') /\ LatestHeld'
          /\ latest' \in syncFlash \cup {NoId}
          /\ syncFlash = {} => latest' = NoId
          /\ NoId \notin syncFlash => \A id \in syncFlash : TimeOf[id] <= TimeOf[latest']
          /\ syncFlash' = syncFlash /\ marker' = marker /\ writing' = writing
          /\ lastSet' = lastSet /\ seen' = {} /\ best' = NoId
        BY <2>1, OpenWithIs
    <2>3. MarkerTrue' /\ Walked' /\ NewestAtOpen
        BY <2>1, <2>2, SyncKeysAssumption DEF SyncInv, MarkerTrue, Walked, NewestAtOpen,
                                              SyncTypeOK
    <2>4. QED
        BY <2>1, <2>2, <2>3, ListsTypes DEF SyncInv, SyncTypeOK
<1>3. QED
    BY <1>1, <1>2

(* A store without keys satisfies the invariant.                           *)
LEMMA SyncInitHolds ==
    ASSUME SyncInit
    PROVE  SyncInv
<1>1. /\ syncFlash = {} /\ marker = NoId /\ syncMirror = {} /\ syncOrder = <<>>
      /\ latest = NoId /\ writing = NoId /\ syncUp = TRUE /\ seen = {} /\ best = NoId
      /\ lastSet = NoId /\ syncDoubt = FALSE
    BY DEF SyncInit
<1>2. QED
    BY <1>1, ShortLists DEF SyncInv, SyncTypeOK, Lists, LatestHeld, MarkerTrue, Walked

(* Every step keeps the invariant, and only opening raises syncUp.         *)
LEMMA SyncStep ==
    ASSUME SyncInv, [SyncNext]_syncVars
    PROVE  SyncInv' /\ [NewestAtOpen]_syncVars
<1>1. CASE UNCHANGED syncVars
    <2>1. /\ syncFlash' = syncFlash /\ marker' = marker /\ syncMirror' = syncMirror
          /\ syncOrder' = syncOrder /\ latest' = latest /\ writing' = writing
          /\ syncUp' = syncUp /\ seen' = seen /\ best' = best /\ lastSet' = lastSet
          /\ syncDoubt' = syncDoubt
        BY <1>1 DEF syncVars, syncDurable, syncRam, boot
    <2>2. SyncInv'
        BY <2>1 DEF SyncInv, SyncTypeOK, Lists, LatestHeld, MarkerTrue, Walked
    <2>3. QED
        BY <1>1, <2>2
<1>2. CASE \E id \in Ids : Hit(id) \/ Miss(id)
    <2>1. syncUp' = syncUp
        BY <1>2 DEF Hit, Miss
    <2>2. QED
        BY <1>2, <2>1, GetKeeps DEF NewestAtOpen
<1>3. CASE \E id \in Ids : SetMarker(id) \/ SetMarkerFails(id)
    <2>1. syncUp' = syncUp
        BY <1>3 DEF SetMarker, SetMarkerFails
    <2>2. QED
        BY <1>3, <2>1, SetMarkerKeeps DEF NewestAtOpen
<1>4. CASE SetRecord
    <2>1. syncUp' = syncUp
        BY <1>4 DEF SetRecord
    <2>2. QED
        BY <1>4, <2>1, SetRecordKeeps DEF NewestAtOpen
<1>5. CASE SetRecordFails
    <2>1. syncUp' = syncUp
        BY <1>5 DEF SetRecordFails
    <2>2. QED
        BY <1>5, <2>1, SetRecordFailsKeeps DEF NewestAtOpen
<1>6. CASE SyncPowerLoss
    <2>1. syncUp' = FALSE
        BY <1>6 DEF SyncPowerLoss
    <2>2. QED
        BY <1>6, <2>1, SyncPowerLossKeeps DEF NewestAtOpen
<1>7. CASE \E id \in Ids : ReplayNext(id)
    <2>1. syncUp' = syncUp
        BY <1>7 DEF ReplayNext
    <2>2. QED
        BY <1>7, <2>1, ReplayKeeps DEF NewestAtOpen
<1>8. CASE OpenReadable \/ OpenUnreadable
    BY <1>8, SyncOpenKeeps
<1>9. QED
    BY <1>1, <1>2, <1>3, <1>4, <1>5, <1>6, <1>7, <1>8 DEF SyncNext

(* The sync keys in flash, in RAM and in the boot replay agree, for every  *)
(* set of ids, every timestamp and every cap.                              *)
THEOREM SyncKeysInvariance == SyncSpec => []SyncInv
<1>1. SyncInit => SyncInv
    BY SyncInitHolds
<1>2. SyncInv /\ [SyncNext]_syncVars => SyncInv'
    BY SyncStep
<1>3. QED
    BY <1>1, <1>2, PTL DEF SyncSpec

(* The latest sync key is in RAM and on flash, whatever was evicted and    *)
(* whichever writes failed or were torn, and it is the last one whose      *)
(* set_sync_key returned Ok unless a later one failed.                     *)
THEOREM LatestStaysHeld == SyncSpec => []LatestIsHeld
<1>1. SyncInv => LatestIsHeld
    BY DEF SyncInv, LatestHeld, MarkerTrue, LatestIsHeld
<1>2. QED
    BY <1>1, SyncKeysInvariance, PTL

(* The use order lists the mirror exactly; every variable is typed.        *)
THEOREM OrderStaysInStep == SyncSpec => []OrderFollowsMirror
<1>1. SyncInv => OrderFollowsMirror
    <2> SUFFICES ASSUME SyncInv PROVE OrderFollowsMirror
        OBVIOUS
    <2>1. /\ syncOrder \in Seq(Ids) /\ Distinct(syncOrder) /\ ToSet(syncOrder) = syncMirror
          /\ SyncTypeOK
        BY DEF SyncInv, Lists
    <2>2. Cardinality(syncMirror) = Len(syncOrder)
        BY <2>1, DistinctLength
    <2>3. QED
        BY <2>1, <2>2 DEF OrderFollowsMirror
<1>2. QED
    BY <1>1, SyncKeysInvariance, PTL

(* MirrorNearCap: the mirror may exceed its cap, by one entry and no more. *)
THEOREM MirrorStaysNearCap == SyncSpec => []MirrorNearCap
<1>1. SyncInv => MirrorNearCap
    <2> SUFFICES ASSUME SyncInv PROVE MirrorNearCap
        OBVIOUS
    <2>1. /\ syncOrder \in Seq(Ids) /\ Distinct(syncOrder) /\ ToSet(syncOrder) = syncMirror
          /\ Len(syncOrder) <= SyncMirrorCap + 1
        BY DEF SyncInv, Lists
    <2>2. Cardinality(syncMirror) = Len(syncOrder)
        BY <2>1, DistinctLength
    <2>3. QED
        BY <2>1, <2>2 DEF MirrorNearCap
<1>2. QED
    BY <1>1, SyncKeysInvariance, PTL

(* A boot that cannot use the recorded id settles on a key with the newest *)
(* timestamp of all on flash, though the mirror it asked was capped.       *)
THEOREM FallbackStaysNewest == SyncSpec => FallbackIsNewest
<1>1. SyncInv /\ [SyncNext]_syncVars =>
          [syncUp' /\ ~syncUp /\ latest' # marker =>
             \A id \in syncFlash : TimeOf[id] <= TimeOf[latest']]_syncVars
    BY SyncStep DEF NewestAtOpen
<1>2. QED
    BY <1>1, SyncKeysInvariance, PTL DEF SyncSpec, FallbackIsNewest
=============================================================================
