----------------------------- MODULE MCNvsStore -----------------------------
(***************************************************************************)
(* NvsRecords and SyncKeys for TLC.  The namespaces of the store share no  *)
(* state, so a behaviour works on one of them: a Signal namespace, of the  *)
(* kind that NvsRecords picks, or the sync keys.                           *)
(***************************************************************************)
EXTENDS NvsRecords, SyncKeys

CONSTANTS k1, k2, k3, k4, s1, s2, s3, a, b, c, d

(* Two keys share a physical name.                                         *)
Colliding == [k \in Keys |-> CASE k = k3 -> s2 [] k = k4 -> s3 [] OTHER -> s1]

(* Sessions are not mirrored at all without PSRAM; identities are up to a  *)
(* cap below their budget.                                                 *)
Budgets == [n \in Kinds |-> IF n = "identity" THEN 3 ELSE 2]
Caps    == [n \in Kinds |-> IF n = "identity" THEN 2 ELSE 0]

(* No action tells one payload from another.                               *)
AnyValue == Permutations(Values)

(* The sync keys' timestamps are in no useful order.                       *)
Timestamps == [id \in Ids |-> CASE id = a -> 3 [] id = b -> 1 [] OTHER -> 2]

VARIABLE part

StoreInit == Init /\ SyncInit /\ part \in {"records", "sync keys"}

StoreNext ==
    /\ \/ part = "records" /\ Next /\ UNCHANGED syncVars
       \/ part = "sync keys" /\ SyncNext /\ UNCHANGED vars
    /\ UNCHANGED part

StoreSpec == StoreInit /\ [][StoreNext]_<<vars, syncVars, part>>
=============================================================================
