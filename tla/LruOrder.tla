------------------------------ MODULE LruOrder ------------------------------
(* LruOrder of storage.rs: use order of a RAM mirror, oldest first.        *)
EXTENDS SequencesExt, Integers

Touched(order, key) == Append(RemoveFirst(order, key), key)

(* Oldest-first keys to drop so that len entries fit cap.                  *)
Overflow(order, len, cap) ==
    IF len > cap THEN SubSeq(order, 1, len - cap) ELSE <<>>
=============================================================================
