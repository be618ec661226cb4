---------------------------- MODULE LinkedDevice ----------------------------
(***************************************************************************)
(* What the credential store promises, with no flash in sight: at most one *)
(* pairing is linked, forgetting it is one indivisible step, and what has  *)
(* been forgotten is never linked again nor used after a restart.          *)
(***************************************************************************)
CONSTANTS Pairings, None

VARIABLES
    linked,   \* the pairing the next boot comes back as
    serving,  \* the identities of the clients since the last restart
    settled,  \* no further identity is generated before the next restart
    forgotten

vars == <<linked, serving, settled, forgotten>>

Init ==
    /\ linked \in Pairings \cup {None}
    /\ serving = {} /\ settled = FALSE
    /\ forgotten = {}

(* A client starts with the linked credentials.                            *)
Start ==
    /\ serving = {} /\ linked # None
    /\ serving' = {linked} /\ settled' = TRUE
    /\ UNCHANGED <<linked, forgotten>>

(* A client starts unlinked, with an identity never used before, while no  *)
(* link has been acknowledged.                                             *)
Mint ==
    /\ ~settled /\ linked \in serving \cup {None}
    /\ \E p \in Pairings \ (forgotten \cup serving) : serving' = serving \cup {p}
    /\ UNCHANGED <<linked, settled, forgotten>>

(* An identity in use becomes the linked one; the acknowledgement, which   *)
(* settles it, may be missing.                                             *)
Link ==
    /\ linked' \in serving \ forgotten
    /\ settled' \in {TRUE, settled}
    /\ UNCHANGED <<serving, forgotten>>

(* Maintenance begins.                                                     *)
Settle ==
    /\ settled' = TRUE
    /\ UNCHANGED <<linked, serving, forgotten>>

(* The identities in use are given up, linked or not; a client may outlive *)
(* its identity until it stops.                                            *)
Forget ==
    /\ settled
    /\ linked' = None
    /\ forgotten' = forgotten \cup serving \cup ({linked} \ {None})
    /\ UNCHANGED <<serving, settled>>

Stop ==
    /\ serving' = {} /\ settled' = FALSE
    /\ UNCHANGED <<linked, forgotten>>

Next == Start \/ Mint \/ Link \/ Settle \/ Forget \/ Stop

Spec == Init /\ [][Next]_vars
=============================================================================
