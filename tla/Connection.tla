----------------------------- MODULE Connection -----------------------------
(***************************************************************************)
(* What a Transport promises its client, with no thread, queue or timeout  *)
(* in sight: two ordered lines.  Frames sent go out in the order they were *)
(* accepted and are acknowledged only once they are out; frames received   *)
(* are handed over in order, between a Connected and a Disconnected.       *)
(***************************************************************************)
EXTENDS Naturals, Sequences

VARIABLES sent,    \* how many frames were accepted from the client
          wire,    \* the frames on the wire, by the order of acceptance
          acked,   \* the frames whose send returned Ok
          frames,  \* how many frames the server's side has handed in
          taken    \* the events the client took

vars == <<sent, wire, acked, frames, taken>>

Connected    == [kind |-> "connected", n |-> 0]
Disconnected == [kind |-> "disconnected", n |-> 0]
Data(n)      == [kind |-> "data", n |-> n]

Init == sent = 0 /\ wire = <<>> /\ acked = {} /\ frames = 0 /\ taken = <<>>

Accept ==
    /\ sent' = sent + 1
    /\ UNCHANGED <<wire, acked, frames, taken>>

(* The next frame in line goes out, whether or not its sender still waits. *)
Transmit ==
    /\ Len(wire) < sent
    /\ wire' = Append(wire, Len(wire) + 1)
    /\ acked' \in {acked, acked \cup {Len(wire) + 1}}
    /\ UNCHANGED <<sent, frames, taken>>

Arrive ==
    /\ frames' = frames + 1
    /\ UNCHANGED <<sent, wire, acked, taken>>

(* What may follow the events taken so far: data only once connected, each *)
(* frame in its turn, and nothing after the end.                           *)
Due ==
    IF taken = <<>> THEN {Connected, Disconnected}
    ELSE IF taken[Len(taken)] = Disconnected THEN {}
    ELSE {Disconnected} \cup (IF Len(taken) <= frames THEN {Data(Len(taken))} ELSE {})

HandOver ==
    /\ \E event \in Due : taken' = Append(taken, event)
    /\ UNCHANGED <<sent, wire, acked, frames>>

Next == Accept \/ Transmit \/ Arrive \/ HandOver

Spec == Init /\ [][Next]_vars
=============================================================================
