---------------------------- MODULE DashboardSend ----------------------------
(***************************************************************************)
(* POST /send: the one httpd thread hands each request to a task on the    *)
(* executor and waits SEND_TIMEOUT for its result.  A task first waits for *)
(* a quiet moment (holding the shared timer) and for the memory gate it    *)
(* shares with HTTP transfers and the demo's replies, then sends.  A task  *)
(* outlives the request that gave up on it.                                *)
(*                                                                         *)
(* Tasks interleave at their awaits only, but the httpd thread may step in *)
(* anywhere, so a task on the CPU (oncpu) takes one step per look at the   *)
(* abandoned flag.                                                         *)
(***************************************************************************)
EXTENDS Naturals, FiniteSets

CONSTANTS
    MaxRequests,  \* bound: requests ever made
    MaxClients,   \* bound: client instances
    NoOne,
    Other         \* an HTTP transfer or a demo reply

Requests == 1..MaxRequests
Clients  == 1..MaxClients

ASSUME SendAssumption ==
    /\ MaxRequests \in Nat /\ MaxClients \in Nat
    /\ NoOne # Other /\ NoOne \notin Requests /\ Other \notin Requests

VARIABLES
    gated,          \* no PSRAM, so there is a memory gate; never changes
    awaited,        \* the request the handler waits for
    reply,          \* the answer each request got
    result,         \* each request's result channel
    abandoned,      \* requests whose flag is set
    pc, via,        \* each task's position and the client it captured
    oncpu,          \* the task between two awaits
    timer,          \* holder of the shared timer's lock
    gate,           \* holder of the memory gate
    latest,         \* the newest client instance
    active,         \* ActiveClient holds it
    online,         \* the clients that are logged in
    \* history: messages the server took, and those of them the SDK answered
    \* for; requests given up before their task's last look at the flag
    delivered, acked, gaveUp

http   == <<awaited, reply>>
client == <<latest, active, online>>
locks  == <<timer, gate>>
tasks  == <<pc, via, result, oncpu>>
sent   == <<delivered, acked>>
past   == <<sent, gaveUp>>
vars   == <<gated, http, abandoned, tasks, locks, client, past>>

Waiting == {"queued", "timer", "quiet", "report", "gate", "admitted"}

TypeOK ==
    /\ gated \in BOOLEAN
    /\ awaited \in Requests \cup {NoOne}
    /\ reply \in [Requests -> {"none", "sent", "failed", "timeout"}]
    /\ result \in [Requests -> {"none", "ok", "err"}]
    /\ abandoned \cup delivered \cup gaveUp \subseteq Requests /\ acked \subseteq delivered
    /\ pc \in [Requests -> Waiting \cup {"none", "checked", "sending", "done"}]
    /\ via \in [Requests -> 0..MaxClients]
    /\ oncpu \in Requests \cup {NoOne}
    /\ timer = NoOne \/ pc[timer] \in {"quiet", "report", "gate"}
    /\ gate \in {NoOne, Other} \/ pc[gate] \in {"admitted", "checked", "sending"}
    /\ latest \in 0..MaxClients
    /\ active \in BOOLEAN /\ online \subseteq Clients

Init ==
    /\ gated \in BOOLEAN
    /\ awaited = NoOne /\ reply = [r \in Requests |-> "none"]
    /\ result = [r \in Requests |-> "none"] /\ abandoned = {}
    /\ pc = [r \in Requests |-> "none"] /\ via = [r \in Requests |-> 0]
    /\ oncpu = NoOne /\ timer = NoOne /\ gate = NoOne
    /\ latest = 0 /\ active = FALSE /\ online = {}
    /\ delivered = {} /\ acked = {} /\ gaveUp = {}

-----------------------------------------------------------------------------
(* The httpd thread.                                                       *)

(* A request that passes the checks; the others change nothing.            *)
Request(r) ==
    /\ awaited = NoOne /\ pc[r] = "none" /\ \A q \in 1..(r - 1) : pc[q] # "none"
    /\ active /\ latest \in online
    /\ awaited' = r
    /\ pc' = [pc EXCEPT ![r] = "queued"]
    /\ via' = [via EXCEPT ![r] = latest]
    /\ UNCHANGED <<reply, abandoned, result, oncpu, locks, client, past>>

Reply ==
    /\ awaited # NoOne /\ result[awaited] # "none"
    /\ reply' = [reply EXCEPT ![awaited] = IF result[awaited] = "ok" THEN "sent" ELSE "failed"]
    /\ awaited' = NoOne
    /\ UNCHANGED <<abandoned, tasks, locks, client, past>>

Timeout ==
    /\ awaited # NoOne /\ result[awaited] = "none"
    /\ reply' = [reply EXCEPT ![awaited] = "timeout"]
    /\ abandoned' = abandoned \cup {awaited}
    /\ gaveUp' = IF pc[awaited] \in Waiting THEN gaveUp \cup {awaited} ELSE gaveUp
    /\ awaited' = NoOne
    /\ UNCHANGED <<tasks, locks, client, sent>>

-----------------------------------------------------------------------------
(* The task of a request.                                                  *)

Runs(r, from, to) ==
    /\ oncpu \in {r, NoOne}
    /\ pc[r] = from
    /\ pc' = [pc EXCEPT ![r] = to]

Release(lock, r) == IF lock = r THEN NoOne ELSE lock

Cancelled(r) == r \in abandoned \/ via[r] \notin online

(* The task ends and drops what it holds.                                  *)
Ends(r, from, outcome) ==
    /\ Runs(r, from, "done")
    /\ result' = [result EXCEPT ![r] = outcome]
    /\ timer' = Release(timer, r) /\ gate' = Release(gate, r)
    /\ oncpu' = NoOne
    /\ UNCHANGED <<http, abandoned, via, client, gaveUp>>

(* With PSRAM there is nothing to wait for.                                *)
Start(r) ==
    /\ IF gated THEN Runs(r, "queued", "timer") /\ UNCHANGED oncpu
                ELSE Runs(r, "queued", "admitted") /\ oncpu' = r
    /\ UNCHANGED <<http, abandoned, via, result, locks, client, past>>

LockTimer(r) ==
    /\ Runs(r, "timer", "quiet")
    /\ timer = NoOne /\ timer' = r
    /\ UNCHANGED <<http, abandoned, via, result, oncpu, gate, client, past>>

QuietCancelled(r) == Ends(r, "quiet", "err") /\ Cancelled(r) /\ UNCHANGED sent

QuietLook(r) ==
    /\ Runs(r, "quiet", "report")
    /\ ~Cancelled(r)
    /\ UNCHANGED <<http, abandoned, via, result, oncpu, locks, client, past>>

(* QuietPeriod::ready: a quiet second, or five in all.                     *)
QuietReady(r) ==
    /\ Runs(r, "report", "gate")
    /\ UNCHANGED <<http, abandoned, via, result, oncpu, locks, client, past>>

(* Not yet: sleep for a tick and look again.                               *)
QuietTick(r) ==
    /\ Runs(r, "report", "quiet")
    /\ UNCHANGED <<http, abandoned, via, result, oncpu, locks, client, past>>

(* The timer's own failure.                                                *)
TimerFails(r) ==
    /\ Ends(r, "report", "err") \/ Ends(r, "gate", "err")
    /\ UNCHANGED sent

(* Faulty variant: a plain acquire, which looks up only once it has the    *)
(* gate.                                                                   *)
GateCancelledLate(r) ==
    Ends(r, "gate", "err") /\ gate = NoOne /\ Cancelled(r) /\ UNCHANGED sent

(* acquire_cancellable: a tick finds the request cancelled, whoever holds  *)
(* the gate, or the permit arrives too late.                               *)
GateCancelled(r) == Ends(r, "gate", "err") /\ Cancelled(r) /\ UNCHANGED sent

GateAcquired(r) ==
    /\ Runs(r, "gate", "admitted")
    /\ gate = NoOne /\ gate' = r
    /\ ~Cancelled(r)
    /\ timer' = Release(timer, r)
    /\ oncpu' = r
    /\ UNCHANGED <<http, abandoned, via, result, client, past>>


(* The last look at the flag.                                              *)
Abandons(r) == Ends(r, "admitted", "none") /\ r \in abandoned /\ UNCHANGED sent

PassesIf(r, allowed, gateAfter) ==
    /\ Runs(r, "admitted", "checked")
    /\ allowed
    /\ gate' = gateAfter
    /\ UNCHANGED <<http, abandoned, via, result, oncpu, timer, client, past>>

(* Faulty variants: no last look; the permit is dropped where it is bound. *)
PassesUnchecked(r) == PassesIf(r, TRUE, gate)
PassesUngated(r)   == PassesIf(r, r \notin abandoned, Release(gate, r))

Passes(r) == PassesIf(r, r \notin abandoned, gate)

(* is_current, then prepare_text_send.                                     *)
Superseded(r) ==
    /\ Ends(r, "checked", "err")
    /\ ~(active /\ via[r] = latest)
    /\ UNCHANGED sent

Begin(r) ==
    /\ Runs(r, "checked", "sending")
    /\ active /\ via[r] = latest
    /\ oncpu' = NoOne
    /\ UNCHANGED <<http, abandoned, via, result, locks, client, past>>

(* Faulty variant: one result channel for all requests.                    *)
SendOkShared(r) ==
    /\ Runs(r, "sending", "done")
    /\ result' = IF awaited = NoOne THEN result ELSE [result EXCEPT ![awaited] = "ok"]
    /\ timer' = Release(timer, r) /\ gate' = Release(gate, r)
    /\ delivered' = delivered \cup {r} /\ acked' = acked \cup {r}
    /\ UNCHANGED <<http, abandoned, via, oncpu, client, gaveUp>>

SendOk(r) ==
    /\ Ends(r, "sending", "ok")
    /\ delivered' = delivered \cup {r} /\ acked' = acked \cup {r}

(* The send may fail before or after the server took the message.          *)
SendFails(r) ==
    /\ Ends(r, "sending", "err")
    /\ delivered' \in {delivered, delivered \cup {r}} /\ UNCHANGED acked

Progress(r) ==
    \/ Start(r) \/ LockTimer(r)
    \/ QuietCancelled(r) \/ QuietLook(r) \/ QuietReady(r) \/ QuietTick(r)
    \/ GateCancelled(r) \/ GateAcquired(r)
    \/ Abandons(r) \/ Passes(r)
    \/ Superseded(r) \/ Begin(r) \/ SendOk(r) \/ SendFails(r)

Task(r) == Progress(r) \/ TimerFails(r)

-----------------------------------------------------------------------------
(* The rest of the firmware.                                               *)

(* The gate's other users hold it while they work.                         *)
OtherAcquires ==
    /\ gated /\ gate = NoOne /\ oncpu = NoOne
    /\ gate' = Other
    /\ UNCHANGED <<http, abandoned, tasks, timer, client, past>>

OtherReleases ==
    /\ gate = Other
    /\ gate' = NoOne
    /\ UNCHANGED <<http, abandoned, tasks, timer, client, past>>

ClientSet ==
    /\ ~active /\ oncpu = NoOne /\ latest < MaxClients
    /\ latest' = latest + 1 /\ active' = TRUE
    /\ UNCHANGED <<http, abandoned, tasks, locks, online, past>>

ClientCleared ==
    /\ active /\ oncpu = NoOne
    /\ active' = FALSE
    /\ UNCHANGED <<http, abandoned, tasks, locks, latest, online, past>>

(* A client logs in while it is the active one, and out at any time.       *)
LoginChanges(c) ==
    /\ oncpu = NoOne
    /\ \/ active /\ c = latest /\ online' = online \cup {c}
       \/ c \in online /\ online' = online \ {c}
    /\ UNCHANGED <<http, abandoned, tasks, locks, latest, active, past>>

Next ==
    /\ \/ Reply \/ Timeout
       \/ \E r \in Requests : Request(r) \/ Task(r)
       \/ OtherAcquires \/ OtherReleases \/ ClientSet \/ ClientCleared
       \/ \E c \in Clients : LoginChanges(c)
    /\ UNCHANGED gated

Spec == Init /\ [][Next]_vars

Step(A) == A /\ UNCHANGED gated

(* The executor comes back to every task that can go on, and a send ends,  *)
(* by upstream timeouts if need be; the mutex serves its waiters; the      *)
(* quiet period is over after five seconds; the handler waits no longer    *)
(* than SEND_TIMEOUT.  Nothing says that the gate's other user lets go, or *)
(* that the timer ever fails.                                              *)
FairSpec ==
    /\ Spec
    /\ WF_vars(Step(Reply \/ Timeout))
    /\ \A r \in Requests : /\ SF_vars(Step(Progress(r)))
                          /\ SF_vars(Step(LockTimer(r)))
                          /\ SF_vars(Step(QuietReady(r)))

-----------------------------------------------------------------------------
(* A 200 is answered only for a message whose own send was acknowledged,   *)
(* and a 502 never for one that was (the server may have taken it all the  *)
(* same), even while tasks of earlier, abandoned requests finish.          *)
ReplyIsTruthful ==
    \A r \in Requests : /\ reply[r] = "sent" => r \in acked
                        /\ reply[r] = "failed" => r \notin acked

(* A request given up while its task was still waiting is never sent.      *)
GivenUpIsNotSent == \A r \in gaveUp : pc[r] # "sending" /\ r \notin delivered

(* Without PSRAM one memory-hungry operation runs at a time: a send, an    *)
(* HTTP transfer or a demo reply, across timeouts and client replacements. *)
(* Every variable is typed and each lock held by a task that is past it.   *)
OneHeavyOperation ==
    /\ TypeOK
    /\ gated => /\ Cardinality({r \in Requests : pc[r] = "sending"}) <= 1
                /\ gate = Other => \A r \in Requests : pc[r] # "sending"

(* A task whose request gave up ends, also while the gate never comes free *)
(* and while an earlier such task holds the timer.                         *)
GivenUpTasksEnd == \A r \in Requests : r \in abandoned ~> pc[r] = "done"
=============================================================================
