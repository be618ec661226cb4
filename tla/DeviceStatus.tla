---------------------------- MODULE DeviceStatus ----------------------------
(***************************************************************************)
(* DeviceStatus, what the dashboard shows, and its three writers: the      *)
(* event handlers of the client instances, the supervisor at the end of an *)
(* instance, and linking by phone number (POST /pair-code on the httpd     *)
(* thread, its task on the executor).                                      *)
(*                                                                         *)
(* Executor code is one step between two awaits.  The handler of a client  *)
(* takes one event at a time and may lag behind, also past the end of the  *)
(* client; the observer that picks the exit outcome does not.              *)
(***************************************************************************)
EXTENDS Naturals, Sequences

CONSTANTS
    MaxClients,   \* bound: client instances per boot
    MaxAttempts,  \* bound: pairing attempts
    MaxBatch,     \* bound: messages per Messages event
    LogCap        \* MESSAGE_LOG_CAPACITY

ASSUME StatusAssumption ==
    MaxClients \in Nat /\ MaxAttempts \in Nat /\ MaxBatch \in Nat \ {0} /\ LogCap \in Nat \ {0}

VARIABLES
    latest, active,  \* ActiveClient: the newest instance, and whether it is set
    sup,             \* the supervisor loop
    outcome,         \* the newest instance's exit_outcome
    online, stored,  \* clients logged in; a device record exists
    idle,            \* maintenance.is_idle()
    batch,           \* messages left to a client's suspended handler
    qr, connected, account, log, pair,  \* DeviceStatus
    looked,          \* the attempt /pair-code is about to reserve, or 0
    attempts,        \* attempts so far
    pc, via,         \* each attempt's task and the client it captured
    issued           \* history: the attempt the server's newest code is for

Clients  == 1..MaxClients
Attempts == 1..MaxAttempts

(* ClientExit, ordered by severity.                                        *)
Restart == 0
TemporaryBan == 1
PreserveCredentials == 2
ResetCredentials == 3

run    == <<latest, active, sup, outcome>>
facts  == <<online, stored, idle>>
shown  == <<qr, connected, account, log>>
tasks  == <<looked, attempts, pc, via, issued>>
vars   == <<run, facts, batch, shown, pair, tasks>>

Idle == [state |-> "idle", id |-> 0]

TypeOK ==
    /\ latest \in 0..MaxClients /\ active \in BOOLEAN
    /\ sup \in {"delay", "run", "parked", "unlinked"}
    /\ outcome \in Restart..ResetCredentials
    /\ online \subseteq Clients /\ stored \in BOOLEAN /\ idle \in BOOLEAN
    /\ batch \in [Clients -> 0..(MaxBatch - 1)]
    /\ qr \in BOOLEAN /\ connected \in BOOLEAN /\ account \in 0..latest
    /\ log \in Seq(1..latest) /\ Len(log) <= LogCap
    /\ pair \in [state : {"idle", "pending", "ready", "expired", "error"}, id : 0..attempts]
    /\ looked \in 0..MaxAttempts /\ attempts \in 0..MaxAttempts
    /\ pc \in [Attempts -> {"none", "looked", "begun", "socket", "pairing", "issued", "done"}]
    /\ via \in [Attempts -> 0..latest] /\ issued \in 0..attempts

Init ==
    /\ latest = 0 /\ active = FALSE /\ sup = "delay" /\ outcome = Restart
    /\ online = {} /\ stored \in BOOLEAN /\ idle = TRUE
    /\ batch = [c \in Clients |-> 0]
    /\ qr = FALSE /\ connected = FALSE /\ account = 0 /\ log = <<>> /\ pair = Idle
    /\ looked = 0 /\ attempts = 0
    /\ pc = [r \in Attempts |-> "none"] /\ via = [r \in Attempts |-> 0]
    /\ issued = 0

-----------------------------------------------------------------------------
(* The event handler of client c.                                          *)

(* Faulty variant: any instance's events count.                            *)
CurrentAlways(c) == TRUE

Current(c) == active /\ c = latest

(* The handler is free and takes an event.                                 *)
Takes(c) == c <= latest /\ batch[c] = 0 /\ Current(c)

HandleQr(c) ==
    /\ Takes(c)
    /\ qr' = TRUE /\ connected' = FALSE
    /\ UNCHANGED <<run, facts, batch, account, log, pair, tasks>>

HandleExhausted(c) ==
    /\ Takes(c)
    /\ qr' = FALSE
    /\ UNCHANGED <<run, facts, batch, connected, account, log, pair, tasks>>

(* A client connects only as a linked device.                              *)
HandleConnected(c) ==
    /\ Takes(c) /\ stored
    /\ qr' = FALSE /\ connected' = TRUE /\ account' = c /\ pair' = Idle
    /\ UNCHANGED <<run, facts, batch, log, tasks>>

HandleDisconnected(c) ==
    /\ Takes(c)
    /\ connected' = FALSE
    /\ UNCHANGED <<run, facts, batch, qr, account, log, pair, tasks>>

SetLoggedOut == connected' = FALSE /\ account' = 0 /\ log' = <<>> /\ UNCHANGED qr

HandleLoggedOut(c) ==
    /\ Takes(c)
    /\ SetLoggedOut
    /\ UNCHANGED <<run, facts, batch, pair, tasks>>

Record(c) ==
    log' = Append(IF Len(log) = LogCap THEN Tail(log) ELSE log, c)

(* The first message of a batch; its reply may suspend the handler.        *)
HandleMessages(c) ==
    /\ Takes(c)
    /\ Record(c)
    /\ \E n \in 0..(MaxBatch - 1) : batch' = [batch EXCEPT ![c] = n]
    /\ UNCHANGED <<run, facts, qr, connected, account, pair, tasks>>

(* Back from the reply, to the next message.                               *)
ResumeMessages(c) ==
    /\ batch[c] > 0
    /\ Record(c)
    /\ batch' = [batch EXCEPT ![c] = @ - 1]
    /\ UNCHANGED <<run, facts, qr, connected, account, pair, tasks>>

Handler(c) ==
    \/ HandleQr(c) \/ HandleExhausted(c) \/ HandleConnected(c)
    \/ HandleDisconnected(c) \/ HandleLoggedOut(c)
    \/ HandleMessages(c) \/ ResumeMessages(c)

-----------------------------------------------------------------------------
(* The instance and the supervisor.                                        *)

BotBuilt ==
    /\ sup = "delay" /\ latest < MaxClients
    /\ latest' = latest + 1 /\ active' = TRUE /\ sup' = "run" /\ outcome' = Restart
    /\ UNCHANGED <<facts, batch, shown, pair, tasks>>

(* ClientExitObserver: concurrent events keep the strongest outcome.       *)
Observe ==
    /\ sup = "run"
    /\ \E o \in TemporaryBan..ResetCredentials :
           outcome' = IF o > outcome THEN o ELSE outcome
    /\ UNCHANGED <<latest, active, sup, facts, batch, shown, pair, tasks>>

(* bot.run returns: clear_if, then the status the outcome calls for.       *)
BotExits ==
    /\ sup = "run"
    /\ active' = FALSE
    /\ IF outcome = ResetCredentials
       THEN SetLoggedOut
       ELSE connected' = FALSE /\ UNCHANGED <<qr, account, log>>
    /\ sup' = CASE outcome = ResetCredentials    -> "unlinked"
                [] outcome = PreserveCredentials -> "parked"
                [] outcome < PreserveCredentials -> "delay"
    /\ UNCHANGED <<latest, outcome, facts, batch, pair, tasks>>

(* Logging in stores the device before anyone hears of it; a client logs   *)
(* out at any time.                                                        *)
LoginChanges(c) ==
    /\ \/ sup = "run" /\ c = latest /\ online' = online \cup {c} /\ stored' = TRUE
       \/ c \in online /\ online' = online \ {c} /\ UNCHANGED stored
    /\ UNCHANGED <<run, idle, batch, shown, pair, tasks>>

(* A request is accepted, or its start cancelled again.                    *)
MaintenanceChanges ==
    /\ idle' = ~idle
    /\ UNCHANGED <<run, online, stored, batch, shown, pair, tasks>>

(* run_maintenance clears the client it stopped, and a reset what is shown.*)
MaintenanceStops ==
    /\ ~idle /\ active
    /\ active' = FALSE
    /\ UNCHANGED <<latest, sup, outcome, facts, batch, shown, pair, tasks>>

MaintenanceResets ==
    /\ ~idle
    /\ SetLoggedOut
    /\ UNCHANGED <<run, facts, batch, pair, tasks>>

-----------------------------------------------------------------------------
(* POST /pair-code, on the httpd thread.                                   *)

Free(c) == active /\ c = latest /\ ~stored /\ c \notin online

(* The handler's checks, then, with other threads in between, its          *)
(* reservation.                                                            *)
PairLook ==
    /\ looked = 0 /\ attempts < MaxAttempts
    /\ idle /\ Free(latest)
    /\ looked' = attempts + 1
    /\ pc' = [pc EXCEPT ![attempts + 1] = "looked"]
    /\ via' = [via EXCEPT ![attempts + 1] = latest]
    /\ UNCHANGED <<run, facts, batch, shown, pair, attempts, issued>>

BeginIf(allowed) ==
    /\ looked # 0 /\ pc[looked] = "looked"
    /\ IF allowed
       THEN /\ pair' = [state |-> "pending", id |-> looked]
            /\ attempts' = looked
            /\ pc' = [pc EXCEPT ![looked] = "begun"]
            /\ UNCHANGED looked
       ELSE /\ looked' = 0 /\ pc' = [pc EXCEPT ![looked] = "none"]
            /\ UNCHANGED <<pair, attempts>>
    /\ UNCHANGED <<run, facts, batch, shown, via, issued>>

(* Faulty variant: only an active code stands in the way.                  *)
BeginPairCodePending == BeginIf(pair.state # "ready")

(* begin_pair_code: not while one is pending or active.                    *)
BeginPairCode == BeginIf(pair.state \notin {"pending", "ready"})

(* pair_code_request_is guards both ends.                                  *)
Settle(r, state) ==
    pair' = IF pair = [state |-> "pending", id |-> r] THEN [pair EXCEPT !.state = state] ELSE pair

(* try_send, or its failure.                                               *)
PairSpawn ==
    /\ looked # 0 /\ pc[looked] = "begun"
    /\ \/ pc' = [pc EXCEPT ![looked] = "socket"] /\ UNCHANGED pair
       \/ pc' = [pc EXCEPT ![looked] = "done"] /\ Settle(looked, "error")
    /\ looked' = 0
    /\ UNCHANGED <<run, facts, batch, shown, attempts, via, issued>>

-----------------------------------------------------------------------------
(* The task of attempt r.                                                  *)

Ends(r, from, state) ==
    /\ pc[r] = from
    /\ pc' = [pc EXCEPT ![r] = "done"]
    /\ Settle(r, state)
    /\ UNCHANGED <<run, facts, batch, shown, looked, attempts, via, issued>>

SocketNotReady(r) == Ends(r, "socket", "error")

(* Faulty variant: a task that finds its client replaced just ends.        *)
PairRefusedSilently(r) ==
    /\ ~(idle /\ Free(via[r]))
    /\ IF via[r] = latest /\ active THEN Ends(r, "socket", "error")
                                   ELSE Ends(r, "socket", pair.state)

(* The socket is up, but the client was replaced, the device linked or     *)
(* maintenance requested meanwhile.                                        *)
PairRefused(r) == ~(idle /\ Free(via[r])) /\ Ends(r, "socket", "error")

PairWithCode(r) ==
    /\ pc[r] = "socket"
    /\ idle /\ Free(via[r])
    /\ pc' = [pc EXCEPT ![r] = "pairing"]
    /\ UNCHANGED <<run, facts, batch, shown, pair, looked, attempts, via, issued>>

(* The server makes a code, which replaces any it made before.             *)
CodeIssued(r) ==
    /\ pc[r] = "pairing"
    /\ pc' = [pc EXCEPT ![r] = "issued"]
    /\ issued' = r
    /\ UNCHANGED <<run, facts, batch, shown, pair, looked, attempts, via>>

PairFails(r) == Ends(r, "pairing", "error") \/ Ends(r, "issued", "error")

CompletePairCode(r) == Ends(r, "issued", "ready")

PairTask(r) ==
    \/ SocketNotReady(r) \/ PairRefused(r) \/ PairWithCode(r)
    \/ CodeIssued(r) \/ PairFails(r) \/ CompletePairCode(r)

(* The code's three minutes are over.                                      *)
CodeExpires ==
    /\ pair.state = "ready"
    /\ pair' = [pair EXCEPT !.state = "expired"]
    /\ UNCHANGED <<run, facts, batch, shown, tasks>>

-----------------------------------------------------------------------------
PairRequest == PairLook \/ BeginPairCode \/ PairSpawn

Next ==
    \/ \E c \in Clients : Handler(c) \/ LoginChanges(c)
    \/ BotBuilt \/ Observe \/ BotExits
    \/ MaintenanceChanges \/ MaintenanceStops \/ MaintenanceResets
    \/ PairRequest \/ \E r \in Attempts : PairTask(r)
    \/ CodeExpires

(* The httpd thread finishes its handler and the executor runs its tasks;  *)
(* the wait for the socket and the SDK's request have timeouts.            *)
Fairness ==
    /\ WF_vars(BeginPairCode) /\ WF_vars(PairSpawn)
    /\ \A r \in Attempts : WF_vars(PairTask(r))

Spec     == Init /\ [][Next]_vars
FairSpec == Spec /\ Fairness

-----------------------------------------------------------------------------
(* The dashboard says connected only of the instance that is being run,    *)
(* and once the supervisor has acted on an unlinking it shows no account:  *)
(* whatever late events an earlier instance's handler has, and whenever    *)
(* maintenance stops one.  Every variable is typed.                        *)
StatusFollowsClient ==
    /\ TypeOK
    /\ connected => sup = "run" /\ account = latest
    /\ sup = "unlinked" => account = 0

(* begin_pair_code: the code shown as valid is the newest the server made, *)
(* and no attempt under way is about to invalidate it.                     *)
ShownCodeIsNewest ==
    pair.state = "ready" =>
        /\ pair.id = issued
        /\ \A r \in Attempts : pc[r] \notin {"pairing", "issued"}

(* An attempt never stays pending: every way its task or its handler can   *)
(* end settles it, or pairing would be refused until the next reboot.      *)
AttemptsSettle == pair.state = "pending" ~> pair.state # "pending"
=============================================================================
