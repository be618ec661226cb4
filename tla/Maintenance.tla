---------------------------- MODULE Maintenance ----------------------------
(***************************************************************************)
(* Everything that ends in a reboot: the MaintenanceCoordinator and        *)
(* run_maintenance (supervisor.rs), the dashboard handlers that queue a    *)
(* maintenance action (admin.rs) and the supervisor loop that reacts to    *)
(* being unlinked (main.rs), over the part of NvsStore they erase.         *)
(*                                                                         *)
(* Three threads matter.  The httpd task answers one request at a time.    *)
(* The executor thread wa-main runs the supervisor, the clients' own       *)
(* tasks and the maintenance task, one at a time, switching only where a   *)
(* task awaits.  Power may fail, or a panic abort the chip, at any moment. *)
(***************************************************************************)
EXTENDS Integers

CONSTANTS
    Clients,          \* identities of Arc<Client>; a dropped one may be reused
    NoClient,         \* ActiveClient's None
    ExecutorMayExit   \* TRUE for a library consumer whose main future returns

ASSUME ClientsAssumption ==
    /\ NoClient \notin Clients
    /\ ExecutorMayExit \in BOOLEAN

(* MaintenanceAction, ordered by how much it destroys; 0 is Option::None.  *)
NoAction      == 0
Reboot        == 1
ClearSessions == 2
Reset         == 3
Actions       == {Reboot, ClearSessions, Reset}

VARIABLES
    \* MaintenanceState, behind the coordinator's mutex
    requested, running, accepting,
    \* the httpd task: the action it answered Start for and has yet to queue
    starting,
    \* run_maintenance: where it is, and its locals
    mpc, goal, applied, logoutAttempted, held,
    \* run_whatsapp: where the supervisor is and the client it runs
    sup, bot,
    \* ActiveClient
    active,
    \* NvsStore: accepting_writes negated, and what flash holds
    sealed, device, sessions, resetMark,
    \* history: the actions answered with an acceptance since this boot
    promised

coordinator == <<requested, running, accepting>>
locals      == <<goal, applied, logoutAttempted, held>>
task        == <<mpc, locals>>
clients     == <<sup, bot, active>>
flash       == <<device, sessions, resetMark>>
vars        == <<coordinator, starting, task, clients, sealed, flash, promised>>

-----------------------------------------------------------------------------
(* Where run_maintenance stands.  It awaits in "queued", "stopping" and    *)
(* "upgrading"; from "loop" to "restart" it never yields the executor      *)
(* thread (a failed erase sleeps on that thread), nor in "begin", where    *)
(* the supervisor calls it directly; "stuck" is its final pending().await  *)
(* after a restart that could not be scheduled.                            *)
Unyielding == {"begin", "loop", "apply", "commit", "restart"}
TaskStates == {"none", "queued", "begin", "stopping", "loop", "upgrading", "apply",
                "commit", "restart", "stuck"}

(* "off" is the chip between a reset and a successful NvsStore::open.  In  *)
(* "unlinked" the supervisor goes from the end of Bot::run to its request  *)
(* without yielding the executor thread.                                   *)
SupervisorStates == {"off", "build", "run", "unlinked", "delay", "parked",
                     "inline", "gone"}

ExecutorUp   == sup \notin {"off", "gone"}
ExecutorFree == /\ ExecutorUp /\ sup # "unlinked"
                /\ mpc \notin Unyielding

TypeOK ==
    /\ requested \in Actions \cup {NoAction}
    /\ running \in BOOLEAN
    /\ accepting \in BOOLEAN
    /\ starting \in Actions \cup {NoAction}
    /\ mpc \in TaskStates
    /\ goal \in Actions
    /\ applied \in Actions
    /\ logoutAttempted \in BOOLEAN
    /\ held \in Clients \cup {NoClient}
    /\ sup \in SupervisorStates
    /\ bot \in Clients \cup {NoClient}
    /\ active \in Clients \cup {NoClient}
    /\ sealed \in BOOLEAN
    /\ device \in BOOLEAN
    /\ sessions \in BOOLEAN
    /\ resetMark \in BOOLEAN
    /\ promised \in SUBSET Actions

(* A device that has run before, whatever it was left with.                *)
Init ==
    /\ requested = NoAction /\ running = FALSE /\ accepting = TRUE
    /\ starting = NoAction
    /\ mpc = "none" /\ goal = Reboot /\ applied = Reboot
    /\ logoutAttempted = FALSE /\ held = NoClient
    /\ sup = "off" /\ bot = NoClient /\ active = NoClient
    /\ sealed = FALSE
    /\ device \in BOOLEAN /\ sessions \in BOOLEAN /\ resetMark = FALSE
    /\ promised = {}

(* The chip restarts: main() builds everything but flash afresh.           *)
ChipResets ==
    /\ requested' = NoAction /\ running' = FALSE /\ accepting' = TRUE
    /\ starting' = NoAction
    /\ mpc' = "none" /\ goal' = Reboot /\ applied' = Reboot
    /\ logoutAttempted' = FALSE /\ held' = NoClient
    /\ sup' = "off" /\ bot' = NoClient /\ active' = NoClient
    /\ sealed' = FALSE
    /\ promised' = {}
    /\ UNCHANGED flash

-----------------------------------------------------------------------------
(* The coordinator.                                                        *)

StrongerOf(a, b) == IF a < b THEN b ELSE a

(* MaintenanceCoordinator::request once it is known to be accepting.       *)
Upgrade(action) ==
    /\ requested' = StrongerOf(requested, action)
    /\ running' = TRUE
    /\ UNCHANGED accepting

(* MaintenanceCoordinator::requested().                                    *)
Requested == IF requested = NoAction THEN Reboot ELSE requested

-----------------------------------------------------------------------------
(* The httpd task: queue_maintenance for /reboot, /clear-sessions, /reset. *)

(* A task is already in flight: the request upgrades it and is answered    *)
(* with 202.                                                               *)
AdminQueued(action) ==
    /\ sup # "off" /\ starting = NoAction
    /\ accepting /\ running
    /\ Upgrade(action)
    /\ promised' = promised \cup {action}
    /\ UNCHANGED <<starting, task, clients, sealed, flash>>

(* Start: the handler now owns the right to start the task, and the        *)
(* coordinator's lock is released before it queues it.                     *)
AdminStart(action) ==
    /\ sup # "off" /\ starting = NoAction
    /\ accepting /\ ~running
    /\ Upgrade(action)
    /\ starting' = action
    /\ UNCHANGED <<task, clients, sealed, flash, promised>>

(* try_send onto the executor's unbounded queue, answered with 202.        *)
AdminSpawn ==
    /\ starting # NoAction /\ sup # "gone"
    /\ mpc' = "queued"
    /\ promised' = promised \cup {starting}
    /\ starting' = NoAction
    /\ UNCHANGED <<coordinator, locals, clients, sealed, flash>>

(* The queue is closed because the executor is gone: cancel_start and 503. *)
AdminCancel ==
    /\ starting # NoAction /\ sup = "gone"
    /\ running' = FALSE
    /\ requested' = NoAction
    /\ starting' = NoAction
    /\ UNCHANGED <<accepting, task, clients, sealed, flash, promised>>

-----------------------------------------------------------------------------
(* run_maintenance.                                                        *)

(* Its first poll: read the request and the live client, then ask that     *)
(* client to stop (logout for a reset, shutdown otherwise) and await it.   *)
MaintenanceBegin ==
    /\ mpc = "begin" \/ (mpc = "queued" /\ ExecutorFree)
    /\ held' = active
    /\ applied' = Reboot
    /\ logoutAttempted' = (active # NoClient /\ Requested = Reset)
    /\ mpc' = IF active = NoClient THEN "loop" ELSE "stopping"
    /\ UNCHANGED <<coordinator, starting, goal, clients, sealed, flash,
                   promised>>

(* The client has stopped: remaining is what ActiveClient holds now.       *)
StopClient(remaining) ==
    /\ mpc = "stopping" /\ ExecutorFree
    /\ active' = remaining
    /\ mpc' = "loop"
    /\ UNCHANGED <<coordinator, starting, locals, sup, bot, sealed, flash, promised>>

(* Faulty variant: clears whatever client is active by now.                *)
ClientStoppedClearsAny == StopClient(NoClient)

(* clear_if leaves a newer client alone.                                   *)
ClientStopped == StopClient(IF active = held THEN NoClient ELSE active)

NeedsLogout == Requested = Reset /\ ~logoutAttempted /\ held # NoClient

(* Top of the loop: read the request again.  A reset that upgraded a       *)
(* gentler action logs the old client out first, which awaits.             *)
LoopRead ==
    /\ mpc = "loop"
    /\ goal' = Requested
    /\ \/ Requested <= applied /\ mpc' = "commit"
       \/ applied < Requested /\ NeedsLogout /\ mpc' = "upgrading"
       \/ applied < Requested /\ ~NeedsLogout /\ mpc' = "apply"
    /\ logoutAttempted' = (logoutAttempted \/ (Requested = Reset /\ held = NoClient))
    /\ UNCHANGED <<coordinator, starting, applied, held, clients, sealed,
                   flash, promised>>

LogoutDone ==
    /\ mpc = "upgrading" /\ ExecutorFree
    /\ logoutAttempted' = TRUE
    /\ mpc' = "apply"
    /\ UNCHANGED <<coordinator, starting, goal, applied, held, clients,
                   sealed, flash, promised>>

(* Seal the store, then NvsStore::clear_sessions, or NvsStore::reset:      *)
(* write the marker, erase device and Signal records, remove the marker.   *)
ApplyOk ==
    /\ mpc = "apply"
    /\ sealed' = TRUE
    /\ device' = (device /\ goal # Reset)
    /\ sessions' = FALSE
    /\ resetMark' = (resetMark /\ goal # Reset)
    /\ applied' = goal
    /\ mpc' = "commit"
    /\ UNCHANGED <<coordinator, starting, goal, logoutAttempted, held, clients, promised>>

(* The erase failed part way: sleep on this very thread, then try again.   *)
ApplyFails ==
    /\ mpc = "apply"
    /\ sealed' = TRUE
    /\ \/ goal = ClearSessions /\ sessions' \in {FALSE, sessions} /\ UNCHANGED <<device, resetMark>>
       \/ goal = Reset /\ UNCHANGED flash
       \/ /\ goal = Reset
          /\ resetMark' = TRUE
          /\ device' \in {FALSE, device}
          /\ sessions' \in IF device' THEN {sessions} ELSE {FALSE, sessions}
    /\ mpc' = "loop"
    /\ UNCHANGED <<coordinator, starting, locals, clients, promised>>

(* Close the window unless there is something newer to apply.              *)
CommitUnless(newer) ==
    /\ mpc = "commit"
    /\ IF newer THEN mpc' = "loop" /\ UNCHANGED accepting
                ELSE mpc' = "restart" /\ accepting' = FALSE
    /\ UNCHANGED <<requested, running, starting, locals, clients, sealed, flash, promised>>

(* Faulty variants: no second look at the request; >= for >.               *)
BeginRebootUnchecked == CommitUnless(FALSE)
BeginRebootAtLeast   == CommitUnless(requested >= applied)

(* begin_reboot.                                                           *)
BeginReboot == CommitUnless(requested > applied)

(* NvsStore::restart on the flash worker.                                  *)
Restart ==
    /\ mpc = "restart"
    /\ ChipResets

(* The flash worker would not take the job: wait forever, the window shut. *)
RestartFails ==
    /\ mpc = "restart"
    /\ mpc' = "stuck"
    /\ UNCHANGED <<coordinator, starting, locals, clients, sealed, flash,
                   promised>>

-----------------------------------------------------------------------------
(* run_whatsapp: the supervisor loop on the executor.                      *)

(* Bot::build finished; the new Arc differs from every Arc still held.     *)
BotBuilt ==
    /\ sup = "build" /\ ExecutorFree
    /\ bot' \in Clients \ {held}
    /\ active' = bot'
    /\ sup' = "run"
    /\ UNCHANGED <<coordinator, starting, task, sealed, flash, promised>>

BuildFails ==
    /\ sup = "build" /\ ExecutorFree
    /\ sup' = "delay"
    /\ UNCHANGED <<coordinator, starting, task, bot, active, sealed, flash,
                   promised>>

(* Bot::run returned with the exit the observer recorded: retry (Restart,  *)
(* TemporaryBan), park (PreserveCredentials) or ResetCredentials.          *)
BotExits ==
    /\ sup = "run" /\ ExecutorFree
    /\ active' = IF active = bot THEN NoClient ELSE active
    /\ bot' = NoClient
    /\ sup' \in {"delay", "parked", "unlinked"}
    /\ UNCHANGED <<coordinator, starting, task, sealed, flash, promised>>

DelayOver ==
    /\ sup = "delay" /\ ExecutorFree
    /\ sup' = "build"
    /\ UNCHANGED <<coordinator, starting, task, bot, active, sealed, flash,
                   promised>>

(* Run the maintenance on the supervisor's own task.                       *)
ResetHere(mayStart) ==
    /\ sup = "unlinked"
    /\ accepting /\ mayStart
    /\ Upgrade(Reset)
    /\ promised' = promised \cup {Reset}
    /\ sup' = "inline"
    /\ mpc' = "begin"
    /\ UNCHANGED <<starting, locals, bot, active, sealed, flash>>

(* Faulty variant: erases here even when another task is at work.          *)
SupervisorStartsAnyway == ResetHere(TRUE)

(* ResetCredentials and nobody at work: request answers Start.             *)
SupervisorStarts == ResetHere(~running)

(* Faulty variant: waits for the other task without upgrading it.          *)
SupervisorJustWaits ==
    /\ sup = "unlinked"
    /\ accepting /\ running
    /\ sup' = "parked"
    /\ UNCHANGED <<coordinator, starting, task, bot, active, sealed, flash,
                   promised>>

(* Another task is at work: it has just been upgraded, so wait for it.     *)
SupervisorQueues ==
    /\ sup = "unlinked"
    /\ accepting /\ running
    /\ Upgrade(Reset)
    /\ promised' = promised \cup {Reset}
    /\ sup' = "parked"
    /\ UNCHANGED <<starting, task, bot, active, sealed, flash>>

(* The reboot is committed: wait for it.                                   *)
SupervisorRejected ==
    /\ sup = "unlinked"
    /\ ~accepting
    /\ sup' = "parked"
    /\ UNCHANGED <<coordinator, starting, task, bot, active, sealed, flash,
                   promised>>

(* Any client task, a stopped client's background flush included, writes   *)
(* through write_operation, which refuses once the store is sealed.        *)
ClientWrites ==
    /\ ExecutorFree
    /\ ~sealed
    /\ \/ device' = TRUE /\ UNCHANGED sessions
       \/ sessions' = TRUE /\ UNCHANGED device
    /\ UNCHANGED <<coordinator, starting, task, clients, sealed, resetMark, promised>>

-----------------------------------------------------------------------------
(* The chip.                                                               *)

(* Power loss, a panic (panic = "abort") or a watchdog reset.              *)
PowerLoss ==
    /\ sup # "off"
    /\ ChipResets

(* Faulty variant: loads whatever is there, marker or not.                 *)
OpenIgnoresMarker ==
    /\ sup = "off"
    /\ sessions' = (sessions /\ device)
    /\ sup' = "build"
    /\ UNCHANGED <<coordinator, starting, task, bot, active, sealed, device,
                   resetMark, promised>>

(* NvsStore::open: finish a pending reset, drop Signal records that have   *)
(* no device, then start the supervisor.                                   *)
OpenOk ==
    /\ sup = "off"
    /\ device' = (device /\ ~resetMark)
    /\ sessions' = (sessions /\ device')
    /\ resetMark' = FALSE
    /\ sup' = "build"
    /\ UNCHANGED <<coordinator, starting, task, bot, active, sealed, promised>>

(* Opening failed part way: main() reboots and tries again.                *)
OpenFails ==
    /\ sup = "off"
    /\ device' \in IF resetMark THEN {FALSE, device} ELSE {device}
    /\ sessions' \in IF device' THEN {sessions} ELSE {FALSE, sessions}
    /\ UNCHANGED <<coordinator, starting, task, clients, sealed, resetMark,
                   promised>>

(* block_on returned: its tasks and its queue are dropped with it.         *)
ExecutorExits ==
    /\ ExecutorMayExit /\ ExecutorFree
    /\ sup' = "gone"
    /\ mpc' = "none"
    /\ UNCHANGED <<coordinator, starting, locals, bot, active, sealed, flash,
                   promised>>

-----------------------------------------------------------------------------
Httpd == \/ \E action \in Actions : AdminQueued(action) \/ AdminStart(action)
         \/ AdminSpawn \/ AdminCancel

MaintenanceTask ==
    \/ MaintenanceBegin \/ ClientStopped \/ LoopRead \/ LogoutDone
    \/ ApplyOk \/ ApplyFails \/ BeginReboot \/ Restart \/ RestartFails

Supervisor ==
    \/ BotBuilt \/ BuildFails \/ BotExits \/ DelayOver
    \/ SupervisorStarts \/ SupervisorQueues \/ SupervisorRejected

Chip == PowerLoss \/ OpenOk \/ OpenFails \/ ExecutorExits

Next == Httpd \/ MaintenanceTask \/ Supervisor \/ ClientWrites \/ Chip

Spec == Init /\ [][Next]_vars

(* The executor polls every ready task, httpd finishes its handler, and    *)
(* the SDK's shutdown and logout return.  An erase that is retried for     *)
(* ever, and an open retried over reboots, eventually succeed.  Nothing    *)
(* makes a user click, the server unlink the device or power fail.         *)
Fairness ==
    /\ WF_vars(AdminSpawn)
    /\ WF_vars(MaintenanceBegin) /\ WF_vars(ClientStopped) /\ WF_vars(LogoutDone)
    /\ WF_vars(LoopRead) /\ SF_vars(ApplyOk) /\ WF_vars(BeginReboot)
    /\ WF_vars(Restart \/ RestartFails)
    /\ WF_vars(SupervisorStarts \/ SupervisorQueues \/ SupervisorRejected)
    /\ SF_vars(OpenOk)

FairSpec == Spec /\ Fairness

-----------------------------------------------------------------------------
(* What must hold.                                                         *)

Erased(action) ==
    /\ action \in {ClearSessions, Reset} => ~sessions
    /\ action = Reset => ~device /\ ~resetMark

(* Once begin_reboot has closed the window, every request that was ever    *)
(* accepted, by a dashboard 202 or by the supervisor, has had its effect   *)
(* on flash, and no client task has undone it since: a request that        *)
(* arrives while a weaker one is being applied is never lost.              *)
PromiseKept == ~accepting => \A action \in promised : Erased(action)

(* The coordinator says a task is running exactly when there is one to     *)
(* pick a queued request up: a handler about to spawn it, or the task      *)
(* itself.  Two of them never exist together.                              *)
OneTask ==
    sup \notin {"off", "gone"} =>
        /\ running <=> (starting # NoAction \/ mpc # "none")
        /\ starting # NoAction => mpc = "none"
        /\ sup = "inline" => mpc # "none"

(* The client the supervisor runs is the one the dashboard reaches, unless *)
(* maintenance has stopped that very client: stopping an old client never  *)
(* hides the one that replaced it.                                         *)
RunningClientIsActive ==
    sup = "run" => active = bot \/ (active = NoClient /\ bot = held)

(* While flash carries the reset marker, no client task runs: credentials  *)
(* whose erase has begun are never used, before or after a power loss.     *)
NoClientDuringReset ==
    resetMark => sup = "off" \/ mpc \in {"loop", "apply"}

(* The inductive strengthening of the four invariants above.               *)

(* What was promised is at most what the coordinator remembers.            *)
PromisesRemembered == sup # "gone" => \A a \in promised : a <= requested

(* The action recorded as applied has been applied, behind the seal.       *)
AppliedIsDone ==
    mpc \in {"loop", "upgrading", "apply", "commit", "restart", "stuck"} =>
        /\ applied # Reboot => sealed
        /\ Erased(applied)

(* Nothing has been applied, and no client is held, before the task has    *)
(* asked the live client to stop.                                          *)
FreshTask ==
    /\ mpc = "stopping" => applied = Reboot
    /\ mpc \in {"none", "queued", "begin"} /\ sup # "gone" => held = NoClient

(* An erase is only ever attempted for something stronger than was done.   *)
GoalIsNewer ==
    mpc \in {"upgrading", "apply"} => applied < goal /\ goal <= requested

(* With the window closed only the reboot is left.                         *)
ClosedIsFinal ==
    ~accepting => /\ mpc \in {"restart", "stuck"} \/ sup = "gone"
                  /\ \A a \in promised : a # Reboot => sealed

(* Who may be at work, in every state of the chip.                         *)
TaskAccounting ==
    /\ mpc # "none" => running /\ sup \notin {"off", "gone"}
    /\ starting # NoAction => /\ running /\ sup # "off" /\ mpc = "none"
                             /\ starting <= requested
    /\ sup = "off" => ~running /\ accepting /\ promised = {}
    /\ sup = "unlinked" => mpc \notin Unyielding
    /\ bot # NoClient => sup \in {"run", "gone"}
    /\ active \in {bot, NoClient} \/ sup = "gone"

(* A marker left by a failed erase keeps the task retrying that erase.     *)
MarkedIsRetried ==
    /\ mpc = "apply" /\ goal = Reset => logoutAttempted
    /\ resetMark /\ mpc = "apply" => goal = Reset
    /\ resetMark /\ mpc = "loop" =>
           requested = Reset /\ logoutAttempted /\ applied < Reset

MaintenanceInv ==
    /\ TypeOK
    /\ PromisesRemembered /\ AppliedIsDone /\ FreshTask /\ GoalIsNewer /\ ClosedIsFinal
    /\ TaskAccounting /\ MarkedIsRetried
    /\ PromiseKept /\ OneTask /\ RunningClientIsActive /\ NoClientDuringReset

(* The linked device disappears from flash only in a reset that somebody   *)
(* asked for: credential loss is never a recovery policy, and a gentler    *)
(* maintenance action never erases it.                                     *)
DeviceErasedOnlyByReset ==
    [][device /\ ~device' => resetMark \/ (Reset = requested /\ goal = Reset)]_vars

(* Every accepted request ends in a reboot, in the wait that follows a     *)
(* restart the flash worker refused, or with the executor that ran it.     *)
RequestEndsInReboot == running ~> (sup \in {"off", "gone"} \/ mpc = "stuck")

(* A device the server keeps reporting as unlinked forgets its             *)
(* credentials, whatever the dashboard asks for meanwhile, once power      *)
(* stops failing; only a restart that was refused may leave them in place. *)
(* (A power loss before the reset marker is written does lose the request, *)
(* and the next connection is told of the unlinking again.)                *)
UnlinkedForgets ==
    <>[][ChipResets => Restart]_vars /\ []<>(sup = "unlinked") => []<>(~device \/ mpc = "stuck")
=============================================================================
