# Verification of whatsapp-rust-esp32

This directory holds TLA+ models of the WhatsApp firmware for the ESP32, the TLC
configurations that check them on small instances and TLAPS proofs of the results
that matter most. File and line references are to the repository (`src/...` here is
the crate's own `src/`).

## The system

The firmware runs the `whatsapp-rust` SDK on a chip with one application thread for
WhatsApp work and a few helper threads. Its parts, the state they keep and how they
meet:

| part | state | operations | meets |
|---|---|---|---|
| `supervisor.rs` MaintenanceCoordinator, `run_maintenance` | requested action, running, accepting; the task's locals | request, begin_reboot, cancel_start; stop client, seal, erase, reboot | called by the dashboard (httpd thread) and by the supervisor loop (executor thread); erases through NvsStore |
| `main.rs` supervisor loop, `supervisor.rs` ActiveClient | which client generation runs; the exit the observer recorded | build, run, exit, delay, park, reset | ActiveClient is read by the dashboard and by maintenance |
| `storage.rs` NvsStore | flash namespaces, reset marker, latest-sync marker, RAM mirrors, seal, validated session slots | open (replay, recovery), put/get/delete per store, batches, clear_sessions, reset, restart | SDK tasks on the executor, dashboard reads from httpd, all flash work on the `wa-nvs` thread |
| `transport.rs` WebSocket transport | send queue, event channel, pending event, shutdown flag | send, disconnect, the `ws-transport` thread | SDK sends and receives over bounded channels |
| `ws.rs` WebSocket framing | handshake leftover, header, payload and fragment in progress | connect (upgrade), read_frame, send_frame | used by the `ws-transport` thread only |
| `runtime.rs` executor, BlockingWorker, timers | spawn queue, blocking queue | spawn, sleep, spawn_blocking, block_on | everything |
| `admin.rs` dashboard | auth token, pair-code and send requests in flight | /send, /pair-code, /reboot, /clear-sessions, /reset, reads | ActiveClient, coordinator, executor queue |
| `supervisor.rs` DeviceStatus | connection state, pair code, message log | setters from the event handler, reads from httpd | event handler of each client generation |
| `http_client.rs`, `http_chunked.rs` | one connection; framing and chunk state; the memory gate | execute (buffered), execute_streaming, read | media transfers and the version fetch; execute blocks the executor thread, a streaming download runs on the worker |
| `main.rs` `feed_task_watchdog` | timer service, timer, failure count | feed, sleep, retry, give up | a task on the executor it guards |
| `crash.rs`, `metrics.rs`, `psram_alloc.rs` | RTC-memory panic record, counters, allocator | record, report | boot and panic handler |

What is hard here: two threads and several executor tasks share the coordinator, the
store and the active client; every flash step can fail or be the last one before
power is lost; channels are bounded, so a thread may wait on another that waits on
it; an answer may arrive after its timeout. The `hazards` list of PROJECT.json names
these places line by line.

### What makes each part correct

* **Maintenance**: an accepted action, or a stronger one, has been applied before
  the chip restarts; one task at a time; no client on half-erased credentials.
* **NvsStore reset**: forgetting a device is indivisible, and a store that was opened
  empty holds nothing of an earlier pairing.
* **NvsStore records**: acknowledged means durable; RAM never contradicts flash; a
  store that was open can be opened again.
* **Transport**: frames and events in order, each exactly once; nobody waits for
  ever; the end of a connection is announced.
* **Frame reader**: the messages are those the protocol defines, however the stream
  is cut, within the memory limits.
* **Dashboard**: an answer says what happened; what was given up is not done later;
  what is shown is true of the instance that runs.
* **HTTP client**: a success is exactly the response's body, never a truncated or
  misread one; a failure has a cause; a silent server costs bounded time and memory.
* **Runtime**: every spawned task ends; work nobody awaits does not run; without
  PSRAM one memory-hungry operation runs at a time, cancelled ones included.
* **Watchdog**: a hung executor is reported, the feeder's own trouble is not, and it
  does not starve what it guards.

## Modules

Each module states in its header which code it models and how coarse a step is.
PROJECT.json maps every definition to its source lines.

| module | models | state ↔ code |
|---|---|---|
| `Maintenance` | `MaintenanceCoordinator`, `run_maintenance` (supervisor.rs), `queue_maintenance` (admin.rs), the loop of `run_whatsapp` (main.rs) | `requested`, `running`, `accepting` are MaintenanceState; `mpc` and `goal`, `applied`, `logoutAttempted`, `held` are the task's position and locals; `sup`, `bot` the loop; `active` ActiveClient; `sealed` the store's seal; `device`, `sessions`, `resetMark` flash |
| `NvsReset` | `NvsStore::open`, `reset_all`, `erase_all`, the discarding of orphans, the writes of the clients of a boot (storage.rs) | `phase`, `cursor`, `tries` are the position in open or in an erase; `known` is StoreInner's device; `clients` the identities of the clients built in this boot, of which a superseded one may still write; a record is the pairing that wrote it |
| `LinkedDevice` | the abstract promise `NvsReset` implements | – |
| `NvsRecords`, `LruOrder` | one Signal record namespace: slots, mirror, use order, `SessionSlots` (storage.rs, storage/session_slots.rs) | `flash` slot → record; `mirror`, `order`, `cache` are the fields of StoreInner; `kind` picks session, identity or an uncapped store |
| `SyncKeys` | `get_sync_key`, `set_sync_key`, the latest-sync blob, `enforce_sync_keys_cap_except` | `syncFlash`, `marker` durable; `syncMirror`, `syncOrder`, `latest` RAM; `writing` the call between its two commits; `seen`, `best` the walk of `open` over the records, one record a step |
| `WsTransport` | `Esp32Transport`, `ws_thread` (transport.rs), `WriteJob`, `forward_pending` (write_completion.rs) | `pc` the thread's position; `queue`, `events`, `pending` the channels; `awaiting` the client's futures |
| `Connection` | the abstract promise `WsTransport` implements: two ordered lines that end once | – |
| `WsReader` | `WsClient::connect` from the answer on, `verify_upgrade`, `read_frame`, the limits (ws.rs) | `buffered` is the response buffer, then `pending`; `header_len`, `incoming`, `partial` are the reader's fields; a byte is its position in the stream; `script` is the frames the server sent, each with the place of its first byte |
| `HttpExchange` | `execute`, `execute_streaming`, `ExactLengthReader` (http_client.rs), `ChunkedReader` (http_chunked.rs) | `phase` the position in the call or in the body reader; `got`, `at` bytes read and consumed; `remaining`, `budget` the readers' counters; `script` is the items the server sent, each with the place of its first byte |
| `Runtime` | `Esp32Runtime`, `Esp32Executor`, `BlockingWorker` (runtime.rs), the permits of memory_gate.rs and their users | `pc` each task; `polling` a poll that blocks the thread; `slot`, `running` the worker; `gate` whose permit is out |
| `Watchdog` | `run_executor`'s registration and `feed_task_watchdog` (main.rs), the calls of `EspHttpClient::execute` that block their thread (http_client.rs) | `stage`, `service`, `timer`, `failures` the feeder; `waited` since it set its timer; `armed`, `age` the hardware watchdog; time in units of 250 ms |
| `DashboardSend` | POST /send, its task, `wait_for_send_admission` (admin.rs), `QuietPeriod`, `acquire_cancellable` (send_admission.rs), the memory gate (memory_gate.rs) | `awaited`, `reply` the httpd thread; `pc`, `oncpu` the tasks; `timer`, `gate` the two locks; `delivered` what the server took, `acked` what the SDK answered for |
| `DeviceStatus` | `DeviceStatus`, `ClientExitObserver` (supervisor.rs), the event handler (main.rs), POST /pair-code (admin.rs) | `qr`, `connected`, `account`, `log`, `pair` are its fields; `batch` a suspended handler; `pc`, `via` the linking attempts |

A module `…Proofs` holds the theorems about the module it is named after;
`NvsStoreProofs` is about `NvsRecords` and `SyncKeys`, and `RuntimeProofs` also about
`Watchdog` and `HttpExchange`, which therefore share no names. The `MC…` modules give
constants their values, and two of them put two modules into one run. The modules meet
in shared ideas rather than shared variables: `Maintenance` takes an erase as one step
that succeeds, or fails with any part done; `NvsReset` opens that step up and shows
that this is all a caller can see. `WsTransport` takes a frame from the socket as one
step; `WsReader` opens it up. `Runtime` takes an HTTP transfer as one step that ends;
`HttpExchange` opens it up and shows that it does (`RequestsEnd`). `DashboardSend` and
`Runtime` share the gate: each has the other's users as contenders.

Definitions that are named as faulty variants (`…Unprotected`, `…Silently` and the
like) are not part of any specification. They are plausible mistakes, kept to show
that each property notices one.

### Granularity

Executor code runs on one thread, so what lies between two awaits is one step;
anything another thread (httpd, `wa-nvs`, the socket thread) can observe in between
is split. A flash operation is atomic in itself (NVS guarantees it), may report an
error with or without effect, and power can be lost after each. Errors of libraries
and of the server are nondeterministic outcomes. Payloads, texts, JSON, HTML and
logging are left out; keys, clients and pairings are model values.

## Runs

| run | module | instance | what it shows |
|---|---|---|---|
| `maintenance` | Maintenance | 3 client identities, power may fail, the executor may end | `PromiseKept`: when the window closes, every accepted action has been applied behind the seal; `OneTask`; `RunningClientIsActive`: a running client can be found by whoever must stop it; `NoClientDuringReset`; `RequestEndsInReboot`; `UnlinkedForgets`: a device that keeps being unlinked, once the chip stays up, forgets its credentials |
| `reset` | NvsReset | 3 identities, records in 3 of the 7 namespaces | `NoMixing`: an open store holds no identity from before it was last opened empty; `ForgottenStaysForgotten`; the refinement `PromiseHolds`; `ResetCompletes`: a committed reset completes once faults stop |
| `nvs_store` | NvsRecords | 4 keys on 3 slots (2 collide), 2 values, budgets 2 and 3, cache of 1 | acknowledged records are durable (`AckedIsDurable`) and never overwritten by another key (`NeverClobbers`), the namespace can be reopened (`CanReopen`), mirror and use order agree with flash (`MirrorIsFresh`) |
| | SyncKeys | 4 ids, mirror cap 2 | `LatestIsHeld`: the latest key is the last one set, mirrored and durable; `FallbackIsNewest`; `OrderFollowsMirror`: the use order lists the mirrored keys, each once |
| `sync_cap` | SyncKeys | the same | **violation**: with the latest key the oldest, the mirror is over its cap |
| `ws` | WsTransport | 2 tasks, queue 1, channel 1, 3 sends, 3 frames | `IsAConnection`: the refinement of `Connection` (order and completeness both ways, acknowledged is written); `EndIsTold`; `SendsResolve`; `DisconnectEnds` |
| `ws_torn` | WsTransport | 2 sends, 2 frames | **violation**: a frame follows a torn pong |
| `ws_reader` | WsReader | 6 answers, 18 frame kinds, scripts of 4 | `MessagesAreExact`: exactly the messages the frames spell, in order, none left out; `RefusesExactlyIllegal`; `MemoryIsBounded`; all from the upgrade on |
| `http` | HttpExchange | 6 requests, 12 heads, 11 kinds of item | `OutcomeIsExact`: at every moment the bytes handed over are those of the body up to the reader's place, in order; a success is a whole legal answer, a failure has a cause; `MemoryIsBounded`; `RequestsEnd` |
| `executor` | Runtime | a download, a reply, a crypto job, a fetch; one abort, any cancellation; with and without the gate | `HeavyIsExclusive`, `WorkIsWanted`, `EveryTaskEnds` |
| | Watchdog | the firmware's numbers: 5 s, 30 s, 12 failures; calls that block for 2.5 and 30 s | `AlarmHasCause`: the watchdog reports only an executor that hangs or was blocked by others for the whole timeout; `WedgeIsReported` |
| `watchdog_yield` | Watchdog | the same | **violation**: two back-offs in a row, nobody else runs |
| `send` | DashboardSend | 2 requests, 2 clients, with and without the gate | `ReplyIsTruthful`, `GivenUpIsNotSent`, `OneHeavyOperation`, `GivenUpTasksEnd` |
| `status` | DeviceStatus | 2 clients, 2 attempts, batches of 2, a log of 1 | no dead connection, unlinked account (`StatusFollowsClient`) or superseded code (`ShownCodeIsNewest`) is shown; `AttemptsSettle` |

Two runs check two modules each. The namespaces of the store share no state, and
Runtime and Watchdog share none either (one has no durations, the other no task but the
feeder), so `MCNvsStore` and `MCExecutor` let a behaviour be one of either module, chosen
in the initial state and with that module's fairness. Nothing is gained by interleaving
them, and nothing lost: a step of one changes no variable of the other.

### Why these bounds

* *Maintenance*: a third client identity appears only as one more replacement; the
  interesting races need the old client, the new one and a reused identity.
* *NvsReset*: three identities are the linked one and the two that clients of one boot
  may generate after it, or two successive pairings and the next. `Used` bounds the
  namespaces that are written to: one Signal namespace erased early, the one erased
  last, and the latest-sync blob; the erase still goes through all eight steps. The
  proofs are for any of the namespaces and any set of identities.
* *NvsRecords*: two keys share a slot and two do not, so that collision, a full
  namespace and eviction from mirror and cache all happen, and a cache of one evicts
  on every second key. Sessions have no mirror and a budget below the number of
  slots; identities are mirrored below their budget, as on a board without PSRAM.
* *SyncKeys*: with a cap of two, the least recently used key can be the latest one.
* *WsTransport*: capacity one is what a board without PSRAM uses and is the hardest
  case; the other board's capacities only remove waiting. Three sends fill the
  writer, the queue and a caller refused by it; three frames fill the thread's
  pending slot, the channel and the socket.
* *WsReader*: the limits are scaled down (frame 2, message 3, control 1) and the 18
  kinds lie on both sides of each; four frames allow a fragmented message with a
  control frame inside and something after it. Headers of 2, 4 and 10 bytes are real.
  The six answers are genuine ones within and over the size limit, one that is no
  101, one whose first Upgrade header is overridden by a right one, one whose accept
  value is overridden by a wrong one, and one with a header missing; a read may take
  two frames along with them.
* *HttpExchange*: limits scaled down (head, total, metadata) with heads, lines and
  trailers on both sides of each. The items cover every way a chunked body can be
  right or wrong; reads are cut at every byte.
* *Runtime*: one task of each kind, which is one per way of holding gate, slot, worker
  and executor at once; a second of a kind only queues behind the first.
* *Watchdog*: nothing is scaled. `Stalls` are the times one blocking call may take, up
  to HTTP_IO_TIMEOUT; any number of calls may follow one another before the feeder gets
  its turn, so that their sums reach and pass the feed interval and the timeout in small
  steps and in one.
* *DashboardSend*: one abandoned task and one live request, over a replaced client.
* *DeviceStatus*: the superseded instance and its successor; an attempt that is late
  and the one after it; a batch that is interrupted once; a log that overflows.

### Fairness

* *Maintenance*: weak fairness for each step of the spawned task and of the
  supervisor, since the executor polls every task that is ready, and the waits for a
  client's shutdown and for the logout have timeouts. Strong fairness for `ApplyOk`
  and `OpenOk`: the code retries a failed erase and reboots into a failed open for
  ever, so the assumption is that flash does not fail every single time.
* *NvsReset*: weak fairness for open, for each erase step and for the retry.
  `ResetCompletes` has its own premise that faults stop.
* *WsTransport*: weak fairness for the thread, whose reads and writes all have socket
  timeouts and whose wait for channel room is a retried `try_send`, and for the client's
  read loop when it is not itself awaiting a write. The other tasks get none.
* *HttpExchange*: weak fairness for the client, whose every socket call returns within
  HTTP_IO_TIMEOUT. None for the server.
* *Runtime*: strong fairness for the steps of each task: the executor polls what is
  woken in queue order, the async mutex and the bounded channel serve waiters in order.
  Weak fairness for the end of a transfer and for the worker. None for aborts,
  cancellations or the end of the executor.
* *Watchdog*: weak fairness for the passing of time, nothing else.
* *DashboardSend*: strong fairness for a task's own progress, for its turn at the
  async mutex of the timer (which serves waiters in order) and for the five-second
  deadline of the quiet wait; weak fairness for the handler's answer, bounded by
  SEND_TIMEOUT. None for the gate's other user, nor for failures of the timer.
* *DeviceStatus*: weak fairness for the httpd handler's two remaining steps and for
  each linking task, whose waits (socket, server) have timeouts. None for events,
  exits, logins, maintenance or the expiry of a code.

`CHECK_DEADLOCK FALSE` is set in `send`, where a board with PSRAM has nothing left to do
once the bounded requests are used up, and in `executor`, which ends when all tasks have
or when after the end of the feeder only time is left, which changes nothing more.

## Proofs

Every component is proved about: the theorems state all the invariants and action
properties the runs check, and both refinements, for every value of the constants,
where the runs above check one small instance. The sets of clients,
pairings and tasks may be infinite; the assumptions on the constants are only these:

* `Maintenance`, `NvsReset`, `Runtime`: the value for nobody is not a client, pairing
  or task; `ExecutorMayExit` is Boolean; each task has one of the four kinds.
* `Watchdog`: the feed interval is shorter than the timeout, and no socket call blocks
  for longer than its own timeout. Nothing relates the two timeouts.
* `NvsRecords`: finitely many keys and slots, of which `SlotOf` is any function (two
  keys may share a slot); the value for nothing is neither a key nor a value; the
  cache has room for at least one slot (it has 8).
* `SyncKeys`: the value for no id is none; timestamps, cap and budget are numbers.
* `WsReader`: limits are numbers, a read asks for at least one byte, a header has 2 to
  10 bytes. `HttpExchange`: limits are positive, an item is of one of five kinds and its
  metadata line has at least one byte. Nothing is assumed of the order in which frames
  or items come, or of how the stream is cut.
* `WsTransport`: the reader is one of the tasks; both queues have room for one.
* `DashboardSend`: the two values for nobody and for another user of the gate differ
  and are no requests. `DeviceStatus`: a batch and the log have room for one message.

Each proof goes through an inductive invariant with one lemma per action, and each
theorem about a property of a run follows from it.

**`MaintenanceProofs`**: `Spec => []` of `TypeOK`, `PromiseKept`, `OneTask`,
`RunningClientIsActive` and `NoClientDuringReset`, and the action property
`DeviceErasedOnlyByReset`, through `MaintenanceInv`. `PromiseKept` is not inductive:
it speaks of the closed window, and what leads there is that the coordinator
remembers the strongest promise (`PromisesRemembered`), that what the task recorded as
applied really is erased and cannot come back (`AppliedIsDone`: the seal), and that
it closes the window only when nothing stronger is requested (`GoalIsNewer`,
`ClosedIsFinal`). `OneTask` and `RunningClientIsActive` need `TaskAccounting` and
`FreshTask`: who can be at work in which state, and that a task holds no client before
it asked for one. `NoClientDuringReset` needs `MarkedIsRetried`: a marker left by
a failed erase sends the loop back into the same erase. The proof goes by process
(httpd, task, supervisor, chip), one step per action.

**`NvsResetProofs`**: `Spec => []` of `TypeOK`, `NoMixing`, `ForgottenStaysForgotten`
and `DoneIsClean` through `ResetInv`, and `StoreKeepsItsPromise`: `Spec => Promise!Spec`,
the refinement of `LinkedDevice` with `linked` mapped to the device record unless the
reset marker is set. A boot may build any number of clients, and as long as no save of
the device has succeeded each of them generates an identity of its own; `cohort` are
the identities generated since the store was last opened empty, the only ones that can
meet. `Swept` is the loop invariant of the erase (nothing is left behind the cursor),
`Coherent` says an unmarked device sits among records of its own cohort, of which
nothing was given up, `Accounted` that the marker covers exactly what was given up,
`MarkByPhase` ties the marker to the phase. `StepSimulates` shows that each step is a
`LinkedDevice` step or a stutter: committing the marker is `Forget`, every erase step a
stutter.

**`RuntimeProofs`**: `Spec => []` of `HeavyIsExclusive` and `WorkIsWanted` through
`RuntimeInv`. What runs now says nothing of what will: `PermitHeld` speaks of everybody
who relies on a permit, the job left in the slot by a cancelled download included, so
that a free gate means nobody does. Moving a permit from a task to its job is sound
because a job is handed over once (`NoJobYet`, `JobsInOrder`); `GivenUpIsOver` says an
aborted task can only be on its way to its last poll.

Of `Watchdog`: the action property `AlarmHasCause` and `[]StarvationIsBounded` (what is
left of the yield: a feeder retries fewer than MAX_CONSECUTIVE_FAILURES times in a row)
through `WatchdogInv`: an armed watchdog was fed in the round the feeder is in
(`RoundIsFed`), so that while the feeder waits the watchdog's age is the time since it
set its timer (`AgeIsWaited`), a feeder that ended left none armed (`EndedIsDisarmed`),
and each retry since the last sleep was paid for with a failure (`FailuresPay`).

Of `HttpExchange`: `HttpSpec => []` of `OutcomeIsExact` and `MemoryIsBounded` through
`HttpInv`. A byte is a position, so "the right bytes" is `Taken`: the positions handed
over are those of the body up to `at`, in increasing order. It is not inductive alone,
since whether the next byte is body depends on where the reader believes itself to be.
`InChunked` says where that is: before, or in the data of, item c, with every item
before c a legal chunk (`Chunky`), or behind the last chunk with legal trailers only and
exactly the rest of the limit left (`AtTrailers`). From it follows that a line is
skipped and data delivered where they lie (`DataOfItem`, `LineSkips`), that a body which
ends early was not complete (`CutShort`), that a refused item is one that may not stand
there, and that a line over the budget is one the trailers have no room for
(`TrailersOverflow`). New items lie behind what was read and change none of it
(`ItemsGrow`, `DataGrows`). The proof found one statement too strong: trailers that use
the limit up leave no room for the blank line and are refused before it arrives, so
`TrailersFit` asks for room, or for the blank line to be the last byte of the limit.

**`NvsStoreProofs`**: `Spec => []` of `AckedIsDurable`, `CanReopen` and
`MirrorIsFresh`, and the action property `NeverClobbers`: all that the run checks,
through `RecordsInv`. None is inductive. A write is let through on the word of the
cache of validated slots without a look at flash, so neither "no record is
overwritten" nor "the namespace is within its budget" survives a write unless the
cache is true of flash (`CacheInv`: every entry names the key that is in its slot,
and no slot twice). That in turn holds because deletions empty the cache first and
writes only ever put a slot's own key back (`SlotIsOurs`). `MirrorShape` says that the
use order lists the mirrored keys once each: only then does dropping the first
`len - cap` of the order bring the mirror down to its cap (`EnforceCapIs`). The lemmas
about sequences (`RemoveFirstIs`, `TouchedIs`, `DistinctLength`, `DropFront`, `WalkIs`)
need no induction, because the sequences have no repetitions: the position to remove
is unique, and a walk is an injection between finite sets of one size.

Of `SyncKeys`: `SyncSpec => []` of `LatestIsHeld`, `OrderFollowsMirror` and
`MirrorNearCap` (what is left of the cap: one over it at most), and the action property
`FallbackIsNewest`, through `SyncInv`. The use order lists the mirror and is at
most one over the cap (`Lists`): the only key an eviction spares is the protected one.
`MarkerTrue` says what the durable marker is worth between its commit and the record's,
after a failed set and after a power loss; `Walked` is the loop invariant of the replay
at boot: the best guess so far is mirrored, hence protected, and is the newest seen.

**`WsReaderProofs`**: `Spec => []` of `MessagesAreExact`, `RefusesExactlyIllegal` and
`MemoryIsBounded` through `ReaderInv`: the reader is in one frame c of the stream, at
the byte that `header_len` or `incoming` says, and of the frames before c the messages
they complete are exactly those handed over (`OutOK`), the message they leave open is
`partial` with its length (`PartialOK`), and none is illegal (`LegalOK`). Where a message
begins and which frames are its parts is stated with quantifiers over the frames
(`Begins`, `Follows`), and a frame carries the data bytes before it, so that the length
of a message is a difference and no sum over frames is needed.

**`WsTransportProofs`**: `Spec => []EndIsTold`, and `Spec => IsAConnection`, the
refinement of `Connection`, for every capacity of the two queues, through `LineInv`. It
has one half for each direction. Outbound (`JobsInOrder`): what was accepted is
written, being written or queued, numbered without a gap as long as the thread may
write. Inbound (`EventsInOrder`): what the client was given, followed by the channel,
is `Connected`, the frames in order but for the pending one, and `Disconnected` exactly
when the thread is gone. A thread that moves between its positions keeps both halves;
taking an event moves it from the channel to the client and leaves the stream alone
(`HandOverKeepsStream`). The refinement then has one step per action: a stutter, or
the step of `Connection` on the line it touches.

**`DashboardSendProofs`**: `Spec => []` of `ReplyIsTruthful`, `GivenUpIsNotSent` and
`OneHeavyOperation` through `SendInv`. A send that fails may have been taken by the
server, so a 502 only says that no acknowledgement came. A result is written once, by
the request's own task as it ends (`ResultIsOwn`), so that a late task of an abandoned
request cannot answer for another; a request given up before the last look has its flag
up while its task still waits (`GivenUpIsFlagged`); and whoever is past the gate holds
it, a task that is merely between admission and the send included (`GateHeld`).

**`DeviceStatusProofs`**: `Spec => []` of `StatusFollowsClient` and `ShownCodeIsNewest`
through `DeviceInv`, whose halves `StatusInv` and `PairingInv` are each left alone by
the other's actions. `ShownIsRunning` ties what is shown to the instance that runs.
`ShownCodeIsNewest` needs the history of an attempt: a live one was counted and is the
pending one, unless a login cleared it, and then the device is linked for good
(`LiveIsPending`); so at most one is with the server (`OneAtServer`), and the code it
brings back is the newest (`CodeIsNewest`).

**Only model-checked**:

* all liveness (`RequestEndsInReboot`, `UnlinkedForgets`, `ResetCompletes`,
  `SendsResolve`, `DisconnectEnds`, `GivenUpTasksEnd`, `AttemptsSettle`, `RequestsEnd`,
  `EveryTaskEnds`, `WedgeIsReported`): the prover has neither fairness nor ENABLED;
* that `NothingAfterTorn`, `MirrorWithinCap` and `RetryYields` are violated:
  counterexamples, not theorems.

The proofs need no induction over data: a frame or item carries its place in the
stream, and the boot replay of `SyncKeys` is one step per record, so that what would
have been a fold is an invariant of steps.

## Where the code and its comments disagree

Three runs expect a violation: each states what a comment says, and TLC shows a behaviour
of the code that breaks it.

* `ws_torn`: transport.rs:377-382 says a stalled write fails and ends the thread. The
  error of `send_pong` (line 442) is discarded, so a pong that stopped part way is
  followed by the next frame on the same stream.
* `sync_cap`: storage.rs:159-160 gives the mirror at most 8 entries.
  `enforce_sync_keys_cap_except` takes the oldest `len - 8` keys and then drops the
  protected one from them, so with the latest key the oldest nothing is evicted: 9 of 8.
  `MirrorNearCap` (proved) says that one is all it is ever over.
* `watchdog_yield`: main.rs:585 says a retry backs off and yields to the executor. The
  sleep blocks the executor's thread and the future after it is ready at once, so no
  other task runs between two retries. `StarvationIsBounded` (proved) says that the
  retries end.

Two behaviours are worth knowing although no comment, test or doc claims otherwise:

* The store answers `load()` from RAM (storage.rs:2030), and only a successful save
  fills that copy. A client rebuilt in the same boot (main.rs:608-683) before one
  generates a second identity, and finds on flash the records, or after a failed save
  the device record, of the first. `NoMixing` therefore speaks of the identities
  generated since the store was last opened empty, which is a single one unless that
  happens.
* A buffered fetch blocks the executor for up to 30 s in each socket call
  (http_client.rs:22), as long as the watchdog waits, so a slow server alone can get a
  working executor reported. `AlarmHasCause` counts that as a cause and shows that the
  feeder's own failures never are.

The models record what the code does in these places too, where a comment says a
little more; no run is spent on them:

* main.rs:531 speaks of about a minute of failures before the watchdog is given up.
  That is so when feeding fails; when the timer fails, the 12th failure comes after
  eleven retries of 250 ms, less than three seconds.
* main.rs:797 says a superseded instance must not touch the shared status. The test
  is made once per event; a batch of messages awaits in its loop, and its next message
  is logged after the instance was superseded (`ResumeMessages`). `StatusFollowsClient`
  says nothing of the log.
* main.rs:494 takes ESP_ERR_INVALID_STATE for a successful registration; the feeder
  then fails to feed and gives up, harmlessly (`AlarmHasCause`).
* ws.rs:153 tests the size of the answer before each read, so an answer over
  MAX_HANDSHAKE_BYTES by less than one read is accepted or refused depending on how it
  is cut. http_client.rs:436 looks for the end of the head before it tests the size,
  with the same effect. `MemoryIsBounded` states the bounds that do hold.

One window is accepted by the code and is not called a disagreement: between a send
task's last look at the abandoned flag (admin.rs:633) and the send itself the httpd
thread may give up. `GivenUpIsNotSent` therefore speaks of requests given up before
that look.

## Not modelled

* RAM-only stores (versions, mappings, device lists, tc tokens, message secrets):
  updates of a map under one lock, lost at every boot by design. No interleaving
  reaches between their steps and no other state depends on them.
* The flash worker's rendezvous channel: operations are taken to run one at a time, in
  the order of their callers, which is what a single thread behind a channel gives.
* `sleep` and `YieldNow` of the runtime, the restart delay and the length of a ban:
  durations, which matter to no property here.
* Outbound masking, header forms and the text of requests: pure functions of their
  input, covered by host tests. TLS is an outcome of connecting.
* Wi-Fi, SNTP and mDNS: calls into ESP-IDF made once, in order, at boot.
* The dashboard's authentication (a stateless comparison of a token) and read-only
  routes; crash records (written in the panic handler, read once at boot); metrics;
  the allocator (a choice of heap per allocation); the emulation-only Ethernet
  component; scripts and tests: no protocol state.
* Real time: except in `Watchdog`, a delay or timeout is an action that may happen,
  never a duration.

## Status

Every part of the system with protocol state is modelled, and every invariant, action
property and refinement that a run checks is proved. What would extend the project:

1. The flash worker's rendezvous channel as a component of its own, should an operation
   ever be issued from more than one caller at a time without awaiting it.
2. Durations: only `Watchdog` measures time; how long a request of `HttpExchange` or a
   quiet wait of `DashboardSend` may take is stated nowhere, only that it ends.
