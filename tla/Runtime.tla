------------------------------- MODULE Runtime -------------------------------
(***************************************************************************)
(* Esp32Runtime and what competes for it: tasks spawned from any thread    *)
(* onto one executor thread, the wa-blocking thread with its one-slot      *)
(* queue (BlockingWorker), and the memory gate a board without PSRAM puts  *)
(* in front of whatever needs much RAM (memory_gate.rs).                   *)
(*                                                                         *)
(* Kinds of task, by what they use:                                        *)
(*   crypto    a spawn_blocking job of the client                          *)
(*   download  streaming_admission, then a job that owns the permit        *)
(*   reply     the demo's reply: the permit, then a crypto job (its send)  *)
(*   fetch     EspHttpClient::execute: the permit, then a transfer that    *)
(*             blocks the executor thread itself                           *)
(***************************************************************************)
EXTENDS Naturals, FiniteSets

CONSTANTS
    Tasks,      \* bound: tasks ever spawned
    Kind,       \* what each of them does
    NoTask,
    MaxAborts   \* bound: AbortHandles that fire

Kinds == {"crypto", "download", "reply", "fetch"}

ASSUME RuntimeAssumption == NoTask \notin Tasks /\ Kind \in [Tasks -> Kinds] /\ MaxAborts \in Nat

VARIABLES
    gated,     \* there is a memory gate: no PSRAM; never changes
    up,        \* block_on has not returned
    pc,        \* where each task is
    aborted,   \* tasks whose AbortHandle has fired
    polling,   \* the task whose poll blocks the executor thread
    gate,      \* the task whose permit, or whose job's permit, is out
    slot,      \* the job in the one-slot queue
    running,   \* the job the worker runs
    \* history: jobs started and finished; tasks given up before theirs was
    started, finished, unwanted

executor == <<up, polling>>
worker   == <<slot, running, started, finished>>
vars     == <<gated, executor, pc, aborted, gate, worker, unwanted>>

(* "queued" in the spawn channel, "ready" on the executor's queue; then    *)
(* what the task awaits: the gate, room for its job, its job's completion. *)
Awaiting == {"gate", "room", "completion"}
States   == {"new", "queued", "ready", "blocking", "ended"} \cup Awaiting

TypeOK ==
    /\ gated \in BOOLEAN /\ up \in BOOLEAN
    /\ pc \in [Tasks -> States]
    /\ aborted \cup started \cup finished \cup unwanted \subseteq Tasks
    /\ {polling, gate, slot, running} \subseteq Tasks \cup {NoTask}
    /\ polling # NoTask => pc[polling] = "blocking"
    /\ running # NoTask => running \in started \ finished

Init ==
    /\ gated \in BOOLEAN /\ up = TRUE
    /\ pc = [t \in Tasks |-> "new"] /\ aborted = {}
    /\ polling = NoTask /\ gate = NoTask
    /\ slot = NoTask /\ running = NoTask
    /\ started = {} /\ finished = {} /\ unwanted = {}

-----------------------------------------------------------------------------
(* Spawning and aborting, from any thread.                                 *)

(* Runtime::spawn: a closed queue drops the future.                        *)
Spawn(t) ==
    /\ pc[t] = "new"
    /\ pc' = [pc EXCEPT ![t] = IF up THEN "queued" ELSE "ended"]
    /\ UNCHANGED <<executor, aborted, gate, worker, unwanted>>

HasJob(t) == Kind[t] # "fetch"

(* The AbortHandle sets a flag that the next poll reads; it wakes nobody.  *)
Abort(t) ==
    /\ pc[t] \notin {"new", "ended"} /\ t \notin aborted
    /\ Cardinality(aborted) < MaxAborts
    /\ aborted' = aborted \cup {t}
    /\ unwanted' = IF pc[t] \in {"queued", "ready", "gate", "room"} THEN unwanted \cup {t} ELSE unwanted
    /\ UNCHANGED <<executor, pc, gate, worker>>

-----------------------------------------------------------------------------
(* The executor thread.                                                    *)

Idle == up /\ polling = NoTask

(* block_on's pump.                                                        *)
Pump(t) ==
    /\ Idle /\ pc[t] = "queued"
    /\ pc' = [pc EXCEPT ![t] = "ready"]
    /\ UNCHANGED <<executor, aborted, gate, worker, unwanted>>

(* What the task waits for is there, so its waker has been called.         *)
Woken(t) ==
    \/ pc[t] = "ready"
    \/ pc[t] = "gate" /\ gate = NoTask
    \/ pc[t] = "room" /\ slot = NoTask
    \/ pc[t] = "completion" /\ t \in finished

Poll(t) == Idle /\ Woken(t) /\ t \notin aborted

(* Faulty variant: a permit stays with the task.                           *)
PermitStays(t) == FALSE

(* A permit lives in the task until it is moved into the task's job.       *)
JobOwnsPermit(t) == Kind[t] = "download" /\ (slot = t \/ running = t)

(* Dropping a future drops its permit, and the completion receiver of a    *)
(* job that was handed over.                                               *)
Drops(ts) ==
    /\ gate' = IF gate \in ts /\ ~JobOwnsPermit(gate) THEN NoTask ELSE gate
    /\ unwanted' = unwanted \cup (ts \ started)

(* AbortableFuture::poll once the flag is set.                             *)
PollAborted(t) ==
    /\ Idle /\ Woken(t) /\ t \in aborted
    /\ pc' = [pc EXCEPT ![t] = "ended"]
    /\ Drops({t})
    /\ UNCHANGED <<executor, aborted, worker>>

(* A future that contains the wait is dropped: a timeout, a lost race.     *)
Cancel(t) ==
    /\ Idle /\ pc[t] \in Awaiting
    /\ pc' = [pc EXCEPT ![t] = "ended"]
    /\ Drops({t})
    /\ UNCHANGED <<executor, aborted, worker>>

(* The first poll: heavy work queues for the gate.                         *)
Start(t) ==
    /\ Poll(t) /\ pc[t] = "ready"
    /\ IF gated /\ Kind[t] # "crypto"
       THEN pc' = [pc EXCEPT ![t] = "gate"] /\ UNCHANGED polling
       ELSE IF HasJob(t) THEN pc' = [pc EXCEPT ![t] = "room"] /\ UNCHANGED polling
            ELSE pc' = [pc EXCEPT ![t] = "blocking"] /\ polling' = t
    /\ UNCHANGED <<up, aborted, gate, worker, unwanted>>

AdmitTo(t, next) ==
    /\ Poll(t) /\ pc[t] = "gate"
    /\ gate' = t
    /\ IF HasJob(t) THEN pc' = [pc EXCEPT ![t] = next] /\ UNCHANGED polling
       ELSE pc' = [pc EXCEPT ![t] = "blocking"] /\ polling' = t
    /\ UNCHANGED <<up, aborted, worker, unwanted>>

(* Faulty variant: work that holds the permit asks for it again.           *)
AdmitTwice(t) == AdmitTo(t, IF Kind[t] = "reply" THEN "gate" ELSE "room")

(* MemoryGate::acquire returns; the worker is asked for only now.          *)
Admit(t) == AdmitTo(t, "room")

(* A reply whose client was replaced while it waited: the permit goes back *)
(* unused.                                                                 *)
Superseded(t) ==
    /\ Poll(t) /\ pc[t] = "gate" /\ Kind[t] = "reply"
    /\ pc' = [pc EXCEPT ![t] = "ended"]
    /\ unwanted' = unwanted \cup {t}
    /\ UNCHANGED <<executor, aborted, gate, worker>>

(* BlockingWorker::execute: jobs.send.                                     *)
Submit(t) ==
    /\ Poll(t) /\ pc[t] = "room"
    /\ slot' = t
    /\ pc' = [pc EXCEPT ![t] = "completion"]
    /\ UNCHANGED <<executor, aborted, gate, running, started, finished, unwanted>>

Release(t) == IF gate = t THEN NoTask ELSE gate

(* The job is done: the task goes on to its end.                           *)
Resume(t) ==
    /\ Poll(t) /\ pc[t] = "completion"
    /\ pc' = [pc EXCEPT ![t] = "ended"]
    /\ gate' = Release(t)
    /\ UNCHANGED <<executor, aborted, worker, unwanted>>

(* A buffered transfer ends, by its socket timeout if need be.             *)
FetchEnds ==
    /\ polling # NoTask
    /\ pc' = [pc EXCEPT ![polling] = "ended"]
    /\ gate' = Release(polling)
    /\ polling' = NoTask
    /\ UNCHANGED <<up, aborted, worker, unwanted>>

(* The main future of a library consumer returns: all tasks are dropped.   *)
BlockOnReturns ==
    /\ Idle
    /\ up' = FALSE
    /\ pc' = [t \in Tasks |-> IF pc[t] = "new" THEN "new" ELSE "ended"]
    /\ Drops({t \in Tasks : pc[t] \notin {"new", "ended"}})
    /\ UNCHANGED <<polling, aborted, worker>>

-----------------------------------------------------------------------------
(* The wa-blocking thread.                                                 *)

(* Faulty variant: every job in the queue is run.                          *)
ForsakenNever(t) == FALSE

(* done.is_closed: nobody awaits the job any more.                         *)
Forsaken(t) == pc[t] = "ended"

(* Skipping a job drops it, with the permit it may own.                    *)
SkipJob ==
    /\ running = NoTask /\ slot # NoTask /\ Forsaken(slot)
    /\ slot' = NoTask
    /\ gate' = Release(slot)
    /\ UNCHANGED <<executor, pc, aborted, running, started, finished, unwanted>>

RunJob ==
    /\ running = NoTask /\ slot # NoTask /\ ~Forsaken(slot)
    /\ running' = slot /\ slot' = NoTask
    /\ started' = started \cup {slot}
    /\ UNCHANGED <<executor, pc, aborted, gate, finished, unwanted>>

(* The closure returns, dropping what it owns, and completes.              *)
JobEnds ==
    /\ running # NoTask
    /\ gate' = IF JobOwnsPermit(running) THEN Release(running) ELSE gate
    /\ finished' = finished \cup {running}
    /\ running' = NoTask
    /\ UNCHANGED <<executor, pc, aborted, slot, started, unwanted>>

Worker == SkipJob \/ RunJob \/ JobEnds

Proceeds(t) == Pump(t) \/ PollAborted(t) \/ Start(t) \/ Admit(t) \/ Superseded(t)
               \/ Submit(t) \/ Resume(t)

Next ==
    /\ \/ \E t \in Tasks : Spawn(t) \/ Abort(t) \/ Cancel(t) \/ Proceeds(t)
       \/ FetchEnds \/ BlockOnReturns \/ Worker
    /\ UNCHANGED gated

Step(A) == A /\ UNCHANGED gated

(* The executor polls whatever is woken, the gate and the queue serve      *)
(* their waiters in order, and blocking work ends.  Nothing makes a task   *)
(* be cancelled.                                                           *)
Spec ==
    /\ Init /\ [][Next]_vars
    /\ \A t \in Tasks : SF_vars(Step(Proceeds(t)))
    /\ WF_vars(Step(FetchEnds)) /\ WF_vars(Step(Worker))

-----------------------------------------------------------------------------
(* Without PSRAM one memory-hungry operation runs at a time, also after    *)
(* the future that wanted it is gone: a download whose caller gave up      *)
(* keeps its permit until its connection is closed.                        *)
Heavy == {t \in Tasks : \/ pc[t] = "blocking"
                        \/ Kind[t] = "download" /\ running = t
                        \/ Kind[t] = "reply" /\ pc[t] \in {"room", "completion"}}

HeavyIsExclusive == TypeOK /\ (gated => Heavy \subseteq {gate})

(* A task resumes only after its job has run to the end, and a job whose   *)
(* task was aborted before handing it over, or dropped before it started,  *)
(* never runs: a storm of cancelled work does not pile up on the worker.   *)
WorkIsWanted ==
    /\ unwanted \cap started = {}
    /\ \A t \in Tasks : pc[t] = "completion" => slot = t \/ t \in started

(* Every spawned task ends, aborted ones included although an abort wakes  *)
(* nobody: no circle of tasks, gate and worker waits on itself.            *)
EveryTaskEnds == \A t \in Tasks : pc[t] = "queued" ~> pc[t] = "ended"
=============================================================================
