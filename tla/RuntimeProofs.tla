---------------------------- MODULE RuntimeProofs ----------------------------
(***************************************************************************)
(* Proofs about what the runtime runs.                                     *)
(*                                                                         *)
(* Runtime, for any set of tasks, of any kinds: the memory gate admits one *)
(* heavy operation at a time, cancelled ones included, and the worker runs *)
(* no job that nobody wants.  Watchdog, for every timeout, shorter feed    *)
(* interval, number of failures and length of a call that blocks the       *)
(* executor: why it rings.  HttpExchange, for every request, head, item    *)
(* and limit: what a request hands over, and what the client then holds.   *)
(***************************************************************************)
EXTENDS Runtime, Watchdog, HttpExchange, SequenceTheorems, TLAPS

(* A task that has not handed its job over has none.                       *)
NoJobYet ==
    \A t \in Tasks : pc[t] \in {"new", "queued", "ready", "gate", "room"} =>
                        t \notin started /\ slot # t

(* A job is in the slot, or has been started; only a fetch blocks, and it  *)
(* has none.                                                               *)
JobsInOrder ==
    /\ slot # NoTask => slot \notin started /\ HasJob(slot)
    /\ finished \subseteq started
    /\ \A t \in started : HasJob(t)
    /\ \A t \in Tasks : /\ pc[t] = "blocking" => ~HasJob(t)
                        /\ pc[t] = "room" => HasJob(t)
    /\ \A t \in Tasks : pc[t] = "completion" => slot = t \/ t \in started

(* The task, or the job it left behind, relies on the permit.              *)
Relies(t) ==
    \/ pc[t] = "blocking"
    \/ Kind[t] = "download" /\ (pc[t] = "room" \/ slot = t \/ running = t)
    \/ Kind[t] = "reply" /\ pc[t] \in {"room", "completion"}

PermitHeld == gated => \A t \in Tasks : Relies(t) => gate = t

(* A task that was given up will not hand a job over.                      *)
GivenUpIsOver ==
    \A t \in unwanted :
       /\ t \notin started
       /\ pc[t] = "ended" \/ (t \in aborted /\ pc[t] \in {"queued", "ready", "gate", "room"})

RuntimeInv == TypeOK /\ NoJobYet /\ JobsInOrder /\ PermitHeld /\ GivenUpIsOver

-----------------------------------------------------------------------------
(* A spawned task waits in the channel, or is dropped.                     *)
LEMMA SpawnKeeps ==
    ASSUME RuntimeInv, NEW t \in Tasks, Spawn(t), UNCHANGED gated
    PROVE  RuntimeInv'
<1> USE RuntimeAssumption DEF RuntimeInv, executor, worker
<1>1. TypeOK'
  BY DEF Spawn, TypeOK, States
<1>2. NoJobYet'
  BY DEF Spawn, NoJobYet
<1>3. JobsInOrder'
  BY DEF Spawn, JobsInOrder
<1>4. PermitHeld'
  BY DEF Spawn, PermitHeld, Relies
<1>5. GivenUpIsOver'
  BY DEF Spawn, GivenUpIsOver
<1>6. QED BY <1>1, <1>2, <1>3, <1>4, <1>5

(* An abort only marks.                                                    *)
LEMMA AbortKeeps ==
    ASSUME RuntimeInv, NEW t \in Tasks, Abort(t), UNCHANGED gated
    PROVE  RuntimeInv'
<1> USE RuntimeAssumption DEF RuntimeInv, executor, worker
<1>1. TypeOK'
  BY DEF Abort, TypeOK
<1>2. NoJobYet'
  BY DEF Abort, NoJobYet
<1>3. JobsInOrder'
  BY DEF Abort, JobsInOrder
<1>4. PermitHeld'
  BY DEF Abort, PermitHeld, Relies
<1>5. GivenUpIsOver'
  BY DEF Abort, NoJobYet, GivenUpIsOver
<1>6. QED BY <1>1, <1>2, <1>3, <1>4, <1>5

(* The executor takes a task over.                                         *)
LEMMA PumpKeeps ==
    ASSUME RuntimeInv, NEW t \in Tasks, Pump(t), UNCHANGED gated
    PROVE  RuntimeInv'
<1> USE RuntimeAssumption DEF RuntimeInv, executor, worker
<1>1. TypeOK'
  BY DEF Pump, TypeOK, States
<1>2. NoJobYet'
  BY DEF Pump, NoJobYet
<1>3. JobsInOrder'
  BY DEF Pump, JobsInOrder
<1>4. PermitHeld'
  BY DEF Pump, PermitHeld, Relies
<1>5. GivenUpIsOver'
  BY DEF Pump, GivenUpIsOver
<1>6. QED BY <1>1, <1>2, <1>3, <1>4, <1>5

(* An aborted task is dropped at its next poll; its job keeps a permit it  *)
(* owns.                                                                   *)
LEMMA PollAbortedKeeps ==
    ASSUME RuntimeInv, NEW t \in Tasks, PollAborted(t), UNCHANGED gated
    PROVE  RuntimeInv'
<1> USE RuntimeAssumption DEF RuntimeInv, executor, worker
<1>1. TypeOK'
  BY DEF PollAborted, TypeOK, States, Idle, Drops
<1>2. NoJobYet'
  BY DEF PollAborted, NoJobYet
<1>3. JobsInOrder'
  BY DEF PollAborted, JobsInOrder
<1>4. PermitHeld'
  BY DEF PollAborted, TypeOK, Drops, JobOwnsPermit, PermitHeld, Relies
<1>5. GivenUpIsOver'
  BY DEF PollAborted, TypeOK, Drops, GivenUpIsOver
<1>6. QED BY <1>1, <1>2, <1>3, <1>4, <1>5

(* So is one whose owner gives up.                                         *)
LEMMA CancelKeeps ==
    ASSUME RuntimeInv, NEW t \in Tasks, Cancel(t), UNCHANGED gated
    PROVE  RuntimeInv'
<1> USE RuntimeAssumption DEF RuntimeInv, executor, worker
<1>1. TypeOK'
  BY DEF Cancel, TypeOK, States, Awaiting, Drops
<1>2. NoJobYet'
  BY DEF Cancel, NoJobYet
<1>3. JobsInOrder'
  BY DEF Cancel, JobsInOrder
<1>4. PermitHeld'
  BY DEF Cancel, TypeOK, Drops, JobOwnsPermit, PermitHeld, Relies
<1>5. GivenUpIsOver'
  BY DEF Cancel, TypeOK, Drops, GivenUpIsOver
<1>6. QED BY <1>1, <1>2, <1>3, <1>4, <1>5

(* The first poll takes no permit; without a gate none is needed.          *)
LEMMA StartKeeps ==
    ASSUME RuntimeInv, NEW t \in Tasks, Start(t), UNCHANGED gated
    PROVE  RuntimeInv'
<1> USE RuntimeAssumption DEF RuntimeInv, executor, worker
<1>1. TypeOK'
  BY DEF Start, TypeOK, States, Awaiting
<1>2. NoJobYet'
  BY DEF Start, TypeOK, NoJobYet
<1>3. JobsInOrder'
  BY DEF Start, TypeOK, JobsInOrder
<1>4. PermitHeld'
  BY DEF Start, TypeOK, HasJob, PermitHeld, Relies
<1>5. GivenUpIsOver'
  BY DEF Start, TypeOK, Poll, GivenUpIsOver
<1>6. QED BY <1>1, <1>2, <1>3, <1>4, <1>5

(* A permit is given out when nobody relies on one.                        *)
LEMMA AdmitKeeps ==
    ASSUME RuntimeInv, NEW t \in Tasks, Admit(t), UNCHANGED gated
    PROVE  RuntimeInv'
<1> USE RuntimeAssumption DEF RuntimeInv, executor, worker
<1>1. TypeOK'
  BY DEF Admit, TypeOK, States, Awaiting, AdmitTo
<1>2. NoJobYet'
  BY DEF Admit, TypeOK, AdmitTo, NoJobYet
<1>3. JobsInOrder'
  BY DEF Admit, TypeOK, AdmitTo, JobsInOrder
<1>4. PermitHeld'
  BY DEF Admit, TypeOK, Poll, Woken, AdmitTo, PermitHeld, Relies
<1>5. GivenUpIsOver'
  BY DEF Admit, TypeOK, Poll, AdmitTo, GivenUpIsOver
<1>6. QED BY <1>1, <1>2, <1>3, <1>4, <1>5

(* A reply that comes too late ends.                                       *)
LEMMA SupersededKeeps ==
    ASSUME RuntimeInv, NEW t \in Tasks, Superseded(t), UNCHANGED gated
    PROVE  RuntimeInv'
<1> USE RuntimeAssumption DEF RuntimeInv, executor, worker
<1>1. TypeOK'
  BY DEF Superseded, TypeOK, States
<1>2. NoJobYet'
  BY DEF Superseded, NoJobYet
<1>3. JobsInOrder'
  BY DEF Superseded, JobsInOrder
<1>4. PermitHeld'
  BY DEF Superseded, PermitHeld, Relies
<1>5. GivenUpIsOver'
  BY DEF Superseded, TypeOK, NoJobYet, GivenUpIsOver
<1>6. QED BY <1>1, <1>2, <1>3, <1>4, <1>5

(* The job goes into a free slot, once.                                    *)
LEMMA SubmitKeeps ==
    ASSUME RuntimeInv, NEW t \in Tasks, Submit(t), UNCHANGED gated
    PROVE  RuntimeInv'
<1> USE RuntimeAssumption DEF RuntimeInv, executor, worker
<1>1. TypeOK'
  BY DEF Submit, TypeOK, States, Awaiting
<1>2. NoJobYet'
  BY DEF Submit, TypeOK, NoJobYet
<1>3. JobsInOrder'
  BY DEF Submit, Poll, Woken, NoJobYet, JobsInOrder
<1>4. PermitHeld'
  BY DEF Submit, PermitHeld, Relies
<1>5. GivenUpIsOver'
  BY DEF Submit, Poll, GivenUpIsOver
<1>6. QED BY <1>1, <1>2, <1>3, <1>4, <1>5

(* A task resumes after its job has ended.                                 *)
LEMMA ResumeKeeps ==
    ASSUME RuntimeInv, NEW t \in Tasks, Resume(t), UNCHANGED gated
    PROVE  RuntimeInv'
<1> USE RuntimeAssumption DEF RuntimeInv, executor, worker
<1>1. TypeOK'
  BY DEF Resume, TypeOK, States, Release
<1>2. NoJobYet'
  BY DEF Resume, NoJobYet
<1>3. JobsInOrder'
  BY DEF Resume, JobsInOrder
<1>4. PermitHeld'
  BY DEF Resume, TypeOK, Poll, Woken, Release, JobsInOrder, PermitHeld, Relies
<1>5. GivenUpIsOver'
  BY DEF Resume, GivenUpIsOver
<1>6. QED BY <1>1, <1>2, <1>3, <1>4, <1>5

(* The transfer's own permit goes back.                                    *)
LEMMA FetchEndsKeeps ==
    ASSUME RuntimeInv, FetchEnds, UNCHANGED gated
    PROVE  RuntimeInv'
<1> USE RuntimeAssumption DEF RuntimeInv, executor, worker
<1>1. TypeOK'
  BY DEF FetchEnds, TypeOK, States, Release
<1>2. NoJobYet'
  BY DEF FetchEnds, NoJobYet
<1>3. JobsInOrder'
  BY DEF FetchEnds, JobsInOrder
<1>4. PermitHeld'
  BY DEF FetchEnds, TypeOK, JobsInOrder, PermitHeld, Relies
<1>5. GivenUpIsOver'
  BY DEF FetchEnds, GivenUpIsOver
<1>6. QED BY <1>1, <1>2, <1>3, <1>4, <1>5

(* All tasks are dropped at once; jobs keep what they own.                 *)
LEMMA BlockOnReturnsKeeps ==
    ASSUME RuntimeInv, BlockOnReturns, UNCHANGED gated
    PROVE  RuntimeInv'
<1> USE RuntimeAssumption DEF RuntimeInv, executor, worker
<1>1. TypeOK'
  BY DEF BlockOnReturns, TypeOK, States, Idle, Drops
<1>2. NoJobYet'
  BY DEF BlockOnReturns, NoJobYet
<1>3. JobsInOrder'
  BY DEF BlockOnReturns, JobsInOrder
<1>4. PermitHeld'
  BY DEF BlockOnReturns, Drops, JobOwnsPermit, PermitHeld, Relies
<1>5. GivenUpIsOver'
  BY DEF BlockOnReturns, TypeOK, Drops, GivenUpIsOver
<1>6. QED BY <1>1, <1>2, <1>3, <1>4, <1>5

(* A forsaken job is dropped with its permit.                              *)
LEMMA SkipJobKeeps ==
    ASSUME RuntimeInv, SkipJob, UNCHANGED gated
    PROVE  RuntimeInv'
<1> USE RuntimeAssumption DEF RuntimeInv, executor, worker
<1>1. TypeOK'
  BY DEF SkipJob, TypeOK, Release
<1>2. NoJobYet'
  BY DEF SkipJob, NoJobYet
<1>3. JobsInOrder'
  BY DEF SkipJob, Forsaken, JobsInOrder
<1>4. PermitHeld'
  BY DEF SkipJob, Forsaken, Release, PermitHeld, Relies
<1>5. GivenUpIsOver'
  BY DEF SkipJob, GivenUpIsOver
<1>6. QED BY <1>1, <1>2, <1>3, <1>4, <1>5

(* A job starts only for a task that awaits it.                            *)
LEMMA RunJobKeeps ==
    ASSUME RuntimeInv, RunJob, UNCHANGED gated
    PROVE  RuntimeInv'
<1> USE RuntimeAssumption DEF RuntimeInv, executor, worker
<1>1. TypeOK'
  BY DEF RunJob, TypeOK, JobsInOrder
<1>2. NoJobYet'
  BY DEF RunJob, NoJobYet
<1>3. JobsInOrder'
  BY DEF RunJob, JobsInOrder
<1>4. PermitHeld'
  BY DEF RunJob, PermitHeld, Relies
<1>5. GivenUpIsOver'
  BY DEF RunJob, TypeOK, Forsaken, NoJobYet, GivenUpIsOver
<1>6. QED BY <1>1, <1>2, <1>3, <1>4, <1>5

(* The job's permit goes back, nobody else's.                              *)
LEMMA JobEndsKeeps ==
    ASSUME RuntimeInv, JobEnds, UNCHANGED gated
    PROVE  RuntimeInv'
<1> USE RuntimeAssumption DEF RuntimeInv, executor, worker
<1>1. TypeOK'
  BY DEF JobEnds, TypeOK, Release
<1>2. NoJobYet'
  BY DEF JobEnds, NoJobYet
<1>3. JobsInOrder'
  BY DEF JobEnds, TypeOK, JobsInOrder
<1>4. PermitHeld'
  BY DEF JobEnds, TypeOK, JobOwnsPermit, JobsInOrder, NoJobYet, PermitHeld, Relies
<1>5. GivenUpIsOver'
  BY DEF JobEnds, GivenUpIsOver
<1>6. QED BY <1>1, <1>2, <1>3, <1>4, <1>5
-----------------------------------------------------------------------------
(* A step that changes nothing.                                            *)
LEMMA StutterKeeps ==
    ASSUME RuntimeInv, UNCHANGED vars
    PROVE  RuntimeInv'
BY DEF RuntimeInv, vars, executor, worker, TypeOK, NoJobYet, JobsInOrder, HasJob,
       PermitHeld, Relies, GivenUpIsOver

(* RuntimeInv, the inductive strengthening of HeavyIsExclusive and         *)
(* WorkIsWanted, holds in every reachable state of Esp32Runtime, its       *)
(* worker and the memory gate, for any set of tasks.                       *)
THEOREM RuntimeInvariance == Spec => []RuntimeInv
<1>1. Init => RuntimeInv
  BY RuntimeAssumption DEF Init, RuntimeInv, TypeOK, States, Awaiting, NoJobYet, JobsInOrder,
                           PermitHeld, Relies, GivenUpIsOver
<1>2. RuntimeInv /\ [Next]_vars => RuntimeInv'
  <2> SUFFICES ASSUME RuntimeInv, [Next]_vars PROVE RuntimeInv'
    OBVIOUS
  <2>1. CASE UNCHANGED vars
    BY <2>1, StutterKeeps
  <2>2. CASE Next
    <3>1. UNCHANGED gated
      BY <2>2 DEF Next
    <3>2. ASSUME NEW t \in Tasks, Spawn(t) \/ Abort(t) \/ Cancel(t) PROVE RuntimeInv'
      BY <3>1, <3>2, SpawnKeeps, AbortKeeps, CancelKeeps
    <3>3. ASSUME NEW t \in Tasks, Proceeds(t) PROVE RuntimeInv'
      BY <3>1, <3>3, PumpKeeps, PollAbortedKeeps, StartKeeps, AdmitKeeps, SupersededKeeps,
         SubmitKeeps, ResumeKeeps DEF Proceeds
    <3>4. CASE FetchEnds \/ BlockOnReturns \/ Worker
      BY <3>1, <3>4, FetchEndsKeeps, BlockOnReturnsKeeps, SkipJobKeeps, RunJobKeeps, JobEndsKeeps
         DEF Worker
    <3>5. QED BY <2>2, <3>2, <3>3, <3>4 DEF Next
  <2>3. QED BY <2>1, <2>2
<1>3. QED BY <1>1, <1>2, PTL DEF Spec

(* Without PSRAM one memory-hungry operation runs at a time, whatever is   *)
(* aborted, cancelled or superseded: a download goes on with the permit    *)
(* its job owns after its caller is gone (memory_gate.rs).                 *)
THEOREM HeavyOperationsExclude == Spec => []HeavyIsExclusive
<1>1. RuntimeInv => HeavyIsExclusive
  BY DEF RuntimeInv, HeavyIsExclusive, Heavy, PermitHeld, Relies
<1>2. QED BY <1>1, RuntimeInvariance, PTL

(* The blocking worker starts no job whose task was dropped or aborted     *)
(* before it, and a task that awaits a job has one.                        *)
THEOREM WorkerServesTheLiving == Spec => []WorkIsWanted
<1>1. RuntimeInv => WorkIsWanted
  BY DEF RuntimeInv, WorkIsWanted, JobsInOrder, GivenUpIsOver
<1>2. QED BY <1>1, RuntimeInvariance, PTL

-----------------------------------------------------------------------------
(* The task watchdog.                                                      *)

(* In the middle of a round, the round has fed the watchdog if there is    *)
(* one, and failed to if there is none.                                    *)
RoundIsFed ==
    /\ stage \in {"timer", "asleep", "check"} => (fed <=> armed)
    /\ stage \in {"timer", "asleep", "check"} /\ ~fed => failures > 0

(* A feeder that ended has left no armed watchdog behind, nor is one armed *)
(* before it starts.                                                       *)
EndedIsDisarmed == stage \in {"boot", "ended"} => ~armed

(* How long ago an armed watchdog was fed: at the start of the round, then *)
(* as long as the feeder has been waiting.                                 *)
AgeIsWaited ==
    armed /\ ~wedged => /\ stage \in {"timer", "check"} => age = 0
                        /\ stage = "asleep" => age = waited

(* An armed watchdog that is not fed for its timeout has rung.             *)
RingsInTime == armed /\ age = Timeout => rang

(* A hang begins while the feeder waits, and lasts.                        *)
WedgeLasts == wedged => stage \in {"asleep", "ended"}

(* Every retry since the last sleep was paid for with a failure.           *)
FailuresPay ==
    /\ held < MaxFailures
    /\ stage \in {"feed", "timer"} => held <= failures
    /\ stage \in {"boot", "asleep"} => held = 0
    /\ stage = "check" => held < failures
    /\ stage = "boot" => failures = 0
    /\ stage = "feed" => failures < MaxFailures
    /\ stage \in {"timer", "asleep"} => failures <= MaxFailures

WatchdogInv ==
    /\ WatchdogTypeOK /\ RoundIsFed /\ EndedIsDisarmed /\ AgeIsWaited /\ RingsInTime
    /\ WedgeLasts /\ FailuresPay

(* What a step may do to the alarm.                                        *)
AlarmCaused == ~rang /\ rang' => wedged \/ waited' = Timeout

-----------------------------------------------------------------------------
(* The watchdog is armed at age 0, or not at all.                          *)
LEMMA RegisterKeeps ==
    ASSUME WatchdogInv, Register
    PROVE  WatchdogInv' /\ AlarmCaused
<1> USE WatchdogAssumption
        DEF WatchdogInv, WatchdogTypeOK, Register, dog, feeder
<1>1. WatchdogTypeOK'
  <2>1. {armed, rang, wedged, fed, service, timer}' \subseteq BOOLEAN
    BY Zenon
  <2>2. age' \in 0..Timeout /\ waited' \in 0..Timeout
    OBVIOUS
  <2>3. /\ stage' \in {"boot", "feed", "timer", "asleep", "check", "ended"}
        /\ failures' \in 0..(MaxFailures + 1)
    BY DEF FailuresPay
  <2>4. held' \in Nat
    OBVIOUS
  <2>5. QED BY <2>1, <2>2, <2>3, <2>4
<1>2. RoundIsFed' /\ EndedIsDisarmed' /\ WedgeLasts'
  BY DEF RoundIsFed, EndedIsDisarmed, WedgeLasts, FailuresPay
<1>3. AgeIsWaited'
  BY DEF AgeIsWaited, RoundIsFed, EndedIsDisarmed, WedgeLasts
<1>4. RingsInTime' /\ AlarmCaused
  BY DEF RingsInTime, AlarmCaused, AgeIsWaited, RoundIsFed, EndedIsDisarmed, WedgeLasts
<1>5. FailuresPay'
  BY DEF FailuresPay, RoundIsFed
<1>6. QED BY <1>1, <1>2, <1>3, <1>4, <1>5

(* A round starts with feeding.                                            *)
LEMMA FeedKeeps ==
    ASSUME WatchdogInv, Feed
    PROVE  WatchdogInv' /\ AlarmCaused
<1> USE WatchdogAssumption
        DEF WatchdogInv, WatchdogTypeOK, Feed, dog, feeder
<1>1. WatchdogTypeOK'
  <2>1. {armed, rang, wedged, fed, service, timer}' \subseteq BOOLEAN
    BY Zenon
  <2>2. age' \in 0..Timeout /\ waited' \in 0..Timeout
    OBVIOUS
  <2>3. /\ stage' \in {"boot", "feed", "timer", "asleep", "check", "ended"}
        /\ failures' \in 0..(MaxFailures + 1)
    BY DEF FailuresPay
  <2>4. held' \in Nat
    OBVIOUS
  <2>5. QED BY <2>1, <2>2, <2>3, <2>4
<1>2. RoundIsFed' /\ EndedIsDisarmed' /\ WedgeLasts'
  BY DEF RoundIsFed, EndedIsDisarmed, WedgeLasts, FailuresPay
<1>3. AgeIsWaited'
  BY DEF AgeIsWaited, RoundIsFed, EndedIsDisarmed, WedgeLasts
<1>4. RingsInTime' /\ AlarmCaused
  BY DEF RingsInTime, AlarmCaused, AgeIsWaited, RoundIsFed, EndedIsDisarmed, WedgeLasts
<1>5. FailuresPay'
  BY DEF FailuresPay, RoundIsFed
<1>6. QED BY <1>1, <1>2, <1>3, <1>4, <1>5

(* The feeder sleeps, having just fed.                                     *)
LEMMA SetTimerKeeps ==
    ASSUME WatchdogInv, SetTimer
    PROVE  WatchdogInv' /\ AlarmCaused
<1> USE WatchdogAssumption
        DEF WatchdogInv, WatchdogTypeOK, SetTimer, dog, feeder
<1>1. WatchdogTypeOK'
  <2>1. {armed, rang, wedged, fed, service, timer}' \subseteq BOOLEAN
    BY Zenon
  <2>2. age' \in 0..Timeout /\ waited' \in 0..Timeout
    OBVIOUS
  <2>3. /\ stage' \in {"boot", "feed", "timer", "asleep", "check", "ended"}
        /\ failures' \in 0..(MaxFailures + 1)
    BY DEF FailuresPay
  <2>4. held' \in Nat
    OBVIOUS
  <2>5. QED BY <2>1, <2>2, <2>3, <2>4
<1>2. RoundIsFed' /\ EndedIsDisarmed' /\ WedgeLasts'
  BY DEF RoundIsFed, EndedIsDisarmed, WedgeLasts, FailuresPay
<1>3. AgeIsWaited'
  BY DEF AgeIsWaited, RoundIsFed, EndedIsDisarmed, WedgeLasts
<1>4. RingsInTime' /\ AlarmCaused
  BY DEF RingsInTime, AlarmCaused, AgeIsWaited, RoundIsFed, EndedIsDisarmed, WedgeLasts
<1>5. FailuresPay'
  BY DEF FailuresPay, RoundIsFed
<1>6. QED BY <1>1, <1>2, <1>3, <1>4, <1>5

(* A timer that fails costs a failure, not time.                           *)
LEMMA TimerFailsKeeps ==
    ASSUME WatchdogInv, TimerFails
    PROVE  WatchdogInv' /\ AlarmCaused
<1> USE WatchdogAssumption
        DEF WatchdogInv, WatchdogTypeOK, TimerFails, dog, feeder
<1>1. WatchdogTypeOK'
  <2>1. {armed, rang, wedged, fed, service, timer}' \subseteq BOOLEAN
    BY Zenon
  <2>2. age' \in 0..Timeout /\ waited' \in 0..Timeout
    OBVIOUS
  <2>3. /\ stage' \in {"boot", "feed", "timer", "asleep", "check", "ended"}
        /\ failures' \in 0..(MaxFailures + 1)
    BY DEF FailuresPay
  <2>4. held' \in Nat
    OBVIOUS
  <2>5. QED BY <2>1, <2>2, <2>3, <2>4
<1>2. RoundIsFed' /\ EndedIsDisarmed' /\ WedgeLasts'
  BY DEF RoundIsFed, EndedIsDisarmed, WedgeLasts, FailuresPay
<1>3. AgeIsWaited'
  BY DEF AgeIsWaited, RoundIsFed, EndedIsDisarmed, WedgeLasts
<1>4. RingsInTime' /\ AlarmCaused
  BY DEF RingsInTime, AlarmCaused, AgeIsWaited, RoundIsFed, EndedIsDisarmed, WedgeLasts
<1>5. FailuresPay'
  BY DEF FailuresPay, RoundIsFed
<1>6. QED BY <1>1, <1>2, <1>3, <1>4, <1>5

(* A feeder that nothing keeps waiting wakes in time.                      *)
LEMMA WakesKeeps ==
    ASSUME WatchdogInv, Wakes
    PROVE  WatchdogInv' /\ AlarmCaused
<1> USE WatchdogAssumption
        DEF WatchdogInv, WatchdogTypeOK, Wakes, dog, feeder, Passes, UpTo
<1>1. WatchdogTypeOK'
  <2>1. {armed, rang, wedged, fed, service, timer}' \subseteq BOOLEAN
    BY Zenon
  <2>2. age' \in 0..Timeout /\ waited' \in 0..Timeout
    OBVIOUS
  <2>3. /\ stage' \in {"boot", "feed", "timer", "asleep", "check", "ended"}
        /\ failures' \in 0..(MaxFailures + 1)
    BY DEF FailuresPay
  <2>4. held' \in Nat
    OBVIOUS
  <2>5. QED BY <2>1, <2>2, <2>3, <2>4
<1>2. RoundIsFed' /\ EndedIsDisarmed' /\ WedgeLasts'
  BY DEF RoundIsFed, EndedIsDisarmed, WedgeLasts, FailuresPay
<1>3. AgeIsWaited'
  BY DEF AgeIsWaited, RoundIsFed, EndedIsDisarmed, WedgeLasts
<1>4. RingsInTime' /\ AlarmCaused
  BY DEF RingsInTime, AlarmCaused, AgeIsWaited, RoundIsFed, EndedIsDisarmed, WedgeLasts
<1>5. FailuresPay'
  BY DEF FailuresPay, RoundIsFed
<1>6. QED BY <1>1, <1>2, <1>3, <1>4, <1>5

(* A retry costs one unit of time and one of the failures.                 *)
LEMMA RetryKeeps ==
    ASSUME WatchdogInv, Retry
    PROVE  WatchdogInv' /\ AlarmCaused
<1> USE WatchdogAssumption
        DEF WatchdogInv, WatchdogTypeOK, Retry, dog, feeder, Passes, UpTo
<1>1. WatchdogTypeOK'
  <2>1. {armed, rang, wedged, fed, service, timer}' \subseteq BOOLEAN
    BY Zenon
  <2>2. age' \in 0..Timeout /\ waited' \in 0..Timeout
    OBVIOUS
  <2>3. /\ stage' \in {"boot", "feed", "timer", "asleep", "check", "ended"}
        /\ failures' \in 0..(MaxFailures + 1)
    BY DEF FailuresPay
  <2>4. held' \in Nat
    OBVIOUS
  <2>5. QED BY <2>1, <2>2, <2>3, <2>4
<1>2. RoundIsFed' /\ EndedIsDisarmed' /\ WedgeLasts'
  BY DEF RoundIsFed, EndedIsDisarmed, WedgeLasts, FailuresPay
<1>3. AgeIsWaited'
  BY DEF AgeIsWaited, RoundIsFed, EndedIsDisarmed, WedgeLasts
<1>4. RingsInTime' /\ AlarmCaused
  BY DEF RingsInTime, AlarmCaused, AgeIsWaited, RoundIsFed, EndedIsDisarmed, WedgeLasts
<1>5. FailuresPay'
  BY DEF FailuresPay, RoundIsFed
<1>6. QED BY <1>1, <1>2, <1>3, <1>4, <1>5

(* A feeder that gives up disarms the watchdog.                            *)
LEMMA GivesUpKeeps ==
    ASSUME WatchdogInv, GivesUp
    PROVE  WatchdogInv' /\ AlarmCaused
<1> USE WatchdogAssumption
        DEF WatchdogInv, WatchdogTypeOK, GivesUp, dog, feeder
<1>1. WatchdogTypeOK'
  <2>1. {armed, rang, wedged, fed, service, timer}' \subseteq BOOLEAN
    BY Zenon
  <2>2. age' \in 0..Timeout /\ waited' \in 0..Timeout
    OBVIOUS
  <2>3. /\ stage' \in {"boot", "feed", "timer", "asleep", "check", "ended"}
        /\ failures' \in 0..(MaxFailures + 1)
    BY DEF FailuresPay
  <2>4. held' \in Nat
    OBVIOUS
  <2>5. QED BY <2>1, <2>2, <2>3, <2>4
<1>2. RoundIsFed' /\ EndedIsDisarmed' /\ WedgeLasts'
  BY DEF RoundIsFed, EndedIsDisarmed, WedgeLasts, FailuresPay
<1>3. AgeIsWaited'
  BY DEF AgeIsWaited, RoundIsFed, EndedIsDisarmed, WedgeLasts
<1>4. RingsInTime' /\ AlarmCaused
  BY DEF RingsInTime, AlarmCaused, AgeIsWaited, RoundIsFed, EndedIsDisarmed, WedgeLasts
<1>5. FailuresPay'
  BY DEF FailuresPay, RoundIsFed
<1>6. QED BY <1>1, <1>2, <1>3, <1>4, <1>5

(* A call that blocks the executor keeps the feeder waiting.               *)
LEMMA BlocksKeeps ==
    ASSUME WatchdogInv, NEW time \in Stalls, Blocks(time)
    PROVE  WatchdogInv' /\ AlarmCaused
<1> USE WatchdogAssumption
        DEF WatchdogInv, WatchdogTypeOK, Blocks, dog, feeder, Passes, UpTo
<1>1. WatchdogTypeOK'
  <2>1. {armed, rang, wedged, fed, service, timer}' \subseteq BOOLEAN
    BY Zenon
  <2>2. age' \in 0..Timeout /\ waited' \in 0..Timeout
    OBVIOUS
  <2>3. /\ stage' \in {"boot", "feed", "timer", "asleep", "check", "ended"}
        /\ failures' \in 0..(MaxFailures + 1)
    BY DEF FailuresPay
  <2>4. held' \in Nat
    OBVIOUS
  <2>5. QED BY <2>1, <2>2, <2>3, <2>4
<1>2. RoundIsFed' /\ EndedIsDisarmed' /\ WedgeLasts'
  BY DEF RoundIsFed, EndedIsDisarmed, WedgeLasts, FailuresPay
<1>3. AgeIsWaited'
  BY DEF AgeIsWaited, RoundIsFed, EndedIsDisarmed, WedgeLasts
<1>4. RingsInTime' /\ AlarmCaused
  BY DEF RingsInTime, AlarmCaused, AgeIsWaited, RoundIsFed, EndedIsDisarmed, WedgeLasts
<1>5. FailuresPay'
  BY DEF FailuresPay, RoundIsFed
<1>6. QED BY <1>1, <1>2, <1>3, <1>4, <1>5

(* A hang begins.                                                          *)
LEMMA WedgeKeeps ==
    ASSUME WatchdogInv, Wedge
    PROVE  WatchdogInv' /\ AlarmCaused
<1> USE WatchdogAssumption
        DEF WatchdogInv, WatchdogTypeOK, Wedge, dog, feeder
<1>1. WatchdogTypeOK'
  <2>1. {armed, rang, wedged, fed, service, timer}' \subseteq BOOLEAN
    BY Zenon
  <2>2. age' \in 0..Timeout /\ waited' \in 0..Timeout
    OBVIOUS
  <2>3. /\ stage' \in {"boot", "feed", "timer", "asleep", "check", "ended"}
        /\ failures' \in 0..(MaxFailures + 1)
    BY DEF FailuresPay
  <2>4. held' \in Nat
    OBVIOUS
  <2>5. QED BY <2>1, <2>2, <2>3, <2>4
<1>2. RoundIsFed' /\ EndedIsDisarmed' /\ WedgeLasts'
  BY DEF RoundIsFed, EndedIsDisarmed, WedgeLasts, FailuresPay
<1>3. AgeIsWaited'
  BY DEF AgeIsWaited, RoundIsFed, EndedIsDisarmed, WedgeLasts
<1>4. RingsInTime' /\ AlarmCaused
  BY DEF RingsInTime, AlarmCaused, AgeIsWaited, RoundIsFed, EndedIsDisarmed, WedgeLasts
<1>5. FailuresPay'
  BY DEF FailuresPay, RoundIsFed
<1>6. QED BY <1>1, <1>2, <1>3, <1>4, <1>5

(* Time only matters to an armed watchdog, so to a hang.                   *)
LEMMA StuckKeeps ==
    ASSUME WatchdogInv, Stuck
    PROVE  WatchdogInv' /\ AlarmCaused
<1> USE WatchdogAssumption
        DEF WatchdogInv, WatchdogTypeOK, Stuck, dog, feeder, Passes, UpTo
<1>1. WatchdogTypeOK'
  <2>1. {armed, rang, wedged, fed, service, timer}' \subseteq BOOLEAN
    BY Zenon
  <2>2. age' \in 0..Timeout /\ waited' \in 0..Timeout
    OBVIOUS
  <2>3. /\ stage' \in {"boot", "feed", "timer", "asleep", "check", "ended"}
        /\ failures' \in 0..(MaxFailures + 1)
    BY DEF FailuresPay
  <2>4. held' \in Nat
    OBVIOUS
  <2>5. QED BY <2>1, <2>2, <2>3, <2>4
<1>2. RoundIsFed' /\ EndedIsDisarmed' /\ WedgeLasts'
  BY DEF RoundIsFed, EndedIsDisarmed, WedgeLasts, FailuresPay
<1>3. AgeIsWaited'
  BY DEF AgeIsWaited, RoundIsFed, EndedIsDisarmed, WedgeLasts
<1>4. RingsInTime' /\ AlarmCaused
  BY DEF RingsInTime, AlarmCaused, AgeIsWaited, RoundIsFed, EndedIsDisarmed, WedgeLasts
<1>5. FailuresPay'
  BY DEF FailuresPay, RoundIsFed
<1>6. QED BY <1>1, <1>2, <1>3, <1>4, <1>5

-----------------------------------------------------------------------------
(* A step that changes nothing.                                            *)
LEMMA WatchdogStutterKeeps ==
    ASSUME WatchdogInv, UNCHANGED watchdogVars
    PROVE  WatchdogInv'
BY DEF WatchdogInv, watchdogVars, dog, feeder, WatchdogTypeOK, RoundIsFed,
       EndedIsDisarmed, AgeIsWaited, RingsInTime, WedgeLasts, FailuresPay

(* Every step keeps the invariant, and has a cause for an alarm.           *)
LEMMA WatchdogStep ==
    ASSUME WatchdogInv, [WatchdogNext]_watchdogVars
    PROVE  WatchdogInv' /\ [AlarmCaused]_watchdogVars
<1>1. CASE UNCHANGED watchdogVars
  BY <1>1, WatchdogStutterKeeps
<1>2. CASE Register \/ Feed \/ SetTimer \/ TimerFails
  BY <1>2, RegisterKeeps, FeedKeeps, SetTimerKeeps, TimerFailsKeeps
<1>3. CASE Wakes \/ Retry \/ GivesUp
  BY <1>3, WakesKeeps, RetryKeeps, GivesUpKeeps
<1>4. ASSUME NEW time \in Stalls, Blocks(time) PROVE WatchdogInv' /\ AlarmCaused
  BY <1>4, BlocksKeeps
<1>5. CASE Wedge \/ Stuck
  BY <1>5, WedgeKeeps, StuckKeeps
<1>6. QED BY <1>1, <1>2, <1>3, <1>4, <1>5 DEF WatchdogNext

(* WatchdogInv, the inductive strengthening of the watchdog's properties,  *)
(* holds in every reachable state of feed_task_watchdog and its watchdog.  *)
THEOREM WatchdogInvariance == WatchdogSpec => []WatchdogInv
<1>1. WatchdogInit => WatchdogInv
  <2> SUFFICES ASSUME WatchdogInit PROVE WatchdogInv
    OBVIOUS
  <2>1. {armed, rang, wedged, fed, service, timer} \subseteq BOOLEAN
    BY Zenon DEF WatchdogInit
  <2>2. WatchdogTypeOK
    BY <2>1, WatchdogAssumption DEF WatchdogInit, WatchdogTypeOK
  <2>3. RoundIsFed /\ EndedIsDisarmed /\ AgeIsWaited /\ RingsInTime /\ WedgeLasts /\ FailuresPay
    BY WatchdogAssumption DEF WatchdogInit, RoundIsFed, EndedIsDisarmed,
           AgeIsWaited, RingsInTime, WedgeLasts, FailuresPay
  <2>4. QED BY <2>2, <2>3 DEF WatchdogInv
<1>2. WatchdogInv /\ [WatchdogNext]_watchdogVars => WatchdogInv'
  BY WatchdogStep
<1>3. QED BY <1>1, <1>2, PTL DEF WatchdogSpec

(* AlarmHasCause: wa-main is reported only while the executor hangs, or    *)
(* after other tasks have blocked it for the rest of the timeout; nothing  *)
(* the feeder does in trouble causes an alarm.  This holds for calls of    *)
(* any length, for any feed interval shorter than the timeout.             *)
THEOREM AlarmsAreCaused == WatchdogSpec => AlarmHasCause
<1>1. WatchdogInv /\ [WatchdogNext]_watchdogVars =>
          [~rang /\ rang' => wedged \/ waited' = Timeout]_watchdogVars
  BY WatchdogStep DEF AlarmCaused
<1>2. QED BY <1>1, WatchdogInvariance, PTL DEF WatchdogSpec, AlarmHasCause

(* StarvationIsBounded: the feeder's retries sleep on the executor's       *)
(* thread and let no other task run, but they end before                   *)
(* MAX_CONSECUTIVE_FAILURES of them (main.rs, feed_task_watchdog).         *)
THEOREM FeederLetsGo == WatchdogSpec => []StarvationIsBounded
<1>1. WatchdogInv => StarvationIsBounded
  BY DEF WatchdogInv, StarvationIsBounded, FailuresPay
<1>2. QED BY <1>1, WatchdogInvariance, PTL

-----------------------------------------------------------------------------
(* HttpExchange: the inductive invariant.                                  *)

(* Where item c starts, or will.                                           *)
ItemAt(b, s, c) == IF c <= Len(s) THEN s[c].start ELSE StreamEnd(b, s)

(* Items lie one behind the other from the end of the head on.             *)
ItemsOK(b, s) ==
    /\ s \in Seq(SentItem)
    /\ ItemAt(b, s, 1) = b
    /\ \A i \in 1..Len(s) : b <= s[i].start /\ ItemAt(b, s, i + 1) = EndOf(s[i])
    /\ \A i, j \in 1..Len(s) : i < j => EndOf(s[i]) <= s[j].start

(* Every item is one a chunked body has.                                   *)
Lined(s) ==
    \A i \in 1..Len(s) : /\ s[i].kind # "raw" /\ s[i].line > 0
                         /\ s[i].kind # "chunk" => s[i].n = 0
                         /\ s[i].kind \in {"last", "blank"} => s[i].good

(* The items before c are chunks and in order.                             *)
Chunky(s, c) == \A k \in 1..(c - 1) : s[k].kind = "chunk" /\ Legal(s, k)

(* The reader is in the data of chunk c, r bytes from its end.             *)
AtData(s, c, a, r) ==
    /\ c <= Len(s) /\ s[c].kind = "chunk" /\ s[c].line <= MaxMeta /\ Chunky(s, c)
    /\ s[c].n > 0 /\ r <= s[c].n /\ a + r = s[c].start + s[c].line + s[c].n

(* The reader is in the trailers, before item c.                           *)
AtTrailers(b, s, c, a, left) ==
    /\ a = ItemAt(b, s, c)
    /\ \E l \in 1..(c - 1) :
          /\ s[l].kind = "last" /\ Chunky(s, l) /\ Legal(s, l)
          /\ \A k \in (l + 1)..(c - 1) : s[k].kind = "trailer" /\ Legal(s, k)
          /\ EndOf(s[l]) <= a /\ left = MaxMeta - (a - EndOf(s[l]))

InChunked(c) ==
    /\ phase = "size" => at = ItemAt(head.len, script, c) /\ Chunky(script, c)
    /\ phase = "data" => remaining > 0 /\ AtData(script, c, at, remaining)
    /\ phase = "crlf" => AtData(script, c, at, 0)
    /\ phase = "trailers" => AtTrailers(head.len, script, c, at, budget)

ChunkPhases == {"size", "data", "crlf", "trailers"}
Reading     == ChunkPhases \cup {"exact", "close"}

(* bs are the positions in B up to a, in order.                            *)
Taken(bs, a, B) ==
    /\ bs \in Seq(Nat)
    /\ \A i \in 1..(Len(bs) - 1) : bs[i] < bs[i + 1]
    /\ \A p \in Nat : (\E i \in 1..Len(bs) : bs[i] = p) <=> p \in B /\ p <= a

(* The positions of the body, in a response framed as f.                   *)
Bytes(f, h, g, s) ==
    {p \in Nat : \/ f = "exact" /\ h.len < p /\ p <= h.len + h.cl[1]
                 \/ f = "close" /\ h.len < p /\ p <= g
                 \/ f = "size" /\ InChunk(s, p)}

(* What a request that succeeded, or failed, shows.                        *)
OkShows ==
    /\ head.status /\ ~Ambiguous /\ Complete
    /\ \A p \in Nat : IsBody(p) => p <= at
    /\ SendsBody => announced = <<req.body>>
    /\ Framing = "size" => \A k \in 1..Len(script) : script[k].start < at => Legal(script, k)
ErrorShows == fault \/ (closed /\ ~Complete) \/ ~Acceptable

PhaseInv ==
    /\ phase \in {"admit", "connect", "write"} => got = 0
    /\ phase \in {"admit", "connect", "write", "receive", "head", "parse"} => at = 0 /\ body = <<>>
    /\ phase \in {"receive", "head", "parse"} \cup Reading => announced = Lengths
    /\ phase = "receive" => ~req.streaming /\ got <= MaxTotal
    /\ phase = "head" => req.streaming /\ got < head.len /\ got <= MaxHead
    /\ phase = "parse" => head.len <= got /\ (req.streaming => got <= MaxHead + Piece)
    /\ phase \in Reading => head.status /\ ~Ambiguous /\ head.len <= at
    /\ phase = "exact" => Framing = "exact" /\ at + remaining = head.len + head.cl[1]
    /\ phase = "close" => Framing = "close"
    /\ phase \in ChunkPhases => Framing = "size" /\ \E c \in 1..(Len(script) + 1) : InChunked(c)
    /\ outcome = "ok" => OkShows
    /\ outcome = "error" => ErrorShows

HttpInv ==
    /\ HttpTypeOK
    /\ ItemsOK(head.len, script) /\ got <= EndOfStream
    /\ Framing = "size" => Lined(script)
    /\ Taken(body, at, Bytes(Framing, head, got, script))
    /\ PhaseInv

-----------------------------------------------------------------------------
(* The constants of an exchange.                                           *)

(* The limits are positive numbers.                                        *)
LEMMA HttpLimits ==
    /\ MaxHead \in Nat /\ MaxTotal \in Nat /\ MaxMeta \in Nat /\ Piece \in Nat
    /\ MaxItems \in Nat /\ MaxMeta > 0 /\ MaxHead > 0 /\ MaxTotal > 0
    BY HttpAssumption

(* How a response is framed.                                               *)
LEMMA HeadIs ==
    ASSUME head \in Heads
    PROVE  /\ head.len \in Nat /\ head.len > 0 /\ head.status \in BOOLEAN
           /\ Framing \in {"refused", "size", "exact", "close"}
           /\ Ambiguous <=> Framing = "refused"
           /\ Framing = "exact" => head.cl[1] \in Nat
<1>1. head \in HeadType
    BY HttpAssumption
<1>2. head.len \in Nat /\ head.len > 0 /\ head.status \in BOOLEAN
      /\ head.cl \in Seq(Nat \cup {-1})
    BY <1>1 DEF HeadType
<1>3. /\ Framing \in {"refused", "size", "exact", "close"}
      /\ Ambiguous <=> Framing = "refused"
    BY DEF Framing
<1>4. ASSUME Framing = "exact" PROVE head.cl[1] \in Nat
    <2>1. ~Ambiguous /\ head.cl # <<>>
        BY <1>4 DEF Framing
    <2>2. Len(head.cl) \in Nat /\ Len(head.cl) # 0
        BY <1>2, <2>1, EmptySeq, LenProperties
    <2>3. 1 \in 1..Len(head.cl)
        BY <2>2
    <2>4. head.cl[1] \in Nat \cup {-1} /\ head.cl[1] \in ToSet(head.cl)
        BY <1>2, <2>3, ElementOfSeq, LenProperties DEF ToSet
    <2>5. head.cl[1] # -1
        BY <2>1, <2>4 DEF Ambiguous
    <2>6. QED
        BY <2>4, <2>5
<1>5. QED
    BY <1>2, <1>3, <1>4

(* The framing is the head's.                                              *)
LEMMA FramingStays ==
    ASSUME head' = head
    PROVE  Framing' = Framing /\ (Ambiguous' <=> Ambiguous)
    BY DEF Framing, Ambiguous

(* What a request announces.                                               *)
LEMMA RequestIs ==
    ASSUME req \in Requests
    PROVE  /\ Candidates \in Nat /\ Lengths \in Seq(Nat)
           /\ SendsBody => Lengths = <<req.body>>
<1>1. req \in RequestType
    BY HttpAssumption
<1>2. req.own \in Int /\ req.body \in Int /\ req.addrs \in Nat
    BY <1>1 DEF RequestType
<1>3. Candidates \in Nat
    BY <1>2 DEF Candidates
<1>4. SendsBody => req.body \in Nat
    BY <1>2 DEF SendsBody
<1>5. Lengths \in Seq(Nat)
    <2>1. CASE SendsBody
        BY <1>4, <2>1 DEF Lengths
    <2>2. CASE ~SendsBody /\ req.own >= 0
        <3>1. req.own \in Nat
            BY <1>2, <2>2
        <3>2. QED
            BY <2>2, <3>1 DEF Lengths
    <2>3. CASE ~SendsBody /\ ~(req.own >= 0)
        BY <2>3 DEF Lengths
    <2>4. QED
        BY <2>1, <2>2, <2>3
<1>6. QED
    BY <1>3, <1>5 DEF Lengths

(* Three numbers in order.                                                 *)
LEMMA InOrder ==
    ASSUME NEW a \in Nat, NEW b \in Nat, NEW c \in Nat, a <= b, b <= c
    PROVE  a <= c
    OBVIOUS

(* The places in an item.                                                  *)
LEMMA PlacesAre ==
    ASSUME NEW start \in Nat, NEW line \in Nat, NEW n \in Nat, NEW e \in Nat,
           start + line + n <= e
    PROVE  /\ start + line \in Nat /\ start + line + n \in Nat
           /\ start <= e /\ start + line <= e
    OBVIOUS

(* A line that is taken in part.                                           *)
LEMMA TakenInPart ==
    ASSUME NEW start \in Nat, NEW line \in Nat, NEW takes \in Nat, takes <= line
    PROVE  start + takes \in Nat /\ start + takes <= start + line
    OBVIOUS

(* Bytes of a known extent are read.                                       *)
LEMMA BytesRead ==
    ASSUME NEW a \in Nat, NEW g \in Nat, NEW r \in Nat, NEW n \in Nat, n <= g - a, n <= r
    PROVE  /\ a + n \in 0..g /\ a <= a + n /\ r - n \in Nat /\ r - n <= r
           /\ (a + n) + (r - n) = a + r
    OBVIOUS

(* The trailers come to their limit.                                       *)
LEMMA AtLimit ==
    ASSUME NEW end \in Nat, NEW from \in Nat, NEW limit \in Nat, 0 = limit - (end - from)
    PROVE  end - from = limit
    OBVIOUS

(* The trailers run past their limit.                                      *)
LEMMA PastLimit ==
    ASSUME NEW end \in Nat, NEW from \in Nat, NEW a \in Nat, NEW line \in Nat, NEW left \in Nat,
           NEW limit \in Nat, left = limit - (a - from), left < line, a + line <= end
    PROVE  ~(end - from < limit) /\ end - from # limit
    OBVIOUS

-----------------------------------------------------------------------------
(* The stream of items.                                                    *)

(* The facts about one item.                                               *)
LEMMA ItemIs ==
    ASSUME NEW i \in SentItem
    PROVE  /\ i.start \in Nat /\ i.line \in Nat /\ i.n \in Nat /\ EndOf(i) \in Nat
           /\ i.start + i.line + i.n <= EndOf(i) /\ i.good \in BOOLEAN
           /\ i.start + i.line \in Nat /\ i.start + i.line + i.n \in Nat
           /\ i.start <= EndOf(i) /\ i.start + i.line <= EndOf(i)
           /\ i.kind \in {"chunk", "last", "trailer", "blank", "raw"}
           /\ i.kind = "chunk" /\ i.n > 0 => EndOf(i) = i.start + i.line + i.n + 2
           /\ i.kind # "chunk" /\ i.n = 0 => EndOf(i) = i.start + i.line
<1>1. /\ i.start \in Nat /\ i.line \in Nat /\ i.n \in Nat /\ i.good \in BOOLEAN
      /\ i.kind \in {"chunk", "last", "trailer", "blank", "raw"}
    BY DEF SentItem
<1>2. /\ EndOf(i) \in Nat /\ i.start + i.line + i.n <= EndOf(i)
      /\ i.kind = "chunk" /\ i.n > 0 => EndOf(i) = i.start + i.line + i.n + 2
      /\ i.kind # "chunk" /\ i.n = 0 => EndOf(i) = i.start + i.line
    <2>1. CASE i.kind = "chunk" /\ i.n > 0
        BY <1>1, <2>1 DEF EndOf
    <2>2. CASE ~(i.kind = "chunk" /\ i.n > 0)
        BY <1>1, <2>2 DEF EndOf
    <2>3. QED
        BY <2>1, <2>2
<1>3. /\ i.start + i.line \in Nat /\ i.start + i.line + i.n \in Nat
      /\ i.start <= EndOf(i) /\ i.start + i.line <= EndOf(i)
    BY <1>1, <1>2, PlacesAre
<1>4. QED
    BY <1>1, <1>2, <1>3

(* A placed item.                                                          *)
LEMMA PlacedItemIs ==
    ASSUME NEW i \in Items, NEW a \in Nat
    PROVE  LET g == Placed(i, a)
           IN  /\ g \in SentItem /\ g.start = a /\ g.kind = i.kind
               /\ i.kind # "raw" => /\ g.line > 0
                                    /\ g.kind # "chunk" => g.n = 0
                                    /\ g.kind \in {"last", "blank"} => g.good
<1>1. i \in ItemType
    BY HttpAssumption
<1>2. /\ i.kind \in {"chunk", "last", "trailer", "blank", "raw"} /\ i.line \in Nat
      /\ i.n \in Nat /\ i.good \in BOOLEAN
      /\ i.kind # "raw" => /\ i.line > 0
                           /\ i.kind # "chunk" => i.n = 0
                           /\ i.kind \in {"last", "blank"} => i.good
    <2>1. CASE i \in Chunk
        BY <2>1 DEF Chunk
    <2>2. CASE i \in Line
        <3>1. i.kind \in {"last", "blank"} /\ i.line \in Nat \ {0} /\ i.n \in {0}
              /\ i.good \in {TRUE}
            BY <2>2 DEF Line
        <3>2. i.good = TRUE
            BY <3>1, Zenon
        <3>3. i.n = 0 /\ i.good \in BOOLEAN /\ i.good
            BY <3>1, <3>2
        <3>4. QED
            BY <3>1, <3>3
    <2>3. CASE i \in Trailer
        BY <2>3 DEF Trailer
    <2>4. CASE i \in Raw
        <3>1. i.kind = "raw" /\ i.line \in {0} /\ i.n \in Nat /\ i.good \in {TRUE}
            BY <2>4 DEF Raw
        <3>2. i.good = TRUE
            BY <3>1, Zenon
        <3>3. i.line = 0 /\ i.good \in BOOLEAN
            BY <3>1, <3>2
        <3>4. QED
            BY <3>1, <3>3
    <2>5. QED
        BY <1>1, <2>1, <2>2, <2>3, <2>4 DEF ItemType
<1>3. QED
    BY <1>2 DEF Placed, SentItem

(* How far the stream goes.                                                *)
LEMMA ItemsReach ==
    ASSUME NEW b \in Nat, NEW s, ItemsOK(b, s)
    PROVE  /\ Len(s) \in Nat /\ StreamEnd(b, s) \in Nat /\ b <= StreamEnd(b, s)
           /\ ItemAt(b, s, Len(s) + 1) = StreamEnd(b, s)
           /\ \A c \in 1..Len(s) : /\ s[c] \in SentItem /\ ItemAt(b, s, c) = s[c].start
                                   /\ b <= s[c].start /\ EndOf(s[c]) <= StreamEnd(b, s)
           /\ s # <<>> => Last(s) = s[Len(s)] /\ Len(s) >= 1 /\ StreamEnd(b, s) = EndOf(s[Len(s)])
<1>1. Len(s) \in Nat /\ \A c \in 1..Len(s) : s[c] \in SentItem
    BY ElementOfSeq, LenProperties DEF ItemsOK
<1>2. /\ ItemAt(b, s, Len(s) + 1) = StreamEnd(b, s)
      /\ \A c \in 1..Len(s) : ItemAt(b, s, c) = s[c].start
    BY <1>1 DEF ItemAt
<1>3. CASE s = <<>>
    <2>1. Len(s) = 0
        BY <1>3
    <2>2. \A c \in 1..Len(s) : FALSE
        BY <2>1
    <2>3. QED
        BY <1>1, <1>2, <1>3, <2>2 DEF StreamEnd
<1>4. CASE s # <<>>
    <2>1. Len(s) >= 1
        BY <1>1, <1>4, EmptySeq DEF ItemsOK
    <2>2. Last(s) = s[Len(s)] /\ Len(s) \in 1..Len(s)
        BY <1>1, <2>1 DEF Last
    <2>3. StreamEnd(b, s) = EndOf(s[Len(s)])
        BY <1>4, <2>2 DEF StreamEnd
    <2>4. EndOf(s[Len(s)]) \in Nat /\ s[Len(s)].start \in Nat /\ b <= s[Len(s)].start
        BY <1>1, <2>2, ItemIs DEF ItemsOK
    <2>5. s[Len(s)].start <= EndOf(s[Len(s)])
        <3>1. s[Len(s)] \in SentItem
            BY <1>1, <2>2
        <3>2. QED
            BY <3>1, ItemIs
    <2>6. ASSUME NEW c \in 1..Len(s)
          PROVE  EndOf(s[c]) <= EndOf(s[Len(s)])
        <3>1. CASE c = Len(s)
            BY <2>4, <3>1
        <3>2. CASE c < Len(s)
            <4>1. EndOf(s[c]) <= s[Len(s)].start
                BY <2>2, <3>2 DEF ItemsOK
            <4>2. EndOf(s[c]) \in Nat
                BY <1>1, ItemIs
            <4>3. QED
                BY <1>1, <2>4, <2>5, <4>1, <4>2
        <3>3. QED
            BY <1>1, <3>1, <3>2
    <2>7. b <= StreamEnd(b, s)
        BY <2>3, <2>4, <2>5
    <2>8. \A c \in 1..Len(s) : b <= s[c].start
        BY DEF ItemsOK
    <2>9. QED
        BY <1>1, <1>2, <1>4, <2>1, <2>2, <2>3, <2>4, <2>6, <2>7, <2>8
<1>5. QED
    BY <1>3, <1>4

(* The stream t goes on from s.                                            *)
Extends(s, t) == /\ Len(s) \in Nat /\ Len(t) \in Nat /\ Len(s) <= Len(t)
                 /\ \A k \in 1..Len(s) : t[k] = s[k]

(* One more item behind the others.                                        *)
LEMMA ItemsGrow ==
    ASSUME NEW b \in Nat, NEW s, ItemsOK(b, s), NEW g \in SentItem, g.start = StreamEnd(b, s)
    PROVE  LET t == Append(s, g)
           IN  /\ ItemsOK(b, t) /\ Extends(s, t) /\ Len(t) = Len(s) + 1 /\ t[Len(s) + 1] = g
               /\ StreamEnd(b, s) <= StreamEnd(b, t)
               /\ \A c \in 1..(Len(s) + 1) : ItemAt(b, t, c) = ItemAt(b, s, c)
<1> DEFINE t == Append(s, g)
<1>1. s \in Seq(SentItem)
    BY DEF ItemsOK
<1>2. t \in Seq(SentItem) /\ Len(t) = Len(s) + 1 /\ t[Len(s) + 1] = g
      /\ \A k \in 1..Len(s) : t[k] = s[k]
    BY <1>1, AppendProperties
<1>3. Len(s) \in Nat /\ StreamEnd(b, s) \in Nat /\ b <= StreamEnd(b, s)
    BY ItemsReach
<1>4. EndOf(g) \in Nat /\ g.start \in Nat /\ g.start <= EndOf(g)
    BY ItemIs
<1> HIDE DEF t
<1>5. t # <<>> /\ Last(t) = g
    <2>1. Len(t) # 0
        BY <1>2, <1>3
    <2>2. t # <<>>
        BY <2>1
    <2>3. QED
        BY <1>2, <2>2 DEF Last
<1>6. StreamEnd(b, t) = EndOf(g)
    BY <1>5 DEF StreamEnd
<1>7. ASSUME NEW c \in 1..(Len(s) + 1) PROVE ItemAt(b, t, c) = ItemAt(b, s, c)
    <2>1. CASE c <= Len(s)
        BY <1>2, <1>3, <2>1 DEF ItemAt
    <2>2. CASE c = Len(s) + 1
        BY <1>2, <1>3, <2>2 DEF ItemAt
    <2>3. QED
        BY <1>3, <2>1, <2>2
<1>8. ItemAt(b, t, 1) = b
    <2>1. 1 \in 1..(Len(s) + 1)
        BY <1>3
    <2>2. QED
        BY <1>7, <2>1 DEF ItemsOK
<1>9. ASSUME NEW i \in 1..Len(t) PROVE b <= t[i].start /\ ItemAt(b, t, i + 1) = EndOf(t[i])
    <2>1. CASE i \in 1..Len(s)
        <3>1. i + 1 \in 1..(Len(s) + 1)
            BY <1>3, <2>1
        <3>2. ItemAt(b, t, i + 1) = ItemAt(b, s, i + 1)
            BY <1>7, <3>1
        <3>3. QED
            BY <1>2, <2>1, <3>2 DEF ItemsOK
    <2>2. CASE i = Len(s) + 1
        <3>1. ItemAt(b, t, i + 1) = StreamEnd(b, t)
            BY <1>2, <1>3, <2>2 DEF ItemAt
        <3>2. QED
            BY <1>2, <1>3, <1>6, <2>2, <3>1
    <2>3. QED
        BY <1>2, <1>3, <2>1, <2>2
<1>10. ASSUME NEW i \in 1..Len(t), NEW j \in 1..Len(t), i < j PROVE EndOf(t[i]) <= t[j].start
    <2>1. i \in 1..Len(s)
        BY <1>2, <1>3, <1>10
    <2>2. CASE j \in 1..Len(s)
        BY <1>2, <1>10, <2>1, <2>2 DEF ItemsOK
    <2>3. CASE j = Len(s) + 1
        BY <1>2, <2>1, <2>3, ItemsReach
    <2>4. QED
        BY <1>2, <1>3, <2>2, <2>3
<1>11. ItemsOK(b, t)
    BY <1>2, <1>8, <1>9, <1>10 DEF ItemsOK
<1>12. Extends(s, t)
    BY <1>2, <1>3 DEF Extends
<1>13. StreamEnd(b, s) <= StreamEnd(b, t)
    BY <1>4, <1>6
<1>14. QED
    BY <1>2, <1>7, <1>11, <1>12, <1>13 DEF t

(* What holds of the items so far holds when there are more.               *)
LEMMA LegalGrows ==
    ASSUME NEW s, NEW t, Extends(s, t), NEW k \in 1..Len(s)
    PROVE  /\ After(t, k) <=> After(s, k)
           /\ Legal(t, k) <=> Legal(s, k)
<1>1. Len(s) \in Nat /\ t[k] = s[k]
    BY DEF Extends
<1>2. \A l \in 1..(k - 1) : l \in 1..Len(s)
    BY <1>1
<1>3. \A l \in 1..(k - 1) : t[l] = s[l]
    BY <1>2 DEF Extends
<1>4. After(t, k) <=> After(s, k)
    BY <1>3 DEF After
<1>5. QED
    BY <1>1, <1>4 DEF Legal

(* The chunks before c stay in order.                                      *)
LEMMA ChunkyGrows ==
    ASSUME NEW s, NEW t, Extends(s, t), NEW c \in 1..(Len(s) + 1), Chunky(s, c)
    PROVE  Chunky(t, c)
<1>1. Len(s) \in Nat
    BY DEF Extends
<1>2. SUFFICES ASSUME NEW k \in 1..(c - 1) PROVE t[k].kind = "chunk" /\ Legal(t, k)
    BY DEF Chunky
<1>3. k \in 1..Len(s)
    BY <1>1
<1>4. t[k] = s[k]
    BY <1>3 DEF Extends
<1>5. s[k].kind = "chunk" /\ Legal(s, k)
    BY DEF Chunky
<1>6. Legal(t, k)
    BY <1>3, <1>5, LegalGrows
<1>7. QED
    BY <1>4, <1>5, <1>6

(* The reader stays where it was in a chunk.                               *)
LEMMA AtDataGrows ==
    ASSUME NEW s, NEW t, Extends(s, t), NEW c \in 1..(Len(s) + 1), NEW a, NEW r,
           AtData(s, c, a, r)
    PROVE  AtData(t, c, a, r)
<1>1. Len(s) \in Nat /\ Len(t) \in Nat /\ Len(s) <= Len(t)
    BY DEF Extends
<1>2. c \in 1..Len(s)
    BY <1>1 DEF AtData
<1>3. t[c] = s[c]
    BY <1>2 DEF Extends
<1>4. Chunky(t, c)
    BY ChunkyGrows DEF AtData
<1>5. c <= Len(t)
    BY <1>1, <1>2
<1>6. QED
    BY <1>3, <1>4, <1>5 DEF AtData

(* The reader stays where it was in the trailers.                          *)
LEMMA AtTrailersGrows ==
    ASSUME NEW s, NEW t, Extends(s, t), NEW c \in 1..(Len(s) + 1), NEW b, NEW a, NEW left,
           AtTrailers(b, s, c, a, left), ItemAt(b, t, c) = ItemAt(b, s, c)
    PROVE  AtTrailers(b, t, c, a, left)
<1>1. Len(s) \in Nat
    BY DEF Extends
<1>2. PICK l \in 1..(c - 1) :
          /\ s[l].kind = "last" /\ Chunky(s, l) /\ Legal(s, l)
          /\ \A k \in (l + 1)..(c - 1) : s[k].kind = "trailer" /\ Legal(s, k)
          /\ EndOf(s[l]) <= a /\ left = MaxMeta - (a - EndOf(s[l]))
    BY DEF AtTrailers
<1>3. l \in 1..Len(s) /\ l \in 1..(Len(s) + 1)
    BY <1>1
<1>4. t[l] = s[l]
    BY <1>3 DEF Extends
<1>5. Chunky(t, l) /\ Legal(t, l)
    BY <1>2, <1>3, ChunkyGrows, LegalGrows
<1>6. ASSUME NEW k \in (l + 1)..(c - 1) PROVE t[k].kind = "trailer" /\ Legal(t, k)
    <2>1. k \in 1..Len(s)
        BY <1>1
    <2>2. t[k] = s[k]
        BY <2>1 DEF Extends
    <2>3. Legal(t, k)
        BY <1>2, <2>1, LegalGrows
    <2>4. QED
        BY <1>2, <2>2, <2>3
<1>7. a = ItemAt(b, t, c)
    BY DEF AtTrailers
<1>8. QED
    BY <1>2, <1>4, <1>5, <1>6, <1>7 DEF AtTrailers

(* Which bytes of an item are data.                                        *)
LEMMA DataOfItem ==
    ASSUME NEW b \in Nat, NEW s, ItemsOK(b, s), NEW c \in 1..Len(s),
           NEW p \in Nat, s[c].start < p, p <= EndOf(s[c])
    PROVE  InChunk(s, p) <=> /\ s[c].kind = "chunk" /\ ~After(s, c)
                             /\ s[c].start + s[c].line < p
                             /\ p <= s[c].start + s[c].line + s[c].n
<1>1. Len(s) \in Nat /\ \A k \in 1..Len(s) : s[k] \in SentItem
    BY ItemsReach
<1>2. ASSUME NEW k \in 1..Len(s), s[k].start + s[k].line < p,
             p <= s[k].start + s[k].line + s[k].n
      PROVE  k = c
    <2>1. /\ s[k].start \in Nat /\ s[k].line \in Nat /\ s[k].n \in Nat /\ EndOf(s[k]) \in Nat
          /\ s[k].start + s[k].line + s[k].n <= EndOf(s[k])
        BY <1>1, ItemIs
    <2>2. s[c].start \in Nat /\ EndOf(s[c]) \in Nat
        BY <1>1, ItemIs
    <2>3. ~(k < c)
        <3>1. SUFFICES ASSUME k < c PROVE FALSE
            OBVIOUS
        <3>2. EndOf(s[k]) <= s[c].start
            BY <3>1 DEF ItemsOK
        <3>3. s[k].start + s[k].line + s[k].n \in Nat
            BY <1>1, ItemIs
        <3>4. p <= EndOf(s[k])
            BY <1>2, <2>1, <3>3, InOrder
        <3>5. p <= s[c].start
            BY <2>1, <2>2, <3>2, <3>4, InOrder
        <3>6. QED
            BY <2>2, <3>5
    <2>4. ~(c < k)
        <3>1. SUFFICES ASSUME c < k PROVE FALSE
            OBVIOUS
        <3>2. EndOf(s[c]) <= s[k].start
            BY <3>1 DEF ItemsOK
        <3>3. p <= s[k].start
            BY <2>1, <2>2, <3>2, InOrder
        <3>4. QED
            BY <1>2, <2>1, <3>3
    <2>5. QED
        BY <1>1, <2>3, <2>4
<1>3. QED
    BY <1>2 DEF InChunk

(* No byte behind the stream's end is data.                                *)
LEMMA DataInStream ==
    ASSUME NEW b \in Nat, NEW s, ItemsOK(b, s), NEW p \in Nat, InChunk(s, p)
    PROVE  p <= StreamEnd(b, s)
<1>1. PICK k \in 1..Len(s) : p <= s[k].start + s[k].line + s[k].n
    BY DEF InChunk
<1>2. s[k] \in SentItem /\ EndOf(s[k]) <= StreamEnd(b, s) /\ StreamEnd(b, s) \in Nat
    BY ItemsReach
<1>3. /\ s[k].start \in Nat /\ s[k].line \in Nat /\ s[k].n \in Nat /\ EndOf(s[k]) \in Nat
      /\ s[k].start + s[k].line + s[k].n <= EndOf(s[k])
    BY <1>2, ItemIs
<1>4. QED
    BY <1>1, <1>2, <1>3

(* A new item makes no byte before it data.                                *)
LEMMA DataGrows ==
    ASSUME NEW b \in Nat, NEW s, ItemsOK(b, s), NEW g \in SentItem, g.start = StreamEnd(b, s),
           NEW p \in Nat, p <= StreamEnd(b, s)
    PROVE  InChunk(Append(s, g), p) <=> InChunk(s, p)
<1> DEFINE t == Append(s, g)
<1>1. /\ Extends(s, t) /\ Len(t) = Len(s) + 1 /\ t[Len(s) + 1] = g
    BY ItemsGrow
<1> HIDE DEF t
<1>2. Len(s) \in Nat
    BY ItemsReach
<1>3. g.start \in Nat /\ g.line \in Nat
    BY ItemIs
<1>4. ~(t[Len(s) + 1].start + t[Len(s) + 1].line < p)
    BY <1>1, <1>3
<1>5. \A k \in 1..Len(s) : t[k] = s[k] /\ (After(t, k) <=> After(s, k))
    <2>1. \A k \in 1..Len(s) : t[k] = s[k]
        BY <1>1 DEF Extends
    <2>2. \A k \in 1..Len(s) : After(t, k) <=> After(s, k)
        BY <1>1, LegalGrows
    <2>3. QED
        BY <2>1, <2>2
<1>6. \A k \in 1..Len(t) : k \in 1..Len(s) \/ k = Len(s) + 1
    BY <1>1, <1>2
<1>7. \A k \in 1..Len(s) : k \in 1..Len(t)
    BY <1>1, <1>2
<1>8. InChunk(t, p) <=> InChunk(s, p)
    BY <1>4, <1>5, <1>6, <1>7 DEF InChunk
<1>9. QED
    BY <1>8 DEF t

-----------------------------------------------------------------------------
(* The bytes handed over.                                                  *)

(* Only the bytes up to the reader count.                                  *)
LEMMA TakenSame ==
    ASSUME NEW bs, NEW a \in Nat, NEW B, NEW C, Taken(bs, a, B),
           \A p \in Nat : p <= a => (p \in B <=> p \in C)
    PROVE  Taken(bs, a, C)
    BY DEF Taken

(* Bytes that are not the body's are passed over.                          *)
LEMMA TakenSkips ==
    ASSUME NEW bs, NEW a \in Nat, NEW z \in Nat, NEW B, Taken(bs, a, B), a <= z,
           \A p \in Nat : a < p /\ p <= z => p \notin B
    PROVE  Taken(bs, z, B)
<1>1. \A p \in Nat : p \in B /\ p <= z <=> p \in B /\ p <= a
    OBVIOUS
<1>2. QED
    BY <1>1 DEF Taken

(* Bytes that are the body's are handed over.                              *)
LEMMA TakenDelivers ==
    ASSUME NEW bs, NEW a \in Nat, NEW n \in Nat, NEW B, Taken(bs, a, B),
           \A p \in Nat : a < p /\ p <= a + n => p \in B
    PROVE  Taken(bs \o [i \in 1..n |-> a + i], a + n, B)
<1> DEFINE r == [i \in 1..n |-> a + i]
           u == bs \o r
<1>1. r \in Seq(Nat) /\ Len(r) = n /\ \A i \in 1..n : r[i] = a + i
    OBVIOUS
<1>2. bs \in Seq(Nat) /\ Len(bs) \in Nat
    BY LenProperties DEF Taken
<1>3. /\ u \in Seq(Nat) /\ Len(u) = Len(bs) + n
      /\ \A i \in 1..Len(u) : u[i] = IF i <= Len(bs) THEN bs[i] ELSE r[i - Len(bs)]
    BY <1>1, <1>2, ConcatProperties
<1> HIDE DEF u, r
<1>4. \A i \in 1..Len(bs) : bs[i] \in Nat /\ bs[i] <= a
    BY <1>2, ElementOfSeq DEF Taken
<1>5. \A i \in 1..Len(bs) : i \in 1..Len(u) /\ u[i] = bs[i]
    BY <1>2, <1>3
<1>6. \A i \in 1..n : Len(bs) + i \in 1..Len(u) /\ u[Len(bs) + i] = a + i
    <2>1. TAKE i \in 1..n
    <2>2. Len(bs) + i \in 1..Len(u) /\ ~(Len(bs) + i <= Len(bs)) /\ Len(bs) + i - Len(bs) = i
        BY <1>2, <1>3
    <2>3. u[Len(bs) + i] = r[Len(bs) + i - Len(bs)]
        BY <1>3, <2>2
    <2>4. u[Len(bs) + i] = r[i] /\ r[i] = a + i
        BY <1>1, <2>2, <2>3
    <2>5. QED
        BY <2>2, <2>4
<1>7. \A i \in 1..Len(u) : i \in 1..Len(bs) \/ \E j \in 1..n : i = Len(bs) + j
    <2>1. TAKE i \in 1..Len(u)
    <2>2. CASE i <= Len(bs)
        BY <1>2, <2>2
    <2>3. CASE ~(i <= Len(bs))
        <3>1. i - Len(bs) \in 1..n /\ i = Len(bs) + (i - Len(bs))
            BY <1>2, <1>3, <2>3
        <3>2. QED
            BY <3>1
    <2>4. QED
        BY <2>2, <2>3
<1>8. ASSUME NEW i \in 1..(Len(u) - 1) PROVE u[i] < u[i + 1]
    <2>1. CASE i + 1 <= Len(bs)
        <3>1. i \in 1..Len(bs) /\ i + 1 \in 1..Len(bs) /\ i \in 1..(Len(bs) - 1)
            BY <1>2, <2>1
        <3>2. bs[i] < bs[i + 1]
            BY <3>1 DEF Taken
        <3>3. QED
            BY <1>5, <3>1, <3>2
    <2>2. CASE i = Len(bs)
        <3>1. i \in 1..Len(bs) /\ 1 \in 1..n
            BY <1>2, <1>3, <2>2
        <3>2. u[i] = bs[i] /\ u[i + 1] = a + 1
            BY <1>5, <1>6, <2>2, <3>1
        <3>3. QED
            BY <1>4, <3>1, <3>2
    <2>3. CASE i > Len(bs)
        <3>1. PICK j \in 1..n : i = Len(bs) + j
            <4>1. i \in 1..Len(u) /\ i \notin 1..Len(bs)
                BY <1>2, <1>3, <2>3
            <4>2. QED
                BY <1>7, <4>1
        <3>2. j + 1 \in 1..n /\ i + 1 = Len(bs) + (j + 1)
            BY <1>2, <1>3, <3>1
        <3>3. u[i] = a + j /\ u[i + 1] = a + (j + 1)
            BY <1>6, <3>1, <3>2
        <3>4. QED
            BY <3>3
    <2>4. QED
        BY <1>2, <1>3, <2>1, <2>2, <2>3
<1>9. ASSUME NEW p \in Nat
      PROVE  (\E i \in 1..Len(u) : u[i] = p) <=> p \in B /\ p <= a + n
    <2>1. ASSUME NEW i \in 1..Len(u), u[i] = p PROVE p \in B /\ p <= a + n
        <3>1. CASE i \in 1..Len(bs)
            <4>1. bs[i] = p
                BY <1>5, <2>1, <3>1
            <4>2. p \in B /\ p <= a
                BY <3>1, <4>1 DEF Taken
            <4>3. QED
                BY <4>2
        <3>2. CASE \E j \in 1..n : i = Len(bs) + j
            <4>1. PICK j \in 1..n : i = Len(bs) + j
                BY <3>2
            <4>2. p = a + j
                BY <1>6, <2>1, <4>1
            <4>3. QED
                BY <4>2
        <3>3. QED
            BY <1>7, <3>1, <3>2
    <2>2. ASSUME p \in B, p <= a + n PROVE \E i \in 1..Len(u) : u[i] = p
        <3>1. CASE p <= a
            <4>1. PICK i \in 1..Len(bs) : bs[i] = p
                BY <2>2, <3>1 DEF Taken
            <4>2. QED
                BY <1>5, <4>1
        <3>2. CASE ~(p <= a)
            <4>1. p - a \in 1..n /\ a + (p - a) = p
                BY <2>2, <3>2
            <4>2. QED
                BY <1>6, <4>1
        <3>3. QED
            BY <3>1, <3>2
    <2>3. QED
        BY <2>1, <2>2
<1>10. Taken(u, a + n, B)
    BY <1>3, <1>8, <1>9 DEF Taken
<1>11. QED
    BY <1>10 DEF u, r

-----------------------------------------------------------------------------
(* Where the reader is.                                                    *)

(* The item whose first byte the reader has come to.                       *)
LEMMA HereIs ==
    ASSUME NEW b \in Nat, ItemsOK(b, script), Lined(script), NEW c \in 1..(Len(script) + 1),
           at = ItemAt(b, script, c)
    PROVE  /\ c <= Len(script) => Here = script[c]
           /\ c > Len(script) => Here = Garbage
<1> DEFINE starts == {k \in 1..Len(script) : script[k].start = at}
<1>1. /\ Len(script) \in Nat /\ StreamEnd(b, script) \in Nat
      /\ \A k \in 1..Len(script) : /\ script[k] \in SentItem
                                   /\ EndOf(script[k]) <= StreamEnd(b, script)
    BY ItemsReach
<1>2. \A k \in 1..Len(script) :
          /\ script[k].start \in Nat /\ EndOf(script[k]) \in Nat
          /\ script[k].start < EndOf(script[k])
    <2>1. TAKE k \in 1..Len(script)
    <2>2. script[k].line \in Nat /\ script[k].line > 0
        BY <1>1, ItemIs DEF Lined
    <2>3. /\ script[k].start \in Nat /\ EndOf(script[k]) \in Nat /\ script[k].n \in Nat
          /\ script[k].start + script[k].line + script[k].n <= EndOf(script[k])
        BY <1>1, ItemIs
    <2>4. QED
        BY <2>2, <2>3
<1>3. ASSUME c <= Len(script) PROVE Here = script[c]
    <2>1. c \in 1..Len(script) /\ script[c].start = at
        BY <1>1, <1>3 DEF ItemAt
    <2>2. ASSUME NEW k \in 1..Len(script), script[k].start = at PROVE k = c
        <3>1. ~(k < c)
            <4>1. SUFFICES ASSUME k < c PROVE FALSE
                OBVIOUS
            <4>2. EndOf(script[k]) <= script[c].start
                BY <2>1, <4>1 DEF ItemsOK
            <4>3. QED
                BY <1>2, <2>1, <2>2, <4>2
        <3>2. ~(c < k)
            <4>1. SUFFICES ASSUME c < k PROVE FALSE
                OBVIOUS
            <4>2. EndOf(script[c]) <= script[k].start
                BY <2>1, <4>1 DEF ItemsOK
            <4>3. QED
                BY <1>2, <2>1, <2>2, <4>2
        <3>3. QED
            BY <1>1, <2>1, <3>1, <3>2
    <2>3. starts = {c}
        BY <2>1, <2>2
    <2>4. (CHOOSE k \in starts : TRUE) = c
        BY <2>3
    <2>5. starts # {}
        BY <2>3
    <2>6. QED
        BY <2>4, <2>5 DEF Here
<1>4. ASSUME c > Len(script) PROVE Here = Garbage
    <2>1. at = StreamEnd(b, script)
        BY <1>1, <1>4 DEF ItemAt
    <2>2. \A k \in 1..Len(script) : script[k].start # at
        BY <1>1, <1>2, <2>1
    <2>3. starts = {}
        BY <2>2
    <2>4. QED
        BY <2>3 DEF Here
<1>5. QED
    BY <1>3, <1>4

(* No two items end at the same byte.                                      *)
LEMMA ItemByEnd ==
    ASSUME NEW b \in Nat, NEW s, ItemsOK(b, s), Lined(s), NEW k \in 1..Len(s),
           NEW c \in 1..Len(s), EndOf(s[k]) = EndOf(s[c])
    PROVE  k = c
<1>1. Len(s) \in Nat /\ s[k] \in SentItem /\ s[c] \in SentItem
    BY ItemsReach
<1>2. s[k].line > 0 /\ s[c].line > 0
    BY DEF Lined
<1>3. /\ s[k].start \in Nat /\ s[k].line \in Nat /\ s[k].n \in Nat /\ EndOf(s[k]) \in Nat
      /\ s[k].start + s[k].line + s[k].n <= EndOf(s[k])
    BY <1>1, ItemIs
<1>4. /\ s[c].start \in Nat /\ s[c].line \in Nat /\ s[c].n \in Nat /\ EndOf(s[c]) \in Nat
      /\ s[c].start + s[c].line + s[c].n <= EndOf(s[c])
    BY <1>1, ItemIs
<1>5. ~(k < c)
    <2>1. SUFFICES ASSUME k < c PROVE FALSE
        OBVIOUS
    <2>2. EndOf(s[k]) <= s[c].start
        BY <2>1 DEF ItemsOK
    <2>3. QED
        BY <1>2, <1>3, <1>4, <2>2
<1>6. ~(c < k)
    <2>1. SUFFICES ASSUME c < k PROVE FALSE
        OBVIOUS
    <2>2. EndOf(s[c]) <= s[k].start
        BY <2>1 DEF ItemsOK
    <2>3. QED
        BY <1>2, <1>3, <1>4, <2>2
<1>7. QED
    BY <1>1, <1>5, <1>6

(* Among the chunks the last one has not come.                             *)
LEMMA ChunkyIs ==
    ASSUME NEW s, NEW c \in Nat \ {0}, Chunky(s, c)
    PROVE  /\ ~After(s, c)
           /\ s[c].kind = "chunk" /\ Legal(s, c) => Chunky(s, c + 1)
<1>1. ~After(s, c)
    BY DEF Chunky, After
<1>2. ASSUME s[c].kind = "chunk", Legal(s, c) PROVE Chunky(s, c + 1)
    <2>1. \A k \in 1..((c + 1) - 1) : k \in 1..(c - 1) \/ k = c
        OBVIOUS
    <2>2. QED
        BY <1>2, <2>1 DEF Chunky
<1>3. QED
    BY <1>1, <1>2

(* The positions of the body are the ones IsBody names.                    *)
LEMMA BytesAreBody ==
    ASSUME NEW p \in Nat
    PROVE  p \in Bytes(Framing, head, got, script) <=> IsBody(p)
    BY DEF Bytes, IsBody

-----------------------------------------------------------------------------
(* Preservation: the steps that leave the reader where it is.              *)

(* What a request shows depends on what was asked and what arrived.        *)
LEMMA ShowsStay ==
    ASSUME UNCHANGED <<req, head, script, got, closed>>
    PROVE  /\ Framing' = Framing /\ (Ambiguous' <=> Ambiguous) /\ (Complete' <=> Complete)
           /\ (Acceptable' <=> Acceptable) /\ (SendsBody' <=> SendsBody) /\ Lengths' = Lengths
           /\ EndOfStream' = EndOfStream /\ Candidates' = Candidates
           /\ \A p \in Nat : IsBody(p)' <=> IsBody(p)
<1>1. Framing' = Framing /\ (Ambiguous' <=> Ambiguous)
    BY FramingStays
<1>2. /\ (SendsBody' <=> SendsBody) /\ Lengths' = Lengths /\ Candidates' = Candidates
    BY DEF SendsBody, Lengths, Candidates
<1>3. EndOfStream' = EndOfStream
    BY DEF EndOfStream
<1>4. Complete' <=> Complete
    BY <1>1 DEF Complete
<1>5. Acceptable' <=> Acceptable
    BY <1>1 DEF Acceptable
<1>6. \A p \in Nat : IsBody(p)' <=> IsBody(p)
    BY <1>1 DEF IsBody
<1>7. QED
    BY <1>1, <1>2, <1>3, <1>4, <1>5, <1>6

(* A request that is over need only show what it came to.                  *)
LEMMA OverShows ==
    ASSUME phase' = "over", outcome' = "ok" => OkShows', outcome' = "error" => ErrorShows'
    PROVE  PhaseInv'
    BY DEF PhaseInv, Reading, ChunkPhases

(* A step that moves neither the stream nor the reader.                    *)
LEMMA ReaderStays ==
    ASSUME HttpInv, UNCHANGED <<req, head, script, socket, reader>>,
           dialled' \in 0..Candidates, announced' \in Seq(Nat),
           phase' \in Phases, fault' \in BOOLEAN, outcome' \in {"none", "ok", "error"},
           outcome' = "none" <=> phase' # "over", PhaseInv'
    PROVE  HttpInv'
<1>1. UNCHANGED <<req, head, script, got, closed, at, remaining, budget, body>>
    BY DEF socket, reader
<1>2. Framing' = Framing /\ EndOfStream' = EndOfStream /\ Candidates' = Candidates
    BY <1>1, ShowsStay
<1>3. HttpTypeOK'
    BY <1>1, <1>2 DEF HttpInv, HttpTypeOK
<1>4. QED
    BY <1>1, <1>2, <1>3 DEF HttpInv

(* A local refusal, a failed call or a timeout.                            *)
LEMMA FailsLocally ==
    ASSUME HttpInv, UNCHANGED <<req, head, script, socket, reader>>,
           dialled' \in 0..Candidates, announced' \in Seq(Nat), Fails(TRUE)
    PROVE  HttpInv'
<1>1. phase' = "over" /\ outcome' = "error" /\ fault' = TRUE
    BY DEF Fails
<1>2. ErrorShows'
    BY <1>1 DEF ErrorShows
<1>3. PhaseInv'
    BY <1>1, <1>2, OverShows
<1>4. phase' \in Phases /\ fault' \in BOOLEAN
    BY <1>1 DEF Phases
<1>5. QED
    BY <1>1, <1>3, <1>4, ReaderStays

(* AdmitRequest preserves the invariant.                                   *)
LEMMA AdmitHttp == HttpInv /\ AdmitRequest => HttpInv'
<1>1. SUFFICES ASSUME HttpInv, AdmitRequest PROVE HttpInv'
    OBVIOUS
<1>2. /\ phase = "admit" /\ UNCHANGED <<req, dialled, announced>>
      /\ UNCHANGED <<req, head, script, socket, reader>>
    BY <1>1 DEF AdmitRequest, asked
<1>3. dialled' \in 0..Candidates /\ announced' \in Seq(Nat)
    BY <1>1, <1>2 DEF HttpInv, HttpTypeOK
<1>4. CASE Fails(TRUE)
    BY <1>1, <1>2, <1>3, <1>4, FailsLocally
<1>5. CASE Goto("connect")
    <2>1. phase' = "connect" /\ UNCHANGED <<outcome, fault>> /\ UNCHANGED <<got, at, body>>
        BY <1>2, <1>5 DEF Goto, socket, reader
    <2>2. outcome = "none" /\ got = 0 /\ at = 0 /\ body = <<>> /\ fault \in BOOLEAN
        BY <1>1, <1>2 DEF HttpInv, HttpTypeOK, PhaseInv
    <2>3. PhaseInv'
        BY <2>1, <2>2 DEF PhaseInv, Reading, ChunkPhases
    <2>4. QED
        BY <1>1, <1>2, <1>3, <2>1, <2>2, <2>3, ReaderStays DEF Phases
<1>6. QED
    BY <1>1, <1>4, <1>5 DEF AdmitRequest

(* Dial preserves the invariant.                                           *)
LEMMA DialHttp == HttpInv /\ Dial => HttpInv'
<1>1. SUFFICES ASSUME HttpInv, Dial PROVE HttpInv'
    OBVIOUS
<1>2. /\ phase = "connect" /\ announced' = announced
      /\ UNCHANGED <<req, head, script, socket, reader>>
      /\ dialled < Candidates /\ dialled' = dialled + 1
    BY <1>1 DEF Dial
<1>3. dialled' \in 0..Candidates /\ announced' \in Seq(Nat)
    <2>1. Candidates \in Nat
        BY <1>1, RequestIs DEF HttpInv, HttpTypeOK
    <2>2. dialled \in 0..Candidates /\ announced \in Seq(Nat)
        BY <1>1 DEF HttpInv, HttpTypeOK
    <2>3. QED
        BY <1>2, <2>1, <2>2
<1>4. CASE Fails(TRUE)
    BY <1>1, <1>2, <1>3, <1>4, FailsLocally
<1>5. CASE Goto("write") \/ Goto("connect")
    <2>1. /\ phase' \in {"write", "connect"} /\ UNCHANGED <<outcome, fault>>
          /\ UNCHANGED <<got, at, body>>
        BY <1>2, <1>5 DEF Goto, socket, reader
    <2>2. outcome = "none" /\ got = 0 /\ at = 0 /\ body = <<>> /\ fault \in BOOLEAN
        BY <1>1, <1>2 DEF HttpInv, HttpTypeOK, PhaseInv
    <2>3. PhaseInv'
        BY <2>1, <2>2 DEF PhaseInv, Reading, ChunkPhases
    <2>4. phase' \in Phases /\ phase' # "over"
        BY <2>1 DEF Phases
    <2>5. QED
        BY <1>1, <1>2, <1>3, <2>1, <2>2, <2>3, <2>4, ReaderStays
<1>6. QED
    BY <1>1, <1>4, <1>5 DEF Dial

(* NoAddress preserves the invariant.                                      *)
LEMMA NoAddressHttp == HttpInv /\ NoAddress => HttpInv'
<1>1. SUFFICES ASSUME HttpInv, NoAddress PROVE HttpInv'
    OBVIOUS
<1>2. /\ Fails(TRUE) /\ UNCHANGED <<req, dialled, announced>>
      /\ UNCHANGED <<req, head, script, socket, reader>>
    BY <1>1 DEF NoAddress, asked
<1>3. dialled' \in 0..Candidates /\ announced' \in Seq(Nat)
    BY <1>1, <1>2 DEF HttpInv, HttpTypeOK
<1>4. QED
    BY <1>1, <1>2, <1>3, FailsLocally

(* Write preserves the invariant.                                          *)
LEMMA WriteHttp == HttpInv /\ Write => HttpInv'
<1>1. SUFFICES ASSUME HttpInv, Write PROVE HttpInv'
    OBVIOUS
<1>2. /\ phase = "write" /\ dialled' = dialled
      /\ UNCHANGED <<req, head, script, socket, reader>>
    BY <1>1 DEF Write
<1>3. dialled' \in 0..Candidates /\ announced \in Seq(Nat) /\ Lengths \in Seq(Nat)
    BY <1>1, <1>2, RequestIs DEF HttpInv, HttpTypeOK
<1>4. CASE Fails(TRUE) /\ UNCHANGED announced
    BY <1>1, <1>2, <1>3, <1>4, FailsLocally
<1>5. CASE announced' = Lengths /\ Goto(IF req.streaming THEN "head" ELSE "receive")
    <2>1. /\ phase' = (IF req.streaming THEN "head" ELSE "receive") /\ UNCHANGED <<outcome, fault>>
          /\ UNCHANGED <<got, at, body, head, req>>
        BY <1>2, <1>5 DEF Goto, socket, reader
    <2>2. /\ outcome = "none" /\ got = 0 /\ at = 0 /\ body = <<>> /\ fault \in BOOLEAN
          /\ head \in Heads
        BY <1>1, <1>2 DEF HttpInv, HttpTypeOK, PhaseInv
    <2>3. head.len \in Nat /\ head.len > 0
        BY <2>2, HeadIs
    <2>4. Lengths' = Lengths
        BY <2>1 DEF Lengths, SendsBody
    <2>5. PhaseInv'
        <3>1. CASE req.streaming
            <4>1. phase' = "head" /\ req'.streaming
                BY <2>1, <3>1
            <4>2. got' = 0 /\ got' < head'.len /\ got' <= MaxHead
                BY <2>1, <2>2, <2>3, HttpLimits
            <4>3. QED
                BY <1>5, <2>1, <2>2, <2>4, <4>1, <4>2 DEF PhaseInv, Reading, ChunkPhases
        <3>2. CASE ~req.streaming
            <4>1. phase' = "receive" /\ ~req'.streaming
                BY <2>1, <3>2
            <4>2. got' = 0 /\ got' <= MaxTotal
                BY <2>1, <2>2, HttpLimits
            <4>3. QED
                BY <1>5, <2>1, <2>2, <2>4, <4>1, <4>2 DEF PhaseInv, Reading, ChunkPhases
        <3>3. QED
            BY <3>1, <3>2
    <2>6. phase' \in Phases /\ phase' # "over"
        BY <2>1 DEF Phases
    <2>7. QED
        BY <1>1, <1>2, <1>3, <1>5, <2>1, <2>2, <2>5, <2>6, ReaderStays
<1>6. QED
    BY <1>1, <1>4, <1>5 DEF Write

(* ReadFails preserves the invariant.                                      *)
LEMMA ReadFailsHttp == HttpInv /\ ReadFails => HttpInv'
<1>1. SUFFICES ASSUME HttpInv, ReadFails PROVE HttpInv'
    OBVIOUS
<1>2. /\ Fails(TRUE) /\ UNCHANGED <<req, dialled, announced>>
      /\ UNCHANGED <<req, head, script, socket, reader>>
    BY <1>1 DEF ReadFails, asked
<1>3. dialled' \in 0..Candidates /\ announced' \in Seq(Nat)
    BY <1>1, <1>2 DEF HttpInv, HttpTypeOK
<1>4. QED
    BY <1>1, <1>2, <1>3, FailsLocally

(* A failure that what the server sent explains.                           *)
LEMMA FailsFor ==
    ASSUME HttpInv, UNCHANGED <<req, head, script, socket, reader>>, Fails(FALSE),
           UNCHANGED <<dialled, announced>>, (closed /\ ~Complete) \/ ~Acceptable
    PROVE  HttpInv'
<1>1. phase' = "over" /\ outcome' = "error" /\ fault' = (fault \/ FALSE)
    BY DEF Fails
<1>2. UNCHANGED <<req, head, script, got, closed>>
    BY DEF socket
<1>3. ErrorShows'
    <2>1. (Complete' <=> Complete) /\ (Acceptable' <=> Acceptable)
        BY <1>2, ShowsStay
    <2>2. QED
        BY <1>2, <2>1 DEF ErrorShows
<1>4. PhaseInv'
    BY <1>1, <1>3, OverShows
<1>5. phase' \in Phases /\ fault' \in BOOLEAN
    BY <1>1 DEF Phases
<1>6. dialled' \in 0..Candidates /\ announced' \in Seq(Nat)
    BY DEF HttpInv, HttpTypeOK
<1>7. QED
    BY <1>1, <1>4, <1>5, <1>6, ReaderStays

(* An answer of which not even the head arrived is not complete.           *)
LEMMA HeadlessIncomplete ==
    ASSUME HttpInv, got < head.len
    PROVE  ~Complete
<1>1. /\ head \in Heads /\ got \in Nat /\ ItemsOK(head.len, script)
    BY DEF HttpInv, HttpTypeOK
<1>2. head.len \in Nat /\ (Framing = "exact" => head.cl[1] \in Nat)
    BY <1>1, HeadIs
<1>3. Framing = "exact" => ~(got >= head.len + head.cl[1])
    BY <1>1, <1>2
<1>4. ~(got >= head.len)
    BY <1>1, <1>2
<1>5. ASSUME NEW k \in 1..Len(script) PROVE ~(got >= EndOf(script[k]))
    <2>1. script[k] \in SentItem /\ head.len <= script[k].start
        BY <1>1, <1>2, ItemsReach
    <2>2. /\ script[k].start \in Nat /\ script[k].line \in Nat /\ script[k].n \in Nat
          /\ EndOf(script[k]) \in Nat
          /\ script[k].start + script[k].line + script[k].n <= EndOf(script[k])
        BY <2>1, ItemIs
    <2>3. QED
        BY <1>1, <1>2, <2>1, <2>2
<1>6. QED
    BY <1>3, <1>4, <1>5 DEF Complete

(* Received preserves the invariant.                                       *)
LEMMA ReceivedHttp == HttpInv /\ Received => HttpInv'
<1>1. SUFFICES ASSUME HttpInv, Received PROVE HttpInv'
    OBVIOUS
<1>2. /\ phase = "receive" /\ closed /\ UNCHANGED <<req, dialled, announced>>
      /\ UNCHANGED <<req, head, script, socket, reader>>
    BY <1>1 DEF Received, asked
<1>3. CASE got >= head.len
    <2>1. Goto("parse")
        BY <1>1, <1>3 DEF Received
    <2>2. phase' = "parse" /\ UNCHANGED <<outcome, fault>>
          /\ UNCHANGED <<got, closed, at, body, head, req, announced>>
        BY <1>2, <2>1 DEF Goto, socket, reader
    <2>3. /\ outcome = "none" /\ at = 0 /\ body = <<>> /\ fault \in BOOLEAN
          /\ head \in Heads /\ got \in Nat /\ ~req.streaming /\ announced = Lengths
        BY <1>1, <1>2 DEF HttpInv, HttpTypeOK, PhaseInv
    <2>4. Lengths' = Lengths
        BY <2>2 DEF Lengths, SendsBody
    <2>5. head.len <= got
        BY <1>3, <2>3, HeadIs
    <2>6. PhaseInv'
        BY <2>2, <2>3, <2>4, <2>5 DEF PhaseInv, Reading, ChunkPhases
    <2>7. dialled' \in 0..Candidates /\ announced' \in Seq(Nat)
        BY <1>1, <1>2 DEF HttpInv, HttpTypeOK
    <2>8. QED
        BY <1>1, <1>2, <2>2, <2>3, <2>6, <2>7, ReaderStays DEF Phases
<1>4. CASE ~(got >= head.len)
    <2>1. Fails(FALSE)
        BY <1>1, <1>4 DEF Received
    <2>2. head \in Heads /\ got \in Nat
        BY <1>1 DEF HttpInv, HttpTypeOK
    <2>3. got < head.len
        BY <1>4, <2>2, HeadIs
    <2>4. ~Complete
        BY <1>1, <2>3, HeadlessIncomplete
    <2>5. QED
        BY <1>1, <1>2, <2>1, <2>4, FailsFor
<1>5. QED
    BY <1>3, <1>4

(* HeadCut preserves the invariant.                                        *)
LEMMA HeadCutHttp == HttpInv /\ HeadCut => HttpInv'
<1>1. SUFFICES ASSUME HttpInv, HeadCut PROVE HttpInv'
    OBVIOUS
<1>2. /\ phase = "head" /\ closed /\ UNCHANGED <<req, dialled, announced>> /\ Fails(FALSE)
      /\ UNCHANGED <<req, head, script, socket, reader>>
    BY <1>1 DEF HeadCut, asked
<1>3. got < head.len
    BY <1>1, <1>2 DEF HttpInv, PhaseInv
<1>4. ~Complete
    BY <1>1, <1>3, HeadlessIncomplete
<1>5. QED
    BY <1>1, <1>2, <1>4, FailsFor

(* ExactEnds preserves the invariant.                                      *)
LEMMA ExactEndsHttp == HttpInv /\ ExactEnds => HttpInv'
<1>1. SUFFICES ASSUME HttpInv, ExactEnds PROVE HttpInv'
    OBVIOUS
<1>2. /\ phase = "exact" /\ remaining = 0 /\ UNCHANGED <<req, dialled, announced>> /\ Succeeds
      /\ UNCHANGED <<req, head, script, socket, reader>>
    BY <1>1 DEF ExactEnds, asked
<1>3. phase' = "over" /\ outcome' = "ok" /\ fault' = fault
      /\ UNCHANGED <<req, head, script, got, closed, at, announced>>
    BY <1>2 DEF Succeeds, socket, reader
<1>4. /\ Framing' = Framing /\ (Ambiguous' <=> Ambiguous) /\ (Complete' <=> Complete)
      /\ (SendsBody' <=> SendsBody) /\ \A p \in Nat : IsBody(p)' <=> IsBody(p)
    BY <1>3, ShowsStay
<1>5. /\ Framing = "exact" /\ at + remaining = head.len + head.cl[1] /\ announced = Lengths
      /\ head.status /\ ~Ambiguous
    BY <1>1, <1>2 DEF HttpInv, PhaseInv, Reading
<1>6. /\ head \in Heads /\ req \in Requests /\ at \in Nat /\ got \in Nat /\ at <= got
      /\ fault \in BOOLEAN /\ dialled \in 0..Candidates /\ announced \in Seq(Nat)
    BY <1>1 DEF HttpInv, HttpTypeOK
<1>7. head.len \in Nat /\ head.cl[1] \in Nat /\ at = head.len + head.cl[1]
    BY <1>2, <1>5, <1>6, HeadIs
<1>8. Complete
    BY <1>5, <1>6, <1>7 DEF Complete
<1>9. \A p \in Nat : IsBody(p) => p <= at
    BY <1>5, <1>7 DEF IsBody
<1>10. SendsBody => announced = <<req.body>>
    BY <1>5, <1>6, RequestIs
<1>11. OkShows'
    BY <1>3, <1>4, <1>5, <1>8, <1>9, <1>10 DEF OkShows
<1>12. PhaseInv'
    BY <1>3, <1>11, OverShows
<1>13. QED
    BY <1>1, <1>2, <1>3, <1>6, <1>12, ReaderStays DEF Phases

-----------------------------------------------------------------------------
(* Preservation: the server and the socket.                                *)

(* The reader does not move while the stream or the socket goes on.        *)
LEMMA PhaseStays ==
    ASSUME PhaseInv, UNCHANGED <<req, head, at, body, announced, phase, outcome>>,
           outcome = "none", got' = got \/ phase \in Reading,
           phase \in ChunkPhases => \E c \in 1..(Len(script') + 1) : InChunked(c)',
           phase = "exact" => remaining' = remaining
    PROVE  PhaseInv'
<1>1. Framing' = Framing /\ (Ambiguous' <=> Ambiguous) /\ Lengths' = Lengths
    BY FramingStays DEF Lengths, SendsBody
<1>2. CASE got' = got
    BY <1>1, <1>2 DEF PhaseInv
<1>3. CASE phase \in Reading
    BY <1>1, <1>3 DEF PhaseInv, Reading, ChunkPhases
<1>4. QED
    BY <1>2, <1>3

(* Bytes the client has not come to do not matter to what it took.         *)
LEMMA TakenAhead ==
    ASSUME NEW f, NEW h, NEW s, NEW bs, NEW a \in Nat, NEW g \in Nat, NEW z \in Nat,
           a <= g, g <= z, Taken(bs, a, Bytes(f, h, g, s))
    PROVE  Taken(bs, a, Bytes(f, h, z, s))
<1>1. ASSUME NEW p \in Nat, p <= a
      PROVE  p \in Bytes(f, h, g, s) <=> p \in Bytes(f, h, z, s)
    <2>1. p <= g /\ p <= z
        BY <1>1
    <2>2. QED
        BY <2>1 DEF Bytes
<1>2. QED
    BY <1>1, TakenSame

(* PeerCloses preserves the invariant.                                     *)
LEMMA PeerClosesHttp == HttpInv /\ PeerCloses => HttpInv'
<1>1. SUFFICES ASSUME HttpInv, PeerCloses PROVE HttpInv'
    OBVIOUS
<1>2. /\ phase # "over" /\ closed' = TRUE /\ UNCHANGED <<req, dialled, announced>>
      /\ UNCHANGED <<head, script, phase, got, at, remaining, budget, body, outcome, fault>>
    BY <1>1 DEF PeerCloses, asked, reader
<1>3. Framing' = Framing /\ EndOfStream' = EndOfStream /\ Candidates' = Candidates
    BY <1>2, FramingStays DEF EndOfStream, Candidates
<1>4. HttpTypeOK'
    BY <1>1, <1>2, <1>3 DEF HttpInv, HttpTypeOK
<1>5. PhaseInv
    BY <1>1 DEF HttpInv
<1>6. phase \in ChunkPhases => \E c \in 1..(Len(script') + 1) : InChunked(c)'
    <2>1. \A c \in 1..(Len(script) + 1) : InChunked(c)' <=> InChunked(c)
        BY <1>2 DEF InChunked
    <2>2. phase \in ChunkPhases => \E c \in 1..(Len(script) + 1) : InChunked(c)
        BY <1>5 DEF PhaseInv
    <2>3. QED
        BY <1>2, <2>1, <2>2
<1>7. outcome = "none"
    BY <1>1, <1>2 DEF HttpInv, HttpTypeOK
<1>8. PhaseInv'
    BY <1>2, <1>5, <1>6, <1>7, PhaseStays
<1>9. QED
    BY <1>1, <1>2, <1>3, <1>4, <1>8 DEF HttpInv

(* ServerSends preserves the invariant.                                    *)
LEMMA ServerSendsHttp == \A i \in Items : HttpInv /\ ServerSends(i) => HttpInv'
<1>1. SUFFICES ASSUME NEW i \in Items, HttpInv, ServerSends(i) PROVE HttpInv'
    OBVIOUS
<1> DEFINE g == Placed(i, EndOfStream)
<1>2. /\ phase # "over" /\ Len(script) < MaxItems /\ (i.kind = "raw" <=> Framing # "size")
      /\ script' = Append(script, g) /\ UNCHANGED <<req, dialled, announced>>
      /\ UNCHANGED <<head, phase, got, closed, at, remaining, budget, body, outcome, fault>>
    BY <1>1 DEF ServerSends, asked, reader, socket
<1>3. /\ head \in Heads /\ ItemsOK(head.len, script) /\ got \in Nat /\ at \in Nat /\ at <= got
      /\ got <= EndOfStream /\ PhaseInv /\ outcome = "none"
    BY <1>1, <1>2 DEF HttpInv, HttpTypeOK
<1>4. head.len \in Nat
    BY <1>3, HeadIs
<1>5. /\ Len(script) \in Nat /\ EndOfStream \in Nat
    BY <1>3, <1>4, ItemsReach DEF EndOfStream
<1>6. g \in SentItem /\ g.start = StreamEnd(head.len, script)
    BY <1>5, PlacedItemIs DEF EndOfStream
<1>7. /\ i.kind # "raw" => /\ g.kind # "raw" /\ g.line > 0
                           /\ g.kind # "chunk" => g.n = 0
                           /\ g.kind \in {"last", "blank"} => g.good
    BY <1>5, PlacedItemIs
<1> HIDE DEF g
<1>8. /\ ItemsOK(head.len, script') /\ Extends(script, script') /\ Len(script') = Len(script) + 1
      /\ script'[Len(script) + 1] = g
      /\ StreamEnd(head.len, script) <= StreamEnd(head.len, script')
      /\ \A c \in 1..(Len(script) + 1) :
            ItemAt(head.len, script', c) = ItemAt(head.len, script, c)
    BY <1>2, <1>3, <1>4, <1>6, ItemsGrow
<1>9. Framing' = Framing /\ Candidates' = Candidates
    BY <1>2, FramingStays DEF Candidates
<1>10. got' <= EndOfStream'
    <2>1. EndOfStream' = StreamEnd(head.len, script') /\ EndOfStream = StreamEnd(head.len, script)
        BY <1>2 DEF EndOfStream
    <2>2. StreamEnd(head.len, script') \in Nat
        BY <1>4, <1>8, ItemsReach
    <2>3. QED
        BY <1>2, <1>3, <1>5, <1>8, <2>1, <2>2
<1>11. HttpTypeOK'
    <2>1. script' \in Seq(SentItem)
        BY <1>8 DEF ItemsOK
    <2>2. Len(script') <= MaxItems
        BY <1>2, <1>5, <1>8, HttpLimits
    <2>3. QED
        BY <1>1, <1>2, <1>9, <2>1, <2>2 DEF HttpInv, HttpTypeOK
<1>12. Framing = "size" => Lined(script')
    <2>1. SUFFICES ASSUME Framing = "size", NEW k \in 1..Len(script')
                   PROVE  /\ script'[k].kind # "raw" /\ script'[k].line > 0
                          /\ script'[k].kind # "chunk" => script'[k].n = 0
                          /\ script'[k].kind \in {"last", "blank"} => script'[k].good
        BY DEF Lined
    <2>2. CASE k \in 1..Len(script)
        <3>1. script'[k] = script[k]
            BY <1>8, <2>2 DEF Extends
        <3>2. QED
            BY <1>1, <2>1, <2>2, <3>1 DEF HttpInv, Lined
    <2>3. CASE k = Len(script) + 1
        BY <1>2, <1>7, <1>8, <2>1, <2>3
    <2>4. QED
        BY <1>5, <1>8, <2>2, <2>3
<1>13. Taken(body, at, Bytes(Framing, head, got, script'))
    <2>1. ASSUME NEW p \in Nat, p <= at
          PROVE  /\ p \in Bytes(Framing, head, got, script)
                    <=> p \in Bytes(Framing, head, got, script')
        <3>1. p <= StreamEnd(head.len, script)
            BY <1>3, <1>5, <2>1 DEF EndOfStream
        <3>2. InChunk(script', p) <=> InChunk(script, p)
            BY <1>2, <1>3, <1>4, <1>6, <3>1, DataGrows
        <3>3. QED
            BY <3>2 DEF Bytes
    <2>2. Taken(body, at, Bytes(Framing, head, got, script))
        BY <1>1 DEF HttpInv
    <2>3. QED
        BY <1>3, <2>1, <2>2, TakenSame
<1>14. phase \in ChunkPhases => \E c \in 1..(Len(script') + 1) : InChunked(c)'
    <2>1. SUFFICES ASSUME phase \in ChunkPhases
                   PROVE  \E c \in 1..(Len(script') + 1) : InChunked(c)'
        OBVIOUS
    <2>2. PICK c \in 1..(Len(script) + 1) : InChunked(c)
        BY <1>3, <2>1 DEF PhaseInv
    <2>3. c \in 1..(Len(script') + 1)
        BY <1>5, <1>8
    <2>4. phase' = "size" => at' = ItemAt(head'.len, script', c) /\ Chunky(script', c)
        <3>1. Chunky(script, c) => Chunky(script', c)
            BY <1>8, ChunkyGrows
        <3>2. QED
            BY <1>2, <1>8, <2>2, <3>1 DEF InChunked
    <2>5. AtData(script, c, at, remaining) => AtData(script', c, at, remaining)
        BY <1>8, AtDataGrows
    <2>6. AtData(script, c, at, 0) => AtData(script', c, at, 0)
        BY <1>8, AtDataGrows
    <2>7. /\ AtTrailers(head.len, script, c, at, budget)
             => AtTrailers(head.len, script', c, at, budget)
        BY <1>8, AtTrailersGrows
    <2>8. InChunked(c)'
        BY <1>2, <2>2, <2>4, <2>5, <2>6, <2>7 DEF InChunked
    <2>9. QED
        BY <2>3, <2>8
<1>15. PhaseInv'
    BY <1>2, <1>3, <1>14, PhaseStays
<1>16. QED
    BY <1>2, <1>8, <1>9, <1>10, <1>11, <1>12, <1>13, <1>15 DEF HttpInv

(* Bytes arrive: what the stream and the body are stays.                   *)
LEMMA ArrivesKeeps ==
    ASSUME HttpInv, NEW n, Arrives(n), UNCHANGED <<asked, head, script, reader>>,
           phase' \in Phases, fault' \in BOOLEAN, outcome' \in {"none", "ok", "error"},
           outcome' = "none" <=> phase' # "over", PhaseInv'
    PROVE  HttpInv'
<1>1. /\ n \in 1..Piece /\ got' = got + n /\ got + n <= EndOfStream /\ closed' = closed
      /\ UNCHANGED <<req, dialled, announced, head, script, at, remaining, budget, body>>
    BY DEF Arrives, asked, reader
<1>2. Framing' = Framing /\ EndOfStream' = EndOfStream /\ Candidates' = Candidates
    BY <1>1, FramingStays DEF EndOfStream, Candidates
<1>3. got \in Nat /\ at \in Nat /\ at <= got
    BY DEF HttpInv, HttpTypeOK
<1>4. got' \in Nat /\ got <= got' /\ at' \in 0..got'
    BY <1>1, <1>3, HttpLimits
<1>5. HttpTypeOK'
    BY <1>1, <1>2, <1>4 DEF HttpInv, HttpTypeOK
<1>6. Taken(body, at, Bytes(Framing, head, got', script))
    BY <1>3, <1>4, TakenAhead DEF HttpInv
<1>7. QED
    BY <1>1, <1>2, <1>5, <1>6 DEF HttpInv

(* Pull preserves the invariant.                                           *)
LEMMA PullHttp == \A n \in 1..Piece : HttpInv /\ Pull(n) => HttpInv'
<1>1. SUFFICES ASSUME NEW n \in 1..Piece, HttpInv, Pull(n) PROVE HttpInv'
    OBVIOUS
<1>2. /\ phase \in Reading /\ Arrives(n) /\ UNCHANGED <<asked, head, script, reader>>
      /\ UNCHANGED <<phase, outcome, fault>>
      /\ UNCHANGED <<req, announced, head, script, at, remaining, budget, body>>
    BY <1>1 DEF Pull, Reading, ChunkPhases, asked, reader
<1>3. /\ PhaseInv /\ outcome = "none" /\ phase \in Phases /\ phase # "over"
      /\ fault \in BOOLEAN
    BY <1>1, <1>2 DEF HttpInv, HttpTypeOK, Reading, ChunkPhases
<1>4. phase \in ChunkPhases => \E c \in 1..(Len(script') + 1) : InChunked(c)'
    <2>1. \A c \in 1..(Len(script) + 1) : InChunked(c)' <=> InChunked(c)
        BY <1>2 DEF InChunked
    <2>2. phase \in ChunkPhases => \E c \in 1..(Len(script) + 1) : InChunked(c)
        BY <1>3 DEF PhaseInv
    <2>3. QED
        BY <1>2, <2>1, <2>2
<1>5. PhaseInv'
    BY <1>2, <1>3, <1>4, PhaseStays
<1>6. QED
    BY <1>1, <1>2, <1>3, <1>5, ArrivesKeeps

(* Receive preserves the invariant.                                        *)
LEMMA ReceiveHttp == \A n \in 1..Piece : HttpInv /\ Receive(n) => HttpInv'
<1>1. SUFFICES ASSUME NEW n \in 1..Piece, HttpInv, Receive(n) PROVE HttpInv'
    OBVIOUS
<1>2. /\ phase = "receive" /\ Arrives(n) /\ UNCHANGED <<asked, head, script, reader>>
      /\ UNCHANGED <<req, announced, head, script, at, body>> /\ got' = got + n
    BY <1>1 DEF Receive, asked, reader, Arrives
<1>3. /\ outcome = "none" /\ fault \in BOOLEAN /\ got \in Nat /\ at = 0 /\ body = <<>>
      /\ ~req.streaming /\ announced = Lengths
    BY <1>1, <1>2 DEF HttpInv, HttpTypeOK, PhaseInv
<1>4. Lengths' = Lengths
    BY <1>2 DEF Lengths, SendsBody
<1>5. CASE got' > MaxTotal
    <2>1. phase' = "over" /\ outcome' = "error" /\ fault' = fault
        <3>1. Fails(FALSE)
            BY <1>1, <1>5 DEF Receive
        <3>2. QED
            BY <1>3, <3>1 DEF Fails
    <2>2. ~Acceptable'
        <3>1. ~(got' <= MaxTotal)
            BY <1>2, <1>3, <1>5, HttpLimits
        <3>2. QED
            BY <1>2, <1>3, <3>1 DEF Acceptable
    <2>3. PhaseInv'
        BY <2>1, <2>2, OverShows DEF ErrorShows
    <2>4. QED
        BY <1>1, <1>2, <1>3, <2>1, <2>3, ArrivesKeeps DEF Phases
<1>6. CASE ~(got' > MaxTotal)
    <2>1. phase' = "receive" /\ UNCHANGED <<outcome, fault>>
        BY <1>1, <1>6 DEF Receive, Goto
    <2>2. got' <= MaxTotal
        BY <1>2, <1>3, <1>6, HttpLimits
    <2>3. PhaseInv'
        BY <1>2, <1>3, <1>4, <2>1, <2>2 DEF PhaseInv, Reading, ChunkPhases
    <2>4. QED
        BY <1>1, <1>2, <1>3, <2>1, <2>3, ArrivesKeeps DEF Phases
<1>7. QED
    BY <1>5, <1>6

(* ReadHead preserves the invariant.                                       *)
LEMMA ReadHeadHttp == \A n \in 1..Piece : HttpInv /\ ReadHead(n) => HttpInv'
<1>1. SUFFICES ASSUME NEW n \in 1..Piece, HttpInv, ReadHead(n) PROVE HttpInv'
    OBVIOUS
<1>2. /\ phase = "head" /\ Arrives(n) /\ UNCHANGED <<asked, head, script, reader>>
      /\ UNCHANGED <<req, announced, head, script, at, body>> /\ got' = got + n
    BY <1>1 DEF ReadHead, asked, reader, Arrives
<1>3. /\ outcome = "none" /\ fault \in BOOLEAN /\ got \in Nat /\ at = 0 /\ body = <<>>
      /\ req.streaming /\ announced = Lengths /\ head \in Heads /\ got <= MaxHead
    BY <1>1, <1>2 DEF HttpInv, HttpTypeOK, PhaseInv
<1>4. Lengths' = Lengths /\ head.len \in Nat /\ got' \in Nat
    BY <1>2, <1>3, HeadIs, HttpLimits DEF Lengths, SendsBody
<1>5. CASE got' >= head.len
    <2>1. phase' = "parse" /\ UNCHANGED <<outcome, fault>>
        BY <1>1, <1>5 DEF ReadHead, Goto
    <2>2. head'.len <= got' /\ got' <= MaxHead + Piece
        BY <1>2, <1>3, <1>4, <1>5, HttpLimits
    <2>3. PhaseInv'
        BY <1>2, <1>3, <1>4, <2>1, <2>2 DEF PhaseInv, Reading, ChunkPhases
    <2>4. QED
        BY <1>1, <1>2, <1>3, <2>1, <2>3, ArrivesKeeps DEF Phases
<1>6. CASE ~(got' >= head.len) /\ got' > MaxHead
    <2>1. phase' = "over" /\ outcome' = "error" /\ fault' = fault
        <3>1. Fails(FALSE)
            BY <1>1, <1>6 DEF ReadHead
        <3>2. QED
            BY <1>3, <3>1 DEF Fails
    <2>2. ~Acceptable'
        <3>1. ~(head.len <= MaxHead)
            BY <1>4, <1>6, HttpLimits
        <3>2. QED
            BY <1>2, <1>3, <3>1 DEF Acceptable
    <2>3. PhaseInv'
        BY <2>1, <2>2, OverShows DEF ErrorShows
    <2>4. QED
        BY <1>1, <1>2, <1>3, <2>1, <2>3, ArrivesKeeps DEF Phases
<1>7. CASE ~(got' >= head.len) /\ ~(got' > MaxHead)
    <2>1. phase' = "head" /\ UNCHANGED <<outcome, fault>>
        BY <1>1, <1>7 DEF ReadHead, Goto
    <2>2. got' <= MaxHead /\ got' < head'.len
        BY <1>2, <1>4, <1>7, HttpLimits
    <2>3. PhaseInv'
        BY <1>2, <1>3, <1>4, <2>1, <2>2 DEF PhaseInv, Reading, ChunkPhases
    <2>4. QED
        BY <1>1, <1>2, <1>3, <2>1, <2>3, ArrivesKeeps DEF Phases
<1>8. QED
    BY <1>5, <1>6, <1>7

-----------------------------------------------------------------------------
(* Preservation: the reader.                                               *)

(* The reader moves on in what has arrived.                                *)
LEMMA ReaderMoves ==
    ASSUME HttpInv, UNCHANGED <<asked, head, script, socket>>,
           at' \in 0..got, remaining' \in Nat, budget' \in Nat,
           phase' \in Phases, fault' \in BOOLEAN, outcome' \in {"none", "ok", "error"},
           outcome' = "none" <=> phase' # "over",
           Taken(body', at', Bytes(Framing, head, got, script)), PhaseInv'
    PROVE  HttpInv'
<1>1. UNCHANGED <<req, dialled, announced, head, script, got, closed>>
    BY DEF asked, socket
<1>2. Framing' = Framing /\ EndOfStream' = EndOfStream /\ Candidates' = Candidates
    BY <1>1, ShowsStay
<1>3. HttpTypeOK'
    BY <1>1, <1>2 DEF HttpInv, HttpTypeOK
<1>4. QED
    BY <1>1, <1>2, <1>3 DEF HttpInv

(* A reader that is still in the body, wherever it has moved.              *)
LEMMA StillReading ==
    ASSUME HttpInv, UNCHANGED <<req, head, script, announced, outcome>>,
           phase \in Reading, phase' \in Reading, head.len <= at',
           phase' = "exact" => Framing = "exact" /\ at' + remaining' = head.len + head.cl[1],
           phase' = "close" => Framing = "close",
           phase' \in ChunkPhases =>
               Framing = "size" /\ \E c \in 1..(Len(script) + 1) : InChunked(c)'
    PROVE  PhaseInv'
<1>1. /\ Framing' = Framing /\ (Ambiguous' <=> Ambiguous) /\ Lengths' = Lengths
    BY FramingStays DEF Lengths, SendsBody
<1>2. head.status /\ ~Ambiguous /\ announced = Lengths /\ outcome = "none"
    BY DEF HttpInv, HttpTypeOK, PhaseInv, Reading, ChunkPhases
<1>3. phase' \notin {"admit", "connect", "write", "receive", "head", "parse", "over"}
    BY DEF Reading, ChunkPhases
<1>4. QED
    BY <1>1, <1>2, <1>3 DEF PhaseInv

(* ParseHead preserves the invariant.                                      *)
LEMMA ParseHeadHttp == HttpInv /\ ParseHead => HttpInv'
<1>1. SUFFICES ASSUME HttpInv, ParseHead PROVE HttpInv'
    OBVIOUS
<1>2. /\ phase = "parse" /\ at' = head.len /\ UNCHANGED <<asked, head, script, socket>>
      /\ UNCHANGED <<req, announced, head, script, got, closed, budget, body>>
      /\ remaining' = IF Framing = "exact" THEN head.cl[1] ELSE 0
      /\ IF ~head.status \/ Framing = "refused" THEN Fails(FALSE) ELSE Goto(Framing)
    BY <1>1 DEF ParseHead, ParseFrom, asked, socket
<1>3. /\ outcome = "none" /\ fault \in BOOLEAN /\ got \in Nat /\ at = 0 /\ body = <<>>
      /\ announced = Lengths /\ head \in Heads /\ head.len <= got /\ budget \in Nat
      /\ ItemsOK(head.len, script)
    BY <1>1, <1>2 DEF HttpInv, HttpTypeOK, PhaseInv
<1>4. /\ head.len \in Nat /\ Framing \in {"refused", "size", "exact", "close"}
      /\ (Framing = "exact" => head.cl[1] \in Nat) /\ (Ambiguous <=> Framing = "refused")
    BY <1>3, HeadIs
<1>5. at' \in 0..got /\ remaining' \in Nat /\ budget' \in Nat
    <2>1. at' \in 0..got /\ budget' \in Nat
        BY <1>2, <1>3, <1>4
    <2>2. CASE Framing = "exact"
        BY <1>2, <1>4, <2>1, <2>2
    <2>3. CASE Framing # "exact"
        BY <1>2, <2>1, <2>3
    <2>4. QED
        BY <2>2, <2>3
<1>6. Taken(body', at', Bytes(Framing, head, got, script))
    <2>1. ASSUME NEW p \in Nat, at < p, p <= head.len
          PROVE  p \notin Bytes(Framing, head, got, script)
        <3>1. ~(head.len < p)
            BY <1>4, <2>1
        <3>2. ~InChunk(script, p)
            <4>1. SUFFICES ASSUME NEW k \in 1..Len(script), script[k].start + script[k].line < p
                           PROVE  FALSE
                BY DEF InChunk
            <4>2. script[k] \in SentItem /\ head.len <= script[k].start
                BY <1>3, <1>4, ItemsReach
            <4>3. script[k].start \in Nat /\ script[k].line \in Nat
                BY <4>2, ItemIs
            <4>4. QED
                BY <1>4, <2>1, <4>1, <4>2, <4>3
        <3>3. QED
            BY <3>1, <3>2 DEF Bytes
    <2>2. Taken(body, at, Bytes(Framing, head, got, script)) /\ at \in Nat /\ at <= head.len
        BY <1>1, <1>3, <1>4 DEF HttpInv
    <2>3. QED
        BY <1>2, <1>4, <2>1, <2>2, TakenSkips
<1>7. CASE ~head.status \/ Framing = "refused"
    <2>1. phase' = "over" /\ outcome' = "error" /\ fault' = fault
        <3>1. Fails(FALSE)
            BY <1>2, <1>7
        <3>2. QED
            BY <1>3, <3>1 DEF Fails
    <2>2. ~Acceptable
        BY <1>4, <1>7 DEF Acceptable
    <2>3. ~Acceptable'
        BY <1>2, <2>2, ShowsStay
    <2>4. PhaseInv'
        BY <2>1, <2>3, OverShows DEF ErrorShows
    <2>5. QED
        BY <1>1, <1>2, <1>3, <1>5, <1>6, <2>1, <2>4, ReaderMoves DEF Phases
<1>8. CASE ~(~head.status \/ Framing = "refused")
    <2>1. phase' = Framing /\ UNCHANGED <<outcome, fault>>
        BY <1>2, <1>8 DEF Goto
    <2>2. /\ Framing' = Framing /\ (Ambiguous' <=> Ambiguous) /\ Lengths' = Lengths
        BY <1>2, ShowsStay
    <2>3. phase' \in {"size", "exact", "close"}
        BY <1>4, <1>8, <2>1
    <2>4. phase' = "exact" => at' + remaining' = head.len + head.cl[1]
        BY <1>2, <2>1
    <2>5. phase' = "size" => \E c \in 1..(Len(script') + 1) : InChunked(c)'
        <3>1. SUFFICES ASSUME phase' = "size" PROVE InChunked(1)'
            <4>1. 1 \in 1..(Len(script') + 1)
                BY <1>2, <1>3, <1>4, ItemsReach
            <4>2. QED
                BY <4>1
        <3>2. ItemAt(head.len, script, 1) = head.len
            BY <1>3 DEF ItemsOK
        <3>3. Chunky(script, 1)
            BY DEF Chunky
        <3>4. QED
            BY <1>2, <3>1, <3>2, <3>3 DEF InChunked
    <2>6. head'.status /\ ~Ambiguous' /\ head'.len <= at'
        BY <1>2, <1>4, <1>8, <2>2
    <2>7. PhaseInv'
        <3>1. /\ phase' \notin {"admit", "connect", "write", "receive", "head", "parse"}
              /\ outcome' = "none"
            BY <1>3, <2>1, <2>3
        <3>2. phase' = "exact" => Framing' = "exact" /\ at' + remaining' = head'.len + head'.cl[1]
            BY <1>2, <2>1, <2>2, <2>4
        <3>3. phase' = "close" => Framing' = "close"
            BY <2>1, <2>2
        <3>4. phase' \in ChunkPhases =>
                  Framing' = "size" /\ \E c \in 1..(Len(script') + 1) : InChunked(c)'
            BY <2>1, <2>2, <2>3, <2>5 DEF ChunkPhases
        <3>5. announced' = Lengths'
            BY <1>2, <1>3, <2>2
        <3>6. QED
            BY <2>6, <3>1, <3>2, <3>3, <3>4, <3>5 DEF PhaseInv
    <2>8. QED
        <3>1. phase' \in Phases /\ phase' # "over" /\ outcome' = "none" /\ fault' \in BOOLEAN
            BY <1>3, <2>1, <2>3 DEF Phases
        <3>2. QED
            BY <1>1, <1>2, <1>5, <1>6, <2>7, <3>1, ReaderMoves
<1>9. QED
    BY <1>7, <1>8

(* ReadExact preserves the invariant.                                      *)
LEMMA ReadExactHttp == \A n \in 1..Piece : HttpInv /\ ReadExact(n) => HttpInv'
<1>1. SUFFICES ASSUME NEW n \in 1..Piece, HttpInv, ReadExact(n) PROVE HttpInv'
    OBVIOUS
<1>2. /\ phase = "exact" /\ n \in 1..(got - at) /\ n <= remaining /\ at' = at + n
      /\ body' = body \o [i \in 1..n |-> at + i] /\ remaining' = remaining - n
      /\ UNCHANGED <<asked, head, script, socket>>
      /\ UNCHANGED <<req, announced, head, script, budget, phase, outcome, fault>>
    BY <1>1 DEF ReadExact, Deliver, Available, asked
<1>3. /\ outcome = "none" /\ fault \in BOOLEAN /\ got \in Nat /\ at \in Nat /\ at <= got
      /\ remaining \in Nat /\ budget \in Nat /\ head \in Heads
    BY <1>1, <1>2 DEF HttpInv, HttpTypeOK
<1>4. Framing = "exact" /\ at + remaining = head.len + head.cl[1] /\ head.len <= at
    BY <1>1, <1>2 DEF HttpInv, PhaseInv, Reading
<1>5. head.len \in Nat /\ head.cl[1] \in Nat /\ n \in Nat
    BY <1>2, <1>3, <1>4, HeadIs, HttpLimits
<1>6. at' \in 0..got /\ remaining' \in Nat /\ budget' \in Nat /\ head.len <= at'
      /\ at' + remaining' = head.len + head.cl[1]
    <2>1. n <= got - at /\ n <= remaining
        BY <1>2, <1>3
    <2>2. /\ at + n \in 0..got /\ at <= at + n /\ remaining - n \in Nat
          /\ (at + n) + (remaining - n) = at + remaining
        BY <1>3, <1>5, <2>1, BytesRead
    <2>3. at + n \in Nat
        BY <1>3, <1>5
    <2>4. head.len <= at + n
        BY <1>3, <1>4, <1>5, <2>2, <2>3, InOrder
    <2>5. QED
        BY <1>2, <1>3, <1>4, <2>2, <2>4
<1>7. Taken(body', at', Bytes(Framing, head, got, script))
    <2>1. ASSUME NEW p \in Nat, at < p, p <= at + n
          PROVE  p \in Bytes(Framing, head, got, script)
        <3>1. head.len < p /\ p <= head.len + head.cl[1]
            BY <1>2, <1>3, <1>4, <1>5, <2>1
        <3>2. QED
            BY <1>4, <3>1 DEF Bytes
    <2>2. Taken(body, at, Bytes(Framing, head, got, script))
        BY <1>1 DEF HttpInv
    <2>3. Taken(body \o [i \in 1..n |-> at + i], at + n, Bytes(Framing, head, got, script))
        BY <1>3, <1>5, <2>1, <2>2, TakenDelivers
    <2>4. QED
        BY <1>2, <2>3
<1>8. PhaseInv'
    BY <1>1, <1>2, <1>4, <1>6, StillReading DEF Reading, ChunkPhases
<1>9. QED
    BY <1>1, <1>2, <1>3, <1>6, <1>7, <1>8, ReaderMoves DEF Phases

(* ReadToClose preserves the invariant.                                    *)
LEMMA ReadToCloseHttp == HttpInv /\ ReadToClose => HttpInv'
<1>1. SUFFICES ASSUME HttpInv, ReadToClose PROVE HttpInv'
    OBVIOUS
<1>2. /\ phase = "close" /\ UNCHANGED <<asked, head, script, socket>>
      /\ UNCHANGED <<req, announced, head, script, got, closed, budget, remaining>>
    BY <1>1 DEF ReadToClose, asked, socket
<1>3. /\ outcome = "none" /\ fault \in BOOLEAN /\ got \in Nat /\ at \in Nat /\ at <= got
      /\ remaining \in Nat /\ budget \in Nat /\ head \in Heads /\ req \in Requests
    BY <1>1, <1>2 DEF HttpInv, HttpTypeOK
<1>4. /\ Framing = "close" /\ head.len <= at /\ head.status /\ ~Ambiguous /\ announced = Lengths
    BY <1>1, <1>2 DEF HttpInv, PhaseInv, Reading
<1>5. head.len \in Nat
    BY <1>3, HeadIs
<1>6. Taken(body, at, Bytes(Framing, head, got, script))
    BY <1>1 DEF HttpInv
<1>7. CASE Available > 0 /\ Deliver(Available) /\ Goto("close")
    <2> DEFINE n == got - at
    <2>1. /\ n \in Nat /\ at + n = got /\ at' = at + n /\ phase' = "close"
          /\ UNCHANGED <<outcome, fault>> /\ body' = body \o [i \in 1..n |-> at + i]
        BY <1>3, <1>7 DEF Available, Deliver, Goto
    <2> HIDE DEF n
    <2>2. ASSUME NEW p \in Nat, at < p, p <= at + n
          PROVE  p \in Bytes(Framing, head, got, script)
        <3>1. head.len < p /\ p <= got
            BY <1>3, <1>4, <1>5, <2>1, <2>2
        <3>2. QED
            BY <1>4, <3>1 DEF Bytes
    <2>3. Taken(body \o [i \in 1..n |-> at + i], at + n, Bytes(Framing, head, got, script))
        BY <1>3, <1>6, <2>1, <2>2, TakenDelivers
    <2>4. at' \in 0..got /\ head.len <= at'
        BY <1>3, <1>4, <1>5, <2>1
    <2>5. PhaseInv'
        BY <1>1, <1>2, <1>4, <2>1, <2>4, StillReading DEF Reading, ChunkPhases
    <2>6. QED
        BY <1>1, <1>2, <1>3, <2>1, <2>3, <2>4, <2>5, ReaderMoves DEF Phases
<1>8. CASE Available = 0 /\ closed /\ Succeeds /\ UNCHANGED <<at, body>>
    <2>1. phase' = "over" /\ outcome' = "ok" /\ fault' = fault /\ at' = at /\ body' = body /\ closed
        BY <1>8 DEF Succeeds
    <2>2. at = got
        BY <1>3, <1>8 DEF Available
    <2>3. Complete
        BY <1>3, <1>4, <1>5, <2>1, <2>2 DEF Complete
    <2>4. \A p \in Nat : IsBody(p) => p <= at
        BY <1>4, <2>2 DEF IsBody
    <2>5. SendsBody => announced = <<req.body>>
        BY <1>3, <1>4, RequestIs
    <2>6. /\ Framing' = Framing /\ (Ambiguous' <=> Ambiguous) /\ (Complete' <=> Complete)
          /\ (SendsBody' <=> SendsBody) /\ \A p \in Nat : IsBody(p)' <=> IsBody(p)
        BY <1>2, ShowsStay
    <2>7. OkShows'
        BY <1>2, <1>4, <2>1, <2>3, <2>4, <2>5, <2>6 DEF OkShows
    <2>8. PhaseInv'
        BY <2>1, <2>7, OverShows
    <2>9. QED
        BY <1>1, <1>2, <1>3, <1>6, <2>1, <2>8, ReaderMoves DEF Phases
<1>9. QED
    BY <1>1, <1>7, <1>8 DEF ReadToClose

(* A chunked body of which item c has not all arrived is not complete.     *)
LEMMA CutShort ==
    ASSUME HttpInv, Framing = "size", NEW c \in 1..(Len(script) + 1),
           \A k \in 1..(c - 1) : script[k].kind # "blank",
           c <= Len(script) => got < EndOf(script[c])
    PROVE  ~Complete
<1>1. SUFFICES ASSUME NEW k \in 1..Len(script), script[k].kind = "blank", got >= EndOf(script[k])
               PROVE  FALSE
    BY DEF Complete
<1>2. head \in Heads /\ ItemsOK(head.len, script) /\ got \in Nat
    BY DEF HttpInv, HttpTypeOK
<1>3. head.len \in Nat
    BY <1>2, HeadIs
<1>4. Len(script) \in Nat /\ \A i \in 1..Len(script) : script[i] \in SentItem
    BY <1>2, <1>3, ItemsReach
<1>5. ~(k < c)
    <2>1. k < c => k \in 1..(c - 1)
        BY <1>4
    <2>2. QED
        BY <1>1, <2>1
<1>6. c \in 1..Len(script)
    BY <1>4, <1>5
<1>7. EndOf(script[c]) \in Nat /\ EndOf(script[k]) \in Nat /\ script[k].start \in Nat
      /\ script[k].start <= EndOf(script[k])
    <2>1. EndOf(script[c]) \in Nat
        BY <1>4, <1>6, ItemIs
    <2>2. /\ script[k].start \in Nat /\ script[k].line \in Nat /\ script[k].n \in Nat
          /\ EndOf(script[k]) \in Nat
          /\ script[k].start + script[k].line + script[k].n <= EndOf(script[k])
        BY <1>4, ItemIs
    <2>3. QED
        BY <2>1, <2>2
<1>8. EndOf(script[c]) <= EndOf(script[k])
    <2>1. CASE k = c
        BY <1>7, <2>1
    <2>2. CASE c < k
        <3>1. EndOf(script[c]) <= script[k].start
            BY <1>2, <1>6, <2>2 DEF ItemsOK
        <3>2. QED
            BY <1>7, <3>1
    <2>3. QED
        BY <1>4, <1>5, <2>1, <2>2
<1>9. QED
    BY <1>1, <1>2, <1>4, <1>6, <1>7, <1>8

(* The item the reader is at.                                              *)
LEMMA ItemHere ==
    ASSUME HttpInv, Framing = "size", NEW c \in 1..Len(script)
    PROVE  /\ script[c].start \in Nat /\ script[c].line \in Nat /\ script[c].n \in Nat
           /\ EndOf(script[c]) \in Nat /\ script[c].good \in BOOLEAN /\ script[c].line > 0
           /\ script[c].start + script[c].line + script[c].n <= EndOf(script[c])
           /\ script[c].kind \in {"chunk", "last", "trailer", "blank"}
           /\ script[c].kind = "chunk" /\ script[c].n > 0 =>
                 EndOf(script[c]) = script[c].start + script[c].line + script[c].n + 2
           /\ script[c].kind # "chunk" =>
                 script[c].n = 0 /\ EndOf(script[c]) = script[c].start + script[c].line
           /\ script[c].kind \in {"last", "blank"} => script[c].good
           /\ ItemAt(head.len, script, c) = script[c].start
           /\ ItemAt(head.len, script, c + 1) = EndOf(script[c])
           /\ EndOf(script[c]) <= EndOfStream /\ head.len <= script[c].start
<1>1. head \in Heads /\ ItemsOK(head.len, script) /\ Lined(script)
    BY DEF HttpInv, HttpTypeOK
<1>2. head.len \in Nat
    BY <1>1, HeadIs
<1>3. /\ script[c] \in SentItem /\ ItemAt(head.len, script, c) = script[c].start
      /\ head.len <= script[c].start /\ EndOf(script[c]) <= EndOfStream
    BY <1>1, <1>2, ItemsReach DEF EndOfStream
<1>4. ItemAt(head.len, script, c + 1) = EndOf(script[c])
    BY <1>1 DEF ItemsOK
<1>5. /\ script[c].kind # "raw" /\ script[c].line > 0
      /\ script[c].kind # "chunk" => script[c].n = 0
      /\ script[c].kind \in {"last", "blank"} => script[c].good
    BY <1>1 DEF Lined
<1>6. /\ script[c].start \in Nat /\ script[c].line \in Nat /\ script[c].n \in Nat
      /\ EndOf(script[c]) \in Nat /\ script[c].good \in BOOLEAN
      /\ script[c].start + script[c].line + script[c].n <= EndOf(script[c])
      /\ script[c].kind \in {"chunk", "last", "trailer", "blank", "raw"}
      /\ script[c].kind = "chunk" /\ script[c].n > 0 =>
            EndOf(script[c]) = script[c].start + script[c].line + script[c].n + 2
      /\ script[c].kind # "chunk" /\ script[c].n = 0 =>
            EndOf(script[c]) = script[c].start + script[c].line
    BY <1>3, ItemIs
<1>7. QED
    BY <1>3, <1>4, <1>5, <1>6

(* The reader of a chunked body, at the item it is at.                     *)
LEMMA ReaderAt ==
    ASSUME HttpInv, phase \in ChunkPhases
    PROVE  /\ Framing = "size" /\ ItemsOK(head.len, script) /\ Lined(script)
           /\ head \in Heads /\ head.len \in Nat /\ got \in Nat /\ at \in Nat /\ at <= got
           /\ got <= EndOfStream /\ EndOfStream \in Nat /\ Len(script) \in Nat
           /\ remaining \in Nat /\ budget \in Nat /\ head.len <= at
           /\ outcome = "none" /\ fault \in BOOLEAN /\ announced = Lengths
           /\ head.status /\ ~Ambiguous /\ req \in Requests
           /\ \E c \in 1..(Len(script) + 1) : InChunked(c)
<1>1. /\ head \in Heads /\ got \in Nat /\ at \in Nat /\ at <= got /\ got <= EndOfStream
      /\ remaining \in Nat /\ budget \in Nat /\ outcome = "none" /\ fault \in BOOLEAN
      /\ req \in Requests /\ ItemsOK(head.len, script)
    BY DEF HttpInv, HttpTypeOK, ChunkPhases
<1>2. /\ Framing = "size" /\ (\E c \in 1..(Len(script) + 1) : InChunked(c))
      /\ head.len <= at /\ head.status /\ ~Ambiguous /\ announced = Lengths
    BY DEF HttpInv, PhaseInv, Reading
<1>3. Lined(script)
    BY <1>2 DEF HttpInv
<1>4. head.len \in Nat
    BY <1>1, HeadIs
<1>5. Len(script) \in Nat /\ EndOfStream \in Nat
    BY <1>1, <1>4, ItemsReach DEF EndOfStream
<1>6. QED
    BY <1>1, <1>2, <1>3, <1>4, <1>5

(* A reader that comes to its item's first byte.                           *)
LEMMA LineHere ==
    ASSUME HttpInv, phase \in ChunkPhases, NEW c \in 1..(Len(script) + 1),
           at = ItemAt(head.len, script, c), NEW limit \in Nat
    PROVE  /\ c <= Len(script) =>
                 /\ c \in 1..Len(script) /\ Here = script[c] /\ at = script[c].start
                 /\ LineTakes(limit) = IF script[c].line <= limit THEN script[c].line ELSE limit
           /\ c > Len(script) =>
                 /\ c = Len(script) + 1 /\ Here.line = 1 /\ at = got /\ at = EndOfStream
                 /\ LineTakes(limit) = IF 1 <= limit THEN 1 ELSE limit
           /\ LineTakes(limit) \in Nat
<1>1. /\ Framing = "size" /\ ItemsOK(head.len, script) /\ Lined(script) /\ head.len \in Nat
      /\ got \in Nat /\ at \in Nat /\ at <= got /\ got <= EndOfStream /\ Len(script) \in Nat
    BY ReaderAt
<1>2. /\ c <= Len(script) => Here = script[c]
      /\ c > Len(script) => Here = Garbage
    BY <1>1, HereIs
<1>3. CASE c <= Len(script)
    <2>1. c \in 1..Len(script)
        BY <1>1, <1>3
    <2>2. script[c].line \in Nat /\ ItemAt(head.len, script, c) = script[c].start
        BY <1>1, <2>1, ItemHere
    <2>3. QED
        BY <1>1, <1>2, <1>3, <2>1, <2>2 DEF LineTakes
<1>4. CASE c > Len(script)
    <2>1. c = Len(script) + 1
        BY <1>1, <1>4
    <2>2. Here.line = 1
        BY <1>2, <1>4 DEF Garbage
    <2>3. at = EndOfStream
        BY <1>1, <2>1 DEF ItemAt, EndOfStream
    <2>4. QED
        BY <1>1, <1>4, <2>1, <2>2, <2>3 DEF LineTakes
<1>5. QED
    BY <1>1, <1>3, <1>4

(* In the trailers no blank line has come.                                 *)
LEMMA TrailersAre ==
    ASSUME NEW b, NEW s, NEW c \in Nat, NEW a, NEW left, AtTrailers(b, s, c, a, left)
    PROVE  /\ \A k \in 1..(c - 1) : s[k].kind # "blank" /\ Legal(s, k)
           /\ After(s, c)
<1>1. PICK l \in 1..(c - 1) :
          /\ s[l].kind = "last" /\ Chunky(s, l) /\ Legal(s, l)
          /\ \A k \in (l + 1)..(c - 1) : s[k].kind = "trailer" /\ Legal(s, k)
    BY DEF AtTrailers
<1>2. ASSUME NEW k \in 1..(c - 1) PROVE s[k].kind # "blank" /\ Legal(s, k)
    <2>1. CASE k < l
        <3>1. k \in 1..(l - 1)
            BY <2>1
        <3>2. QED
            BY <1>1, <3>1 DEF Chunky
    <2>2. CASE k = l
        BY <1>1, <2>2
    <2>3. CASE k > l
        <3>1. k \in (l + 1)..(c - 1)
            BY <2>3
        <3>2. QED
            BY <1>1, <3>1
    <2>4. QED
        BY <2>1, <2>2, <2>3
<1>3. After(s, c)
    BY <1>1 DEF After
<1>4. QED
    BY <1>2, <1>3

(* A line that has not all arrived.                                        *)
LEMMA BeforeEnd ==
    ASSUME NEW g \in Nat, NEW a \in Nat, NEW takes \in Nat, NEW line \in Nat, NEW n \in Nat,
           NEW e \in Nat, g < a + takes, takes <= line, a + line + n <= e
    PROVE  g < e
    OBVIOUS

(* BodyCut preserves the invariant.                                        *)
LEMMA BodyCutHttp == HttpInv /\ BodyCut => HttpInv'
<1>1. SUFFICES ASSUME HttpInv, BodyCut PROVE HttpInv'
    OBVIOUS
<1>2. /\ Fails(FALSE) /\ closed /\ Starved /\ UNCHANGED <<req, dialled, announced>>
      /\ UNCHANGED <<req, head, script, socket, reader>>
    BY <1>1 DEF BodyCut, asked
<1>3. ~Complete
    <2>1. CASE phase = "exact" /\ remaining > 0
        <3>1. /\ Framing = "exact" /\ at + remaining = head.len + head.cl[1] /\ got < at + 1
            BY <1>1, <1>2, <2>1 DEF HttpInv, PhaseInv, Starved
        <3>2. at \in Nat /\ remaining \in Nat /\ got \in Nat /\ head \in Heads
            BY <1>1 DEF HttpInv, HttpTypeOK
        <3>3. head.len \in Nat /\ head.cl[1] \in Nat
            BY <3>1, <3>2, HeadIs
        <3>4. ~(got >= head.len + head.cl[1])
            BY <2>1, <3>1, <3>2, <3>3
        <3>5. QED
            BY <3>1, <3>4 DEF Complete
    <2>2. CASE phase \in ChunkPhases
        <3>1. /\ Framing = "size" /\ got \in Nat /\ at \in Nat /\ Len(script) \in Nat
              /\ remaining \in Nat /\ budget \in Nat
              /\ \E c \in 1..(Len(script) + 1) : InChunked(c)
            BY <1>1, <2>2, ReaderAt
        <3>2. PICK c \in 1..(Len(script) + 1) : InChunked(c)
            BY <3>1
        <3>3. \A k \in 1..(c - 1) : script[k].kind # "blank"
            <4>1. Chunky(script, c) => \A k \in 1..(c - 1) : script[k].kind # "blank"
                BY DEF Chunky
            <4>2. CASE phase = "trailers"
                <5>1. AtTrailers(head.len, script, c, at, budget) /\ c \in Nat
                    BY <3>2, <4>2 DEF InChunked
                <5>2. QED
                    BY <5>1, TrailersAre
            <4>3. CASE phase # "trailers"
                BY <2>2, <3>2, <4>1, <4>3 DEF InChunked, ChunkPhases, AtData
            <4>4. QED
                BY <4>2, <4>3
        <3>4. ASSUME c <= Len(script) PROVE got < EndOf(script[c])
            <4>1. c \in 1..Len(script)
                BY <3>1, <3>4
            <4>2. /\ script[c].start \in Nat /\ script[c].line \in Nat /\ script[c].n \in Nat
                  /\ EndOf(script[c]) \in Nat
                  /\ script[c].start + script[c].line + script[c].n <= EndOf(script[c])
                  /\ script[c].kind = "chunk" /\ script[c].n > 0 =>
                        EndOf(script[c]) = script[c].start + script[c].line + script[c].n + 2
                BY <1>1, <3>1, <4>1, ItemHere
            <4>3. CASE phase = "size"
                <5>1. at = ItemAt(head.len, script, c) /\ got < at + LineTakes(MaxMeta)
                    BY <1>2, <3>2, <4>3 DEF InChunked, Starved
                <5>2. at = script[c].start /\ LineTakes(MaxMeta)
                          = IF script[c].line <= MaxMeta THEN script[c].line ELSE MaxMeta
                    BY <1>1, <2>2, <3>4, <5>1, LineHere, HttpLimits
                <5>3. LineTakes(MaxMeta) <= script[c].line /\ LineTakes(MaxMeta) \in Nat
                    BY <4>2, <5>2, HttpLimits
                <5>4. at = script[c].start
                    BY <5>2
                <5>5. QED
                    BY <3>1, <4>2, <5>1, <5>3, <5>4, BeforeEnd
            <4>4. CASE phase = "data"
                <5>1. /\ got < at + 1 /\ remaining > 0 /\ AtData(script, c, at, remaining)
                    BY <1>2, <3>2, <4>4 DEF InChunked, Starved
                <5>2. at + remaining = script[c].start + script[c].line + script[c].n
                    BY <5>1 DEF AtData
                <5>3. QED
                    BY <3>1, <4>2, <5>1, <5>2
            <4>5. CASE phase = "crlf"
                <5>1. /\ got < at + 2 /\ AtData(script, c, at, 0)
                    BY <1>2, <3>2, <4>5 DEF InChunked, Starved
                <5>2. /\ at + 0 = script[c].start + script[c].line + script[c].n
                      /\ script[c].kind = "chunk" /\ script[c].n > 0
                    BY <5>1 DEF AtData
                <5>3. QED
                    BY <3>1, <4>2, <5>1, <5>2
            <4>6. CASE phase = "trailers"
                <5>1. at = ItemAt(head.len, script, c) /\ got < at + LineTakes(budget)
                    BY <1>2, <3>2, <4>6 DEF InChunked, Starved, AtTrailers
                <5>2. at = script[c].start /\ LineTakes(budget)
                          = IF script[c].line <= budget THEN script[c].line ELSE budget
                    BY <1>1, <2>2, <3>1, <3>4, <5>1, LineHere
                <5>3. LineTakes(budget) <= script[c].line /\ LineTakes(budget) \in Nat
                    BY <3>1, <4>2, <5>2
                <5>4. at = script[c].start
                    BY <5>2
                <5>5. QED
                    BY <3>1, <4>2, <5>1, <5>3, <5>4, BeforeEnd
            <4>7. QED
                BY <2>2, <4>3, <4>4, <4>5, <4>6 DEF ChunkPhases
        <3>5. QED
            BY <1>1, <3>1, <3>3, <3>4, CutShort
    <2>3. QED
        BY <1>1, <2>1, <2>2 DEF BodyCut, ChunkPhases
<1>4. QED
    BY <1>1, <1>2, <1>3, FailsFor

(* Metadata is passed over.                                                *)
LEMMA LineSkips ==
    ASSUME HttpInv, phase \in ChunkPhases, NEW c \in 1..Len(script), NEW z \in Nat, at <= z,
           script[c].start <= at, z <= EndOf(script[c]),
           \/ script[c].kind # "chunk"
           \/ z <= script[c].start + script[c].line
           \/ script[c].start + script[c].line + script[c].n <= at
    PROVE  Taken(body, z, Bytes(Framing, head, got, script))
<1>1. /\ Framing = "size" /\ ItemsOK(head.len, script) /\ head.len \in Nat /\ at \in Nat
    BY ReaderAt
<1>2. /\ script[c].start \in Nat /\ script[c].line \in Nat /\ script[c].n \in Nat
      /\ EndOf(script[c]) \in Nat
    BY <1>1, ItemHere
<1>3. ASSUME NEW p \in Nat, at < p, p <= z
      PROVE  p \notin Bytes(Framing, head, got, script)
    <2>1. script[c].start < p /\ p <= EndOf(script[c])
        BY <1>1, <1>2, <1>3
    <2>2. ~(/\ script[c].kind = "chunk" /\ script[c].start + script[c].line < p
            /\ p <= script[c].start + script[c].line + script[c].n)
        BY <1>1, <1>2, <1>3
    <2>3. ~InChunk(script, p)
        BY <1>1, <2>1, <2>2, DataOfItem
    <2>4. QED
        BY <1>1, <2>3 DEF Bytes
<1>4. Taken(body, at, Bytes(Framing, head, got, script))
    BY DEF HttpInv
<1>5. QED
    BY <1>1, <1>3, <1>4, TakenSkips

(* A reader that gives up a chunked body that broke the rules.             *)
LEMMA ChunkRefused ==
    ASSUME HttpInv, phase \in ChunkPhases, UNCHANGED <<asked, head, script, socket>>,
           Fails(FALSE), at' \in 0..got, remaining' \in Nat, budget' \in Nat,
           Taken(body', at', Bytes(Framing, head, got, script)),
           \/ \E k \in 1..Len(script) : ~Legal(script, k)
           \/ ~TrailersFit(head.len, script)
    PROVE  HttpInv'
<1>1. Framing = "size" /\ fault \in BOOLEAN
    BY ReaderAt
<1>2. phase' = "over" /\ outcome' = "error" /\ fault' = fault
    BY <1>1 DEF Fails
<1>3. ~Acceptable
    BY <1>1 DEF Acceptable
<1>4. UNCHANGED <<req, head, script, got, closed>>
    BY DEF asked, socket
<1>5. ~Acceptable'
    BY <1>3, <1>4, ShowsStay
<1>6. PhaseInv'
    BY <1>2, <1>5, OverShows DEF ErrorShows
<1>7. QED
    BY <1>1, <1>2, <1>6, ReaderMoves DEF Phases

(* A reader that goes on in a chunked body.                                *)
LEMMA ChunkGoesOn ==
    ASSUME HttpInv, phase \in ChunkPhases, UNCHANGED <<asked, head, script, socket>>,
           NEW next \in ChunkPhases, Goto(next), at <= at', at' \in 0..got,
           remaining' \in Nat, budget' \in Nat,
           Taken(body', at', Bytes(Framing, head, got, script)),
           \E c \in 1..(Len(script) + 1) : InChunked(c)'
    PROVE  HttpInv'
<1>1. /\ Framing = "size" /\ fault \in BOOLEAN /\ head.len <= at /\ head.len \in Nat
      /\ at \in Nat /\ got \in Nat /\ outcome = "none"
    BY ReaderAt
<1>2. phase' = next /\ UNCHANGED <<outcome, fault>>
    BY DEF Goto
<1>3. UNCHANGED <<req, announced, head, script>>
    BY DEF asked
<1>4. phase' \in Reading /\ phase \in Reading /\ phase' \in Phases /\ phase' # "over"
      /\ phase' # "exact" /\ phase' # "close"
    BY <1>2 DEF Reading, ChunkPhases, Phases
<1>5. head.len <= at'
    BY <1>1
<1>6. PhaseInv'
    BY <1>1, <1>2, <1>3, <1>4, <1>5, StillReading
<1>7. QED
    BY <1>1, <1>2, <1>4, <1>6, ReaderMoves

(* ReadSize preserves the invariant.                                       *)
LEMMA ReadSizeHttp == HttpInv /\ ReadSize => HttpInv'
<1>1. SUFFICES ASSUME HttpInv, ReadSize PROVE HttpInv'
    OBVIOUS
<1> DEFINE takes == LineTakes(MaxMeta)
<1>2. /\ phase = "size" /\ phase \in ChunkPhases /\ ~Starved /\ at' = at + takes
      /\ UNCHANGED <<asked, head, script, socket>>
      /\ UNCHANGED <<head, script, body>>
    BY <1>1 DEF ReadSize, ChunkPhases
<1>3. /\ Framing = "size" /\ head.len \in Nat /\ got \in Nat /\ at \in Nat /\ at <= got
      /\ Len(script) \in Nat /\ remaining \in Nat /\ budget \in Nat
      /\ \E c \in 1..(Len(script) + 1) : InChunked(c)
    BY <1>1, <1>2, ReaderAt
<1>4. PICK c \in 1..(Len(script) + 1) : InChunked(c)
    BY <1>3
<1>5. at = ItemAt(head.len, script, c) /\ Chunky(script, c)
    BY <1>2, <1>4 DEF InChunked
<1>6. /\ c <= Len(script) =>
            /\ c \in 1..Len(script) /\ Here = script[c] /\ at = script[c].start
            /\ takes = IF script[c].line <= MaxMeta THEN script[c].line ELSE MaxMeta
      /\ c > Len(script) =>
            /\ at = got /\ takes = IF 1 <= MaxMeta THEN 1 ELSE MaxMeta
      /\ takes \in Nat
    BY <1>1, <1>2, <1>5, LineHere, HttpLimits
<1>7. ~(got < at + takes)
    BY <1>2 DEF Starved
<1> HIDE DEF takes
<1>8. c <= Len(script)
    <2>1. SUFFICES ASSUME c > Len(script) PROVE FALSE
        BY <1>3
    <2>2. takes = 1 /\ at = got
        BY <1>6, <2>1, HttpLimits
    <2>3. QED
        BY <1>3, <1>7, <2>2
<1>9. /\ c \in 1..Len(script) /\ Here = script[c] /\ at = script[c].start
      /\ takes = IF script[c].line <= MaxMeta THEN script[c].line ELSE MaxMeta
    BY <1>6, <1>8
<1>10. /\ script[c].start \in Nat /\ script[c].line \in Nat /\ script[c].n \in Nat
       /\ EndOf(script[c]) \in Nat /\ script[c].line > 0
       /\ script[c].start + script[c].line + script[c].n <= EndOf(script[c])
       /\ script[c].kind # "chunk" => EndOf(script[c]) = script[c].start + script[c].line
       /\ script[c].kind \in {"last", "blank"} => script[c].good
       /\ ItemAt(head.len, script, c + 1) = EndOf(script[c])
    BY <1>1, <1>3, <1>9, ItemHere
<1>11. takes <= script[c].line /\ takes \in Nat
    BY <1>6, <1>9, <1>10, HttpLimits
<1>12. /\ at' \in Nat /\ at' \in 0..got /\ at <= at'
       /\ at' <= script[c].start + script[c].line /\ at' <= EndOf(script[c])
    <2>1. at' \in Nat /\ at <= at' /\ at' <= got
        BY <1>2, <1>3, <1>7, <1>11
    <2>2. /\ script[c].start + takes <= script[c].start + script[c].line
          /\ script[c].start + takes <= EndOf(script[c])
        <3>1. /\ script[c].start \in Nat /\ script[c].line \in Nat /\ script[c].n \in Nat
              /\ EndOf(script[c]) \in Nat
              /\ script[c].start + script[c].line + script[c].n <= EndOf(script[c])
            BY <1>10
        <3>2. /\ script[c].start + script[c].line \in Nat
              /\ script[c].start + script[c].line <= EndOf(script[c])
            BY <3>1, PlacesAre
        <3>3. /\ script[c].start + takes \in Nat
              /\ script[c].start + takes <= script[c].start + script[c].line
            BY <1>11, <3>1, TakenInPart
        <3>4. QED
            BY <3>1, <3>2, <3>3, InOrder
    <2>3. at' = script[c].start + takes
        BY <1>2, <1>9
    <2>4. at' \in 0..got
        BY <1>3, <2>1
    <2>5. QED
        BY <2>1, <2>2, <2>3, <2>4
<1>13. Taken(body', at', Bytes(Framing, head, got, script))
    <2>1. script[c].start <= at
        BY <1>9, <1>10
    <2>2. Taken(body, at', Bytes(Framing, head, got, script))
        BY <1>1, <1>2, <1>9, <1>12, <2>1, LineSkips
    <2>3. QED
        BY <1>2, <2>2
<1>14. ~After(script, c)
    BY <1>5, ChunkyIs
<1>15. CASE /\ Here.kind = "chunk" /\ Here.n > 0 /\ Here.line <= MaxMeta
            /\ remaining' = Here.n /\ Goto("data") /\ UNCHANGED budget
    <2>1. /\ script[c].kind = "chunk" /\ script[c].n > 0 /\ script[c].line <= MaxMeta
          /\ remaining' = script[c].n /\ phase' = "data" /\ budget' = budget
        BY <1>9, <1>15 DEF Goto
    <2>2. at' = script[c].start + script[c].line
        BY <1>2, <1>9, <2>1
    <2>3. AtData(script, c, at', remaining')
        BY <1>5, <1>8, <1>10, <2>1, <2>2 DEF AtData
    <2>4. InChunked(c)'
        BY <1>2, <2>1, <2>3 DEF InChunked
    <2>5. "data" \in ChunkPhases /\ remaining' \in Nat /\ budget' \in Nat
        BY <1>3, <1>10, <2>1 DEF ChunkPhases
    <2>6. QED
        BY <1>1, <1>2, <1>12, <1>13, <1>15, <2>4, <2>5, ChunkGoesOn
<1>16. CASE /\ Here.kind = "last" /\ Here.line <= MaxMeta
            /\ budget' = MaxMeta /\ Goto("trailers") /\ UNCHANGED remaining
    <2>1. /\ script[c].kind = "last" /\ script[c].line <= MaxMeta
          /\ budget' = MaxMeta /\ phase' = "trailers" /\ remaining' = remaining
        BY <1>9, <1>16 DEF Goto
    <2>2. at' = script[c].start + script[c].line /\ at' = EndOf(script[c])
        BY <1>2, <1>9, <1>10, <2>1
    <2>3. Legal(script, c)
        BY <1>10, <1>14, <2>1 DEF Legal
    <2>4. AtTrailers(head.len, script, c + 1, at', budget')
        <3>1. at' = ItemAt(head.len, script, c + 1)
            BY <1>10, <2>2
        <3>2. c \in 1..((c + 1) - 1)
            BY <1>9
        <3>3. \A k \in (c + 1)..((c + 1) - 1) : FALSE
            BY <1>9, <1>3
        <3>4. EndOf(script[c]) <= at' /\ budget' = MaxMeta - (at' - EndOf(script[c]))
            BY <1>10, <2>1, <2>2, HttpLimits
        <3>5. QED
            BY <1>5, <2>1, <2>3, <3>1, <3>2, <3>3, <3>4 DEF AtTrailers
    <2>5. InChunked(c + 1)' /\ c + 1 \in 1..(Len(script) + 1)
        BY <1>2, <1>3, <1>9, <2>1, <2>4 DEF InChunked
    <2>6. "trailers" \in ChunkPhases /\ remaining' \in Nat /\ budget' \in Nat
        BY <1>3, <2>1, HttpLimits DEF ChunkPhases
    <2>7. QED
        BY <1>1, <1>2, <1>12, <1>13, <1>16, <2>5, <2>6, ChunkGoesOn
<1>17. CASE /\ \/ Here.kind \notin {"chunk", "last"} \/ Here.line > MaxMeta
               \/ Here.kind = "chunk" /\ Here.n = 0
            /\ Fails(FALSE) /\ UNCHANGED <<remaining, budget>>
    <2>1. remaining' \in Nat /\ budget' \in Nat
        BY <1>3, <1>17
    <2>2. ~Legal(script, c)
        <3>1. CASE script[c].kind \notin {"chunk", "last"}
            BY <1>14, <3>1 DEF Legal
        <3>2. CASE script[c].line > MaxMeta
            BY <1>10, <3>2, HttpLimits DEF Legal
        <3>3. CASE script[c].kind = "chunk" /\ script[c].n = 0
            BY <3>3 DEF Legal
        <3>4. QED
            BY <1>9, <1>17, <3>1, <3>2, <3>3
    <2>3. QED
        BY <1>1, <1>2, <1>9, <1>12, <1>13, <1>17, <2>1, <2>2, ChunkRefused
<1>18. QED
    BY <1>1, <1>15, <1>16, <1>17 DEF ReadSize

(* The data that is left begins no earlier than the data.                  *)
LEMMA DataBegins ==
    ASSUME NEW a \in Nat, NEW r \in Nat, NEW from \in Nat, NEW m \in Nat,
           a + r = from + m, r <= m
    PROVE  from <= a
    OBVIOUS

(* A byte between two places.                                              *)
LEMMA Between ==
    ASSUME NEW a \in Nat, NEW n \in Nat, NEW r \in Nat, NEW p \in Nat, NEW from \in Nat,
           from <= a, n <= r, a < p, p <= a + n
    PROVE  from < p /\ p <= a + r
    OBVIOUS

(* ReadData preserves the invariant.                                       *)
LEMMA ReadDataHttp == \A n \in 1..Piece : HttpInv /\ ReadData(n) => HttpInv'
<1>1. SUFFICES ASSUME NEW n \in 1..Piece, HttpInv, ReadData(n) PROVE HttpInv'
    OBVIOUS
<1>2. /\ phase = "data" /\ phase \in ChunkPhases /\ n \in 1..(got - at) /\ n <= remaining
      /\ at' = at + n /\ body' = body \o [i \in 1..n |-> at + i] /\ remaining' = remaining - n
      /\ UNCHANGED <<asked, head, script, socket>> /\ UNCHANGED <<head, script, budget>>
      /\ Goto(IF remaining' = 0 THEN "crlf" ELSE "data")
    BY <1>1 DEF ReadData, Deliver, Available, ChunkPhases
<1>3. /\ Framing = "size" /\ ItemsOK(head.len, script) /\ head.len \in Nat
      /\ got \in Nat /\ at \in Nat /\ at <= got
      /\ Len(script) \in Nat /\ remaining \in Nat /\ budget \in Nat
      /\ \E c \in 1..(Len(script) + 1) : InChunked(c)
    BY <1>1, <1>2, ReaderAt
<1>4. PICK c \in 1..(Len(script) + 1) : InChunked(c)
    BY <1>3
<1>5. AtData(script, c, at, remaining)
    BY <1>2, <1>4 DEF InChunked
<1>6. /\ c \in 1..Len(script) /\ Chunky(script, c) /\ script[c].kind = "chunk"
      /\ script[c].line <= MaxMeta /\ script[c].n > 0 /\ remaining <= script[c].n
      /\ at + remaining = script[c].start + script[c].line + script[c].n
    BY <1>3, <1>5 DEF AtData
<1>7. /\ script[c].start \in Nat /\ script[c].line \in Nat /\ script[c].n \in Nat
      /\ EndOf(script[c]) \in Nat
      /\ script[c].start + script[c].line + script[c].n <= EndOf(script[c])
    BY <1>1, <1>3, <1>6, ItemHere
<1>8. n \in Nat /\ n > 0 /\ at' \in 0..got /\ at <= at' /\ remaining' \in Nat /\ budget' \in Nat
      /\ at' + remaining' = script[c].start + script[c].line + script[c].n
      /\ remaining' <= script[c].n
    <2>1. n \in Nat /\ n > 0 /\ n <= got - at /\ n <= remaining
        BY <1>2, <1>3, HttpLimits
    <2>2. at' \in 0..got /\ at <= at' /\ remaining' \in Nat /\ remaining' <= remaining
          /\ at' + remaining' = at + remaining
        <3>1. /\ at + n \in 0..got /\ at <= at + n /\ remaining - n \in Nat
              /\ remaining - n <= remaining /\ (at + n) + (remaining - n) = at + remaining
            BY <1>3, <2>1, BytesRead
        <3>2. QED
            BY <1>2, <3>1
    <2>3. remaining' <= script[c].n
        BY <1>3, <1>6, <1>7, <2>2
    <2>4. QED
        BY <1>2, <1>3, <1>6, <2>1, <2>2, <2>3
<1>9. Taken(body', at', Bytes(Framing, head, got, script))
    <2>1. ASSUME NEW p \in Nat, at < p, p <= at + n
          PROVE  p \in Bytes(Framing, head, got, script)
        <3>1. /\ script[c].start + script[c].line < p
              /\ p <= script[c].start + script[c].line + script[c].n
            <4>1. n <= remaining /\ remaining <= script[c].n
                  /\ at + remaining = script[c].start + script[c].line + script[c].n
                BY <1>2, <1>6
            <4>2. n \in Nat /\ at \in Nat /\ remaining \in Nat /\ script[c].n \in Nat
                  /\ script[c].start + script[c].line \in Nat
                <5>1. script[c].start + script[c].line \in Nat
                    BY <1>3, <1>6, ItemsReach, ItemIs
                <5>2. QED
                    BY <1>3, <1>7, <1>8, <5>1
            <4>3. script[c].start + script[c].line <= at
                BY <4>1, <4>2, DataBegins
            <4>4. script[c].start + script[c].line < p /\ p <= at + remaining
                BY <2>1, <4>1, <4>2, <4>3, Between
            <4>5. QED
                BY <4>1, <4>4
        <3>2. ~After(script, c)
            BY <1>6, ChunkyIs
        <3>3. InChunk(script, p)
            BY <1>6, <3>1, <3>2 DEF InChunk
        <3>4. QED
            BY <1>3, <3>3 DEF Bytes
    <2>2. Taken(body, at, Bytes(Framing, head, got, script))
        BY <1>1 DEF HttpInv
    <2>3. Taken(body \o [i \in 1..n |-> at + i], at + n, Bytes(Framing, head, got, script))
        BY <1>3, <1>8, <2>1, <2>2, TakenDelivers
    <2>4. QED
        BY <1>2, <2>3
<1>10. AtData(script, c, at', remaining')
    BY <1>3, <1>6, <1>8 DEF AtData
<1>11. CASE remaining' = 0
    <2>1. phase' = "crlf" /\ Goto("crlf")
        BY <1>2, <1>11 DEF Goto
    <2>2. InChunked(c)'
        BY <1>2, <1>10, <1>11, <2>1 DEF InChunked
    <2>3. "crlf" \in ChunkPhases
        BY DEF ChunkPhases
    <2>4. QED
        BY <1>1, <1>2, <1>4, <1>8, <1>9, <2>1, <2>2, <2>3, ChunkGoesOn
<1>12. CASE remaining' # 0
    <2>1. phase' = "data" /\ Goto("data") /\ remaining' > 0
        BY <1>2, <1>8, <1>12 DEF Goto
    <2>2. InChunked(c)'
        BY <1>2, <1>10, <2>1 DEF InChunked
    <2>3. "data" \in ChunkPhases
        BY DEF ChunkPhases
    <2>4. QED
        BY <1>1, <1>2, <1>4, <1>8, <1>9, <2>1, <2>2, <2>3, ChunkGoesOn
<1>13. QED
    BY <1>11, <1>12

(* ReadCrlf preserves the invariant.                                       *)
LEMMA ReadCrlfHttp == HttpInv /\ ReadCrlf => HttpInv'
<1>1. SUFFICES ASSUME HttpInv, ReadCrlf PROVE HttpInv'
    OBVIOUS
<1> DEFINE ends == \E k \in 1..Len(script) : /\ script[k].kind = "chunk" /\ script[k].good
                                             /\ EndOf(script[k]) = at + 2
<1>2. /\ phase = "crlf" /\ phase \in ChunkPhases /\ ~Starved /\ at' = at + 2
      /\ UNCHANGED <<asked, head, script, socket>>
      /\ UNCHANGED <<head, script, body, remaining, budget>>
      /\ IF ends THEN Goto("size") ELSE Fails(FALSE)
    BY <1>1 DEF ReadCrlf, ChunkPhases
<1>3. /\ Framing = "size" /\ ItemsOK(head.len, script) /\ Lined(script) /\ head.len \in Nat
      /\ got \in Nat /\ at \in Nat /\ at <= got
      /\ Len(script) \in Nat /\ remaining \in Nat /\ budget \in Nat
      /\ \E c \in 1..(Len(script) + 1) : InChunked(c)
    BY <1>1, <1>2, ReaderAt
<1>4. PICK c \in 1..(Len(script) + 1) : InChunked(c)
    BY <1>3
<1>5. AtData(script, c, at, 0)
    BY <1>2, <1>4 DEF InChunked
<1>6. /\ c \in 1..Len(script) /\ Chunky(script, c) /\ script[c].kind = "chunk"
      /\ script[c].line <= MaxMeta /\ script[c].n > 0
      /\ at = script[c].start + script[c].line + script[c].n
    BY <1>3, <1>5 DEF AtData
<1>7. /\ script[c].start \in Nat /\ script[c].line \in Nat /\ script[c].n \in Nat
      /\ EndOf(script[c]) \in Nat /\ script[c].good \in BOOLEAN
      /\ EndOf(script[c]) = script[c].start + script[c].line + script[c].n + 2
      /\ ItemAt(head.len, script, c + 1) = EndOf(script[c])
    BY <1>1, <1>3, <1>6, ItemHere
<1>8. ~(got < at + 2)
    BY <1>2 DEF Starved
<1>9. /\ at' = EndOf(script[c]) /\ at' \in Nat /\ at' \in 0..got /\ at <= at'
      /\ script[c].start <= at /\ at' <= EndOf(script[c])
    <2>1. at' \in Nat /\ at' \in 0..got /\ at <= at'
        BY <1>2, <1>3, <1>8
    <2>2. at' = EndOf(script[c])
        BY <1>2, <1>6, <1>7
    <2>3. script[c].start <= at
        <3>1. script[c].start + script[c].line + script[c].n <= at
            BY <1>3, <1>6
        <3>2. QED
            BY <1>3, <1>7, <3>1, PlacesAre
    <2>4. QED
        BY <1>7, <2>1, <2>2, <2>3
<1>10. Taken(body', at', Bytes(Framing, head, got, script))
    <2>1. script[c].start + script[c].line + script[c].n <= at
        BY <1>3, <1>6
    <2>2. Taken(body, at', Bytes(Framing, head, got, script))
        BY <1>1, <1>2, <1>6, <1>9, <2>1, LineSkips
    <2>3. QED
        BY <1>2, <2>2
<1>11. ~After(script, c)
    BY <1>6, ChunkyIs
<1>12. ends <=> script[c].good
    <2>1. script[c].good => ends
        BY <1>2, <1>6, <1>9
    <2>2. ASSUME NEW k \in 1..Len(script), script[k].good, EndOf(script[k]) = at + 2
          PROVE  script[c].good
        <3>1. EndOf(script[k]) = EndOf(script[c])
            BY <1>2, <1>9, <2>2
        <3>2. k = c
            BY <1>3, <1>6, <3>1, ItemByEnd
        <3>3. QED
            BY <2>2, <3>2
    <2>3. QED
        BY <2>1, <2>2
<1> HIDE DEF ends
<1>13. CASE script[c].good
    <2>1. Goto("size") /\ phase' = "size"
        BY <1>2, <1>12, <1>13 DEF Goto
    <2>2. Legal(script, c)
        BY <1>6, <1>11, <1>13 DEF Legal
    <2>3. Chunky(script, c + 1)
        BY <1>6, <2>2, ChunkyIs
    <2>4. InChunked(c + 1)' /\ c + 1 \in 1..(Len(script) + 1)
        BY <1>2, <1>3, <1>6, <1>7, <1>9, <2>1, <2>3 DEF InChunked
    <2>5. "size" \in ChunkPhases /\ remaining' \in Nat /\ budget' \in Nat
        BY <1>2, <1>3 DEF ChunkPhases
    <2>6. QED
        BY <1>1, <1>2, <1>9, <1>10, <2>1, <2>4, <2>5, ChunkGoesOn
<1>14. CASE ~script[c].good
    <2>1. Fails(FALSE)
        BY <1>2, <1>12, <1>14
    <2>2. ~Legal(script, c)
        BY <1>14 DEF Legal
    <2>3. remaining' \in Nat /\ budget' \in Nat
        BY <1>2, <1>3
    <2>4. QED
        BY <1>1, <1>2, <1>6, <1>9, <1>10, <2>1, <2>2, <2>3, ChunkRefused
<1>15. QED
    BY <1>13, <1>14

(* A line that does not fit is one the trailers have no room for.          *)
LEMMA TrailersOverflow ==
    ASSUME NEW b \in Nat, NEW s, ItemsOK(b, s), NEW c \in 1..(Len(s) + 1), NEW a \in Nat,
           NEW left \in Nat, AtTrailers(b, s, c, a, left),
           (c <= Len(s) /\ left < s[c].line) \/ (c > Len(s) /\ left = 0)
    PROVE  ~TrailersFit(b, s)
<1>1. PICK l \in 1..(c - 1) :
          /\ s[l].kind = "last" /\ Chunky(s, l)
          /\ EndOf(s[l]) <= a /\ left = MaxMeta - (a - EndOf(s[l]))
    BY DEF AtTrailers
<1>2. Len(s) \in Nat /\ StreamEnd(b, s) \in Nat
    BY ItemsReach
<1>3. l \in 1..Len(s) /\ l \in Nat \ {0} /\ c \in Nat
    BY <1>2
<1>4. EndOf(s[l]) \in Nat
    BY <1>3, ItemsReach, ItemIs
<1>5. ~After(s, l)
    BY <1>1, <1>3, ChunkyIs
<1> DEFINE used == StreamEnd(b, s) - EndOf(s[l])
<1>6. CASE c <= Len(s) /\ left < s[c].line
    <2>1. c \in 1..Len(s)
        BY <1>2, <1>6
    <2>2. s[c] \in SentItem /\ EndOf(s[c]) <= StreamEnd(b, s) /\ a = s[c].start
        BY <2>1, ItemsReach DEF AtTrailers
    <2>3. /\ s[c].start \in Nat /\ s[c].line \in Nat /\ s[c].n \in Nat /\ EndOf(s[c]) \in Nat
          /\ s[c].start + s[c].line + s[c].n <= EndOf(s[c])
        BY <2>2, ItemIs
    <2>4. a + s[c].line <= StreamEnd(b, s)
        <3>1. s[c].start + s[c].line \in Nat /\ s[c].start + s[c].line <= EndOf(s[c])
            BY <2>2, ItemIs
        <3>2. s[c].start + s[c].line <= StreamEnd(b, s)
            BY <1>2, <2>2, <2>3, <3>1, InOrder
        <3>3. QED
            BY <2>2, <3>2
    <2>5. /\ left = MaxMeta - (a - EndOf(s[l])) /\ left < s[c].line /\ s[c].line \in Nat
          /\ MaxMeta \in Nat
        BY <1>1, <1>6, <2>3, HttpLimits
    <2>6. ~(used < MaxMeta) /\ used # MaxMeta
        BY <1>2, <1>4, <2>4, <2>5, PastLimit
    <2>7. QED
        BY <1>1, <1>3, <1>5, <2>6 DEF TrailersFit
<1>7. CASE c > Len(s) /\ left = 0
    <2>1. c = Len(s) + 1 /\ Len(s) \in 1..(c - 1)
        BY <1>2, <1>3, <1>7
    <2>2. a = StreamEnd(b, s)
        BY <2>1, ItemsReach DEF AtTrailers
    <2>3. used = MaxMeta
        <3>1. 0 = MaxMeta - (StreamEnd(b, s) - EndOf(s[l])) /\ MaxMeta \in Nat
            BY <1>1, <1>7, <2>2, HttpLimits
        <3>2. QED
            BY <1>2, <1>4, <3>1, AtLimit
    <2>4. s[Len(s)].kind # "blank"
        BY <1>3, <2>1, TrailersAre
    <2>5. Last(s) = s[Len(s)]
        BY DEF Last
    <2>6. ~(used < MaxMeta) /\ Last(s).kind # "blank"
        BY <2>3, <2>4, <2>5, HttpLimits
    <2>7. QED
        BY <1>1, <1>3, <1>5, <2>6 DEF TrailersFit
<1>8. QED
    BY <1>6, <1>7

(* Behind the last chunk there is no data.                                 *)
LEMMA NoDataAfter ==
    ASSUME NEW b \in Nat, NEW s, ItemsOK(b, s), NEW c \in 1..(Len(s) + 1), NEW a \in Nat,
           NEW left, AtTrailers(b, s, c, a, left), NEW p \in Nat, InChunk(s, p)
    PROVE  p <= a
<1>1. PICK l \in 1..(c - 1) : s[l].kind = "last" /\ EndOf(s[l]) <= a
    BY DEF AtTrailers
<1>2. Len(s) \in Nat
    BY ItemsReach
<1>3. l \in 1..Len(s)
    BY <1>2
<1>4. PICK k \in 1..Len(s) : /\ s[k].kind = "chunk" /\ ~After(s, k)
                             /\ p <= s[k].start + s[k].line + s[k].n
    BY DEF InChunk
<1>5. k < l
    <2>1. k # l
        BY <1>1, <1>4
    <2>2. ~(l < k)
        <3>1. l < k => l \in 1..(k - 1)
            BY <1>2
        <3>2. QED
            BY <1>1, <1>4, <3>1 DEF After
    <2>3. QED
        BY <1>2, <2>1, <2>2
<1>6. EndOf(s[k]) <= s[l].start
    BY <1>3, <1>5 DEF ItemsOK
<1>7. s[k] \in SentItem /\ s[l] \in SentItem
    BY <1>3, ItemsReach
<1>8. /\ s[k].start \in Nat /\ s[k].line \in Nat /\ s[k].n \in Nat /\ EndOf(s[k]) \in Nat
      /\ s[k].start + s[k].line + s[k].n <= EndOf(s[k])
    BY <1>7, ItemIs
<1>9. /\ s[l].start \in Nat /\ s[l].line \in Nat /\ s[l].n \in Nat /\ EndOf(s[l]) \in Nat
      /\ s[l].start + s[l].line + s[l].n <= EndOf(s[l])
    BY <1>7, ItemIs
<1>10. p <= s[l].start
    <2>1. s[k].start + s[k].line + s[k].n \in Nat
        BY <1>7, ItemIs
    <2>2. p <= EndOf(s[k])
        BY <1>4, <1>8, <2>1, InOrder
    <2>3. QED
        BY <1>6, <1>8, <1>9, <2>2, InOrder
<1>11. s[l].start <= a
    <2>1. s[l].start <= EndOf(s[l])
        BY <1>7, ItemIs
    <2>2. QED
        BY <1>1, <1>9, <2>1, InOrder
<1>12. QED
    BY <1>9, <1>10, <1>11

(* One more trailer.                                                       *)
LEMMA TrailerRead ==
    ASSUME NEW b \in Nat, NEW s, NEW c \in Nat, NEW a \in Nat, NEW left \in Nat,
           AtTrailers(b, s, c, a, left), s[c].kind = "trailer", Legal(s, c), NEW line \in Nat,
           a + line = ItemAt(b, s, c + 1),
           \A k \in 1..(c - 1) : EndOf(s[k]) \in Nat
    PROVE  AtTrailers(b, s, c + 1, a + line, left - line)
<1>1. PICK l \in 1..(c - 1) :
          /\ s[l].kind = "last" /\ Chunky(s, l) /\ Legal(s, l)
          /\ \A k \in (l + 1)..(c - 1) : s[k].kind = "trailer" /\ Legal(s, k)
          /\ EndOf(s[l]) <= a /\ left = MaxMeta - (a - EndOf(s[l]))
    BY DEF AtTrailers
<1>2. EndOf(s[l]) \in Nat /\ l \in 1..((c + 1) - 1)
    OBVIOUS
<1>3. \A k \in (l + 1)..((c + 1) - 1) : s[k].kind = "trailer" /\ Legal(s, k)
    <2>1. \A k \in (l + 1)..((c + 1) - 1) : k \in (l + 1)..(c - 1) \/ k = c
        OBVIOUS
    <2>2. QED
        BY <1>1, <2>1
<1>4. EndOf(s[l]) <= a + line /\ left - line = MaxMeta - ((a + line) - EndOf(s[l]))
    BY <1>1, <1>2, HttpLimits
<1>5. QED
    BY <1>1, <1>2, <1>3, <1>4 DEF AtTrailers

(* The room that is left is no more than there was.                        *)
LEMMA TrailersLeave ==
    ASSUME NEW b, NEW s, NEW c, NEW a \in Nat, NEW left \in Nat, AtTrailers(b, s, c, a, left),
           \A k \in 1..(c - 1) : EndOf(s[k]) \in Nat
    PROVE  /\ left <= MaxMeta
           /\ \E l \in 1..(c - 1) : /\ s[l].kind = "last" /\ EndOf(s[l]) <= a
                                    /\ a - EndOf(s[l]) <= MaxMeta
<1>1. PICK l \in 1..(c - 1) :
          s[l].kind = "last" /\ EndOf(s[l]) <= a /\ left = MaxMeta - (a - EndOf(s[l]))
    BY DEF AtTrailers
<1>2. EndOf(s[l]) \in Nat
    OBVIOUS
<1>3. left <= MaxMeta /\ a - EndOf(s[l]) <= MaxMeta
    BY <1>1, <1>2, HttpLimits
<1>4. QED
    BY <1>1, <1>3

(* A reader that takes the blank line has read all there is.               *)
LEMMA BlankEnds ==
    ASSUME HttpInv, phase \in ChunkPhases, UNCHANGED <<asked, head, script, socket>>,
           Succeeds, NEW c \in 1..Len(script), AtTrailers(head.len, script, c, at, budget),
           script[c].kind = "blank", script[c].line <= budget, at' = EndOf(script[c]),
           at' <= got, remaining' \in Nat, budget' \in Nat,
           Taken(body', at', Bytes(Framing, head, got, script))
    PROVE  HttpInv'
<1>1. /\ Framing = "size" /\ ItemsOK(head.len, script) /\ head.len \in Nat /\ got \in Nat
      /\ at \in Nat /\ Len(script) \in Nat /\ budget \in Nat /\ fault \in BOOLEAN
      /\ announced = Lengths /\ head.status /\ ~Ambiguous /\ req \in Requests
    BY ReaderAt
<1>2. UNCHANGED <<req, announced, head, script, got, closed>>
    BY DEF asked, socket
<1>3. phase' = "over" /\ outcome' = "ok" /\ fault' = fault
    BY DEF Succeeds
<1>4. /\ script[c].start \in Nat /\ script[c].line \in Nat /\ EndOf(script[c]) \in Nat
      /\ EndOf(script[c]) = script[c].start + script[c].line /\ script[c].good
      /\ ItemAt(head.len, script, c) = script[c].start
    BY <1>1, ItemHere
<1>5. at = script[c].start /\ at' \in Nat /\ at <= at' /\ at' \in 0..got
    <2>1. at = script[c].start
        BY <1>4 DEF AtTrailers
    <2>2. at' \in Nat /\ at <= at'
        BY <1>4, <2>1
    <2>3. QED
        BY <1>1, <2>1, <2>2
<1>6. \A k \in 1..(c - 1) : EndOf(script[k]) \in Nat
    <2>1. \A k \in 1..(c - 1) : k \in 1..Len(script)
        BY <1>1
    <2>2. QED
        BY <1>1, <2>1, ItemHere
<1>7. Complete
    BY <1>1, <1>4, <1>5 DEF Complete
<1>8. ASSUME NEW p \in Nat, IsBody(p) PROVE p <= at'
    <2>1. InChunk(script, p)
        BY <1>1, <1>8 DEF IsBody
    <2>2. c \in 1..(Len(script) + 1)
        BY <1>1
    <2>3. p <= at
        BY <1>1, <2>1, <2>2, NoDataAfter
    <2>4. QED
        BY <1>1, <1>5, <2>3
<1>9. ASSUME NEW k \in 1..Len(script), script[k].start < at' PROVE Legal(script, k)
    <2>1. /\ \A j \in 1..(c - 1) : Legal(script, j)
          /\ After(script, c)
        <3>1. c \in Nat
            BY <1>1
        <3>2. QED
            BY <3>1, TrailersAre
    <2>2. CASE k < c
        <3>1. k \in 1..(c - 1)
            BY <1>1, <2>2
        <3>2. QED
            BY <2>1, <3>1
    <2>3. CASE k = c
        <3>1. budget <= MaxMeta
            BY <1>1, <1>6, TrailersLeave
        <3>2. script[c].line <= MaxMeta
            BY <1>1, <1>4, <3>1, HttpLimits
        <3>3. QED
            BY <1>4, <2>1, <2>3, <3>2 DEF Legal
    <2>4. CASE k > c
        <3>1. EndOf(script[c]) <= script[k].start
            BY <1>1, <2>4 DEF ItemsOK
        <3>2. script[k].start \in Nat
            BY <1>1, ItemHere
        <3>3. QED
            BY <1>4, <1>9, <3>1, <3>2
    <2>5. QED
        BY <1>1, <2>2, <2>3, <2>4
<1>10. SendsBody => announced = <<req.body>>
    BY <1>1, RequestIs
<1>11. /\ Framing' = Framing /\ (Ambiguous' <=> Ambiguous) /\ (Complete' <=> Complete)
       /\ (SendsBody' <=> SendsBody) /\ \A p \in Nat : IsBody(p)' <=> IsBody(p)
    BY <1>2, ShowsStay
<1>12. OkShows'
    <2>1. head'.status /\ ~Ambiguous' /\ Complete'
        BY <1>1, <1>2, <1>7, <1>11
    <2>2. \A p \in Nat : IsBody(p)' => p <= at'
        BY <1>8, <1>11
    <2>3. SendsBody' => announced' = <<req'.body>>
        BY <1>2, <1>10, <1>11
    <2>4. \A k \in 1..Len(script') : script'[k].start < at' => Legal(script', k)
        BY <1>2, <1>9
    <2>5. QED
        BY <2>1, <2>2, <2>3, <2>4 DEF OkShows
<1>13. PhaseInv'
    BY <1>3, <1>12, OverShows
<1>14. QED
    BY <1>1, <1>3, <1>5, <1>13, ReaderMoves DEF Phases

(* ReadTrailer preserves the invariant.                                    *)
LEMMA ReadTrailerHttp == HttpInv /\ ReadTrailer => HttpInv'
<1>1. SUFFICES ASSUME HttpInv, ReadTrailer PROVE HttpInv'
    OBVIOUS
<1> DEFINE takes == LineTakes(budget)
<1>2. /\ phase = "trailers" /\ phase \in ChunkPhases /\ ~Starved /\ at' = at + takes
      /\ budget' = budget - takes /\ UNCHANGED <<asked, head, script, socket>>
      /\ UNCHANGED <<head, script, body, remaining>>
      /\ IF Here.line > budget THEN Fails(FALSE)
         ELSE \/ Here.kind = "blank" /\ Succeeds
              \/ Here.kind = "trailer" /\ Here.good /\ Goto("trailers")
              \/ Here.kind # "blank" /\ ~(Here.kind = "trailer" /\ Here.good) /\ Fails(FALSE)
    BY <1>1 DEF ReadTrailer, TrailerLeaves, ChunkPhases
<1>3. /\ Framing = "size" /\ ItemsOK(head.len, script) /\ head.len \in Nat /\ got \in Nat
      /\ at \in Nat /\ at <= got /\ Len(script) \in Nat /\ remaining \in Nat /\ budget \in Nat
      /\ \E c \in 1..(Len(script) + 1) : InChunked(c)
    BY <1>1, <1>2, ReaderAt
<1>4. PICK c \in 1..(Len(script) + 1) : InChunked(c)
    BY <1>3
<1>5. AtTrailers(head.len, script, c, at, budget)
    BY <1>2, <1>4 DEF InChunked
<1>6. at = ItemAt(head.len, script, c)
    BY <1>5 DEF AtTrailers
<1>7. /\ c <= Len(script) =>
            /\ c \in 1..Len(script) /\ Here = script[c] /\ at = script[c].start
            /\ takes = IF script[c].line <= budget THEN script[c].line ELSE budget
      /\ c > Len(script) =>
            /\ Here.line = 1 /\ at = got /\ takes = IF 1 <= budget THEN 1 ELSE budget
      /\ takes \in Nat
    BY <1>1, <1>2, <1>3, <1>6, LineHere
<1>8. ~(got < at + takes)
    BY <1>2 DEF Starved
<1> HIDE DEF takes
<1>9. remaining' \in Nat
    BY <1>2, <1>3
<1>10. \A k \in 1..(c - 1) : EndOf(script[k]) \in Nat
    <2>1. \A k \in 1..(c - 1) : k \in 1..Len(script)
        BY <1>3
    <2>2. QED
        BY <1>1, <1>3, <2>1, ItemHere
<1>11. CASE c > Len(script)
    <2>1. budget = 0
        <3>1. SUFFICES ASSUME budget > 0 PROVE FALSE
            BY <1>3
        <3>2. takes = 1 /\ at = got
            BY <1>3, <1>7, <1>11, <3>1
        <3>3. QED
            BY <1>3, <1>8, <3>2
    <2>2. takes = 0 /\ Here.line = 1
        BY <1>7, <1>11, <2>1
    <2>3. Fails(FALSE) /\ at' = at /\ budget' \in Nat /\ body' = body /\ at' \in 0..got
        <3>1. Here.line > budget /\ takes = 0
            BY <2>1, <2>2
        <3>2. Fails(FALSE) /\ body' = body
            BY <1>2, <3>1
        <3>3. at' = at /\ budget' \in Nat
            BY <1>2, <1>3, <2>1, <3>1
        <3>4. at' \in 0..got
            BY <1>3, <3>3
        <3>5. QED
            BY <3>2, <3>3, <3>4
    <2>4. Taken(body', at', Bytes(Framing, head, got, script))
        BY <1>1, <2>3 DEF HttpInv
    <2>5. ~TrailersFit(head.len, script)
        BY <1>3, <1>5, <1>11, <2>1, TrailersOverflow
    <2>6. QED
        BY <1>1, <1>2, <1>9, <2>3, <2>4, <2>5, ChunkRefused
<1>12. CASE c <= Len(script)
    <2>1. /\ c \in 1..Len(script) /\ Here = script[c] /\ at = script[c].start
          /\ takes = IF script[c].line <= budget THEN script[c].line ELSE budget
        BY <1>7, <1>12
    <2>2. /\ script[c].start \in Nat /\ script[c].line \in Nat /\ script[c].n \in Nat
          /\ EndOf(script[c]) \in Nat /\ script[c].good \in BOOLEAN
          /\ script[c].start + script[c].line + script[c].n <= EndOf(script[c])
          /\ script[c].kind \in {"chunk", "last", "trailer", "blank"}
          /\ script[c].kind # "chunk" => EndOf(script[c]) = script[c].start + script[c].line
          /\ ItemAt(head.len, script, c + 1) = EndOf(script[c])
        BY <1>1, <1>3, <2>1, ItemHere
    <2>3. takes <= script[c].line /\ takes <= budget /\ takes \in Nat
        BY <1>3, <1>7, <2>1, <2>2
    <2>4. /\ at' \in Nat /\ at' \in 0..got /\ at <= at' /\ budget' \in Nat
        BY <1>2, <1>3, <1>8, <2>3
    <2>5. at' <= script[c].start + script[c].line /\ at' <= EndOf(script[c])
        <3>1. /\ script[c].start + takes <= script[c].start + script[c].line
              /\ script[c].start + takes <= EndOf(script[c])
            <4>1. /\ script[c].start \in Nat /\ script[c].line \in Nat /\ script[c].n \in Nat
                  /\ EndOf(script[c]) \in Nat
                  /\ script[c].start + script[c].line + script[c].n <= EndOf(script[c])
                BY <2>2
            <4>2. /\ script[c].start + script[c].line \in Nat
                  /\ script[c].start + script[c].line <= EndOf(script[c])
                BY <4>1, PlacesAre
            <4>3. /\ script[c].start + takes \in Nat
                  /\ script[c].start + takes <= script[c].start + script[c].line
                BY <2>3, <4>1, TakenInPart
            <4>4. QED
                BY <4>1, <4>2, <4>3, InOrder
        <3>2. at' = script[c].start + takes
            BY <1>2, <2>1
        <3>3. QED
            BY <3>1, <3>2
    <2>6. Taken(body', at', Bytes(Framing, head, got, script))
        <3>1. script[c].start <= at
            BY <2>1, <2>2
        <3>2. Taken(body, at', Bytes(Framing, head, got, script))
            BY <1>1, <1>2, <2>1, <2>4, <2>5, <3>1, LineSkips
        <3>3. QED
            BY <1>2, <3>2
    <2>7. c \in Nat /\ After(script, c)
        <3>1. c \in Nat
            BY <2>1
        <3>2. QED
            BY <1>5, <3>1, TrailersAre
    <2>8. CASE script[c].line > budget
        <3>1. Fails(FALSE)
            BY <1>2, <2>1, <2>8
        <3>2. budget < script[c].line
            BY <1>3, <2>2, <2>8
        <3>3. ~TrailersFit(head.len, script)
            BY <1>3, <1>5, <1>12, <3>2, TrailersOverflow
        <3>4. QED
            BY <1>1, <1>2, <1>9, <2>4, <2>6, <3>1, <3>3, ChunkRefused
    <2>9. CASE ~(script[c].line > budget)
        <3>1. script[c].line <= budget /\ takes = script[c].line
            BY <1>3, <2>1, <2>2, <2>9
        <3>2. at' = at + script[c].line /\ budget' = budget - script[c].line
            BY <1>2, <3>1
        <3>3. CASE script[c].kind = "blank" /\ Succeeds
            <4>1. at' = EndOf(script[c]) /\ at' <= got
                BY <1>3, <2>1, <2>2, <2>4, <3>2, <3>3
            <4>2. QED
                BY <1>1, <1>2, <1>5, <1>9, <2>1, <2>4, <2>6, <3>1, <3>3, <4>1, BlankEnds
        <3>4. CASE script[c].kind = "trailer" /\ script[c].good /\ Goto("trailers")
            <4>1. budget <= MaxMeta
                BY <1>3, <1>5, <1>10, TrailersLeave
            <4>2. script[c].line <= MaxMeta
                BY <1>3, <2>2, <3>1, <4>1, HttpLimits
            <4>3. Legal(script, c)
                BY <2>7, <3>4, <4>2 DEF Legal
            <4>4. at + script[c].line = ItemAt(head.len, script, c + 1)
                BY <2>1, <2>2, <3>4
            <4>5. AtTrailers(head.len, script, c + 1, at + script[c].line, budget - script[c].line)
                BY <1>3, <1>5, <1>10, <2>2, <2>7, <3>4, <4>3, <4>4, TrailerRead
            <4>6. phase' = "trailers"
                BY <3>4 DEF Goto
            <4>7. InChunked(c + 1)' /\ c + 1 \in 1..(Len(script) + 1)
                BY <1>2, <1>3, <2>1, <3>2, <4>5, <4>6 DEF InChunked
            <4>8. "trailers" \in ChunkPhases
                BY DEF ChunkPhases
            <4>9. QED
                BY <1>1, <1>2, <1>9, <2>4, <2>6, <3>4, <4>7, <4>8, ChunkGoesOn
        <3>5. CASE /\ script[c].kind # "blank" /\ ~(script[c].kind = "trailer" /\ script[c].good)
                   /\ Fails(FALSE)
            <4>1. ~Legal(script, c)
                BY <2>2, <2>7, <3>5 DEF Legal
            <4>2. QED
                BY <1>1, <1>2, <1>9, <2>1, <2>4, <2>6, <3>5, <4>1, ChunkRefused
        <3>6. QED
            BY <1>2, <2>1, <2>9, <3>3, <3>4, <3>5
    <2>10. QED
        BY <2>8, <2>9
<1>13. QED
    BY <1>3, <1>11, <1>12

-----------------------------------------------------------------------------
(* The exchange.                                                           *)

(* The initial states satisfy the invariant.                               *)
LEMMA HttpStarts == HttpInit => HttpInv
<1>1. SUFFICES ASSUME HttpInit PROVE HttpInv
    OBVIOUS
<1>2. /\ req \in Requests /\ head \in Heads /\ script = <<>> /\ dialled = 0 /\ announced = <<>>
      /\ phase = "admit" /\ got = 0 /\ closed = FALSE /\ at = 0 /\ remaining = 0 /\ budget = 0
      /\ body = <<>> /\ outcome = "none" /\ fault = FALSE
    BY <1>1 DEF HttpInit
<1>3. Candidates \in Nat /\ head.len \in Nat
    BY <1>2, RequestIs, HeadIs
<1>4. Len(script) = 0 /\ script \in Seq(SentItem) /\ announced \in Seq(Nat) /\ Len(body) = 0
    BY <1>2
<1>5. HttpTypeOK
    <2>1. /\ phase \in Phases /\ closed \in BOOLEAN /\ fault \in BOOLEAN
          /\ outcome \in {"none", "ok", "error"} /\ (outcome = "none" <=> phase # "over")
        BY <1>2 DEF Phases
    <2>2. /\ Len(script) <= MaxItems /\ dialled \in 0..Candidates /\ got \in Nat
          /\ at \in 0..got /\ remaining \in Nat /\ budget \in Nat
        BY <1>2, <1>3, <1>4, HttpLimits
    <2>3. QED
        BY <1>2, <1>4, <2>1, <2>2 DEF HttpTypeOK
<1>6. ItemsOK(head.len, script) /\ EndOfStream = head.len /\ Lined(script)
    BY <1>2, <1>3, <1>4 DEF ItemsOK, ItemAt, StreamEnd, EndOfStream, Lined
<1>7. Taken(body, at, Bytes(Framing, head, got, script))
    <2>1. ASSUME NEW p \in Nat, p <= at PROVE p \notin Bytes(Framing, head, got, script)
        <3>1. p = 0 /\ ~(head.len < p) /\ ~InChunk(script, p)
            BY <1>2, <1>3, <1>4, <2>1 DEF InChunk
        <3>2. QED
            BY <3>1 DEF Bytes
    <2>2. body \in Seq(Nat)
        BY <1>2
    <2>3. QED
        BY <1>4, <2>1, <2>2 DEF Taken
<1>8. PhaseInv
    BY <1>2 DEF PhaseInv, Reading, ChunkPhases
<1>9. got <= EndOfStream
    BY <1>2, <1>3, <1>6
<1>10. QED
    BY <1>5, <1>6, <1>7, <1>8, <1>9 DEF HttpInv

(* A step that changes nothing keeps the invariant.                        *)
LEMMA HttpStutters == HttpInv /\ UNCHANGED httpVars => HttpInv'
<1>1. SUFFICES ASSUME HttpInv, UNCHANGED httpVars PROVE HttpInv'
    OBVIOUS
<1>2. /\ UNCHANGED <<req, dialled, announced, head, script, phase, got, closed, at, remaining,
                     budget, body, outcome, fault>>
    BY <1>1 DEF httpVars, asked, socket, reader
<1>3. /\ Framing' = Framing /\ (Ambiguous' <=> Ambiguous) /\ (Complete' <=> Complete)
      /\ (Acceptable' <=> Acceptable) /\ (SendsBody' <=> SendsBody) /\ Lengths' = Lengths
      /\ EndOfStream' = EndOfStream /\ Candidates' = Candidates
      /\ \A p \in Nat : IsBody(p)' <=> IsBody(p)
    BY <1>2, ShowsStay
<1>4. (OkShows => OkShows') /\ (ErrorShows => ErrorShows')
    BY <1>2, <1>3 DEF OkShows, ErrorShows
<1>5. \A c \in 1..(Len(script) + 1) : InChunked(c) => InChunked(c)'
    BY <1>2 DEF InChunked
<1>6. PhaseInv'
    BY <1>1, <1>2, <1>3, <1>4, <1>5 DEF HttpInv, PhaseInv
<1>7. QED
    BY <1>1, <1>2, <1>3, <1>6 DEF HttpInv, HttpTypeOK

(* The reader's place in the stream: while a body is read, the items       *)
(* before its place were legal, and the bytes handed over are those of the *)
(* body up to it; a request that is over shows a whole answer or a cause.  *)
THEOREM HttpInvariance == HttpSpec => []HttpInv
<1>1. HttpInit => HttpInv
    BY HttpStarts
<1>2. HttpInv /\ [HttpNext]_httpVars => HttpInv'
    <2>1. HttpInv /\ Client => HttpInv'
        BY AdmitHttp, DialHttp, NoAddressHttp, WriteHttp, ReceivedHttp, HeadCutHttp,
           ParseHeadHttp, ReadFailsHttp, ExactEndsHttp, BodyCutHttp, ReadToCloseHttp,
           ReadSizeHttp, ReadCrlfHttp, ReadTrailerHttp, ReceiveHttp, ReadHeadHttp,
           PullHttp, ReadExactHttp, ReadDataHttp DEF Client
    <2>2. HttpInv /\ Server => HttpInv'
        BY PeerClosesHttp, ServerSendsHttp DEF Server
    <2>3. HttpInv /\ Over => HttpInv'
        BY HttpStutters DEF Over
    <2>4. QED
        BY <2>1, <2>2, <2>3, HttpStutters DEF HttpNext
<1>3. QED
    BY <1>1, <1>2, PTL DEF HttpSpec

(* What the invariant says of the bytes handed over and of the outcome.    *)
LEMMA HttpInvIsExact == HttpInv => OutcomeIsExact
<1>1. SUFFICES ASSUME HttpInv PROVE OutcomeIsExact
    OBVIOUS
<1>2. /\ head \in Heads /\ at \in Nat /\ ItemsOK(head.len, script)
      /\ Taken(body, at, Bytes(Framing, head, got, script)) /\ PhaseInv
    BY <1>1 DEF HttpInv, HttpTypeOK
<1>3. head.len \in Nat
    BY <1>2, HeadIs
<1>4. body \in Seq(Nat) /\ \A i \in 1..(Len(body) - 1) : body[i] < body[i + 1]
    BY <1>2 DEF Taken
<1>5. \A p \in Nat : (\E i \in 1..Len(body) : body[i] = p) <=> IsBody(p) /\ p <= at
    BY <1>2, BytesAreBody DEF Taken
<1>6. ASSUME NEW p \in Nat, IsBody(p) PROVE p > 0
    <2>1. CASE head.len < p
        BY <1>3, <2>1
    <2>2. CASE InChunk(script, p)
        <3>1. PICK k \in 1..Len(script) : script[k].start + script[k].line < p
            BY <2>2 DEF InChunk
        <3>2. script[k] \in SentItem
            BY <1>2, <1>3, ItemsReach
        <3>3. script[k].start \in Nat /\ script[k].line \in Nat
            BY <3>2, ItemIs
        <3>4. QED
            BY <3>1, <3>3
    <2>3. QED
        BY <1>6, <2>1, <2>2 DEF IsBody
<1>7. ToSet(body) = {p \in 1..at : IsBody(p)}
    <2>1. ToSet(body) = {body[i] : i \in 1..Len(body)}
        BY <1>4, LenProperties DEF ToSet
    <2>2. \A i \in 1..Len(body) : body[i] \in Nat
        BY <1>4, ElementOfSeq
    <2>3. ASSUME NEW i \in 1..Len(body) PROVE body[i] \in 1..at /\ IsBody(body[i])
        <3>1. body[i] \in Nat
            BY <2>2
        <3>2. IsBody(body[i]) /\ body[i] <= at
            BY <1>5, <3>1
        <3>3. body[i] > 0
            BY <1>6, <3>1, <3>2
        <3>4. QED
            BY <1>2, <3>1, <3>2, <3>3
    <2>4. ASSUME NEW p \in 1..at, IsBody(p) PROVE \E i \in 1..Len(body) : body[i] = p
        <3>1. p \in Nat /\ p <= at
            BY <1>2
        <3>2. QED
            BY <1>5, <2>4, <3>1
    <2>5. QED
        BY <2>1, <2>3, <2>4
<1>8. ASSUME outcome = "ok"
      PROVE  /\ head.status /\ ~Ambiguous /\ Complete
             /\ \A p \in 1..EndOfStream : IsBody(p) => p <= at
             /\ SendsBody => announced = <<req.body>>
             /\ Framing = "size" =>
                   \A k \in 1..Len(script) : script[k].start < at => Legal(script, k)
    <2>1. OkShows
        BY <1>2, <1>8 DEF PhaseInv
    <2>2. \A p \in 1..EndOfStream : p \in Nat
        <3>1. EndOfStream \in Nat
            BY <1>2, <1>3, ItemsReach DEF EndOfStream
        <3>2. QED
            BY <3>1
    <2>3. QED
        BY <2>1, <2>2 DEF OkShows
<1>9. outcome = "error" => fault \/ (closed /\ ~Complete) \/ ~Acceptable
    BY <1>2 DEF PhaseInv, ErrorShows
<1>10. QED
    BY <1>4, <1>7, <1>8, <1>9 DEF OutcomeIsExact

(* A request that succeeds handed over exactly the body of a whole, legal  *)
(* answer, and one that fails has a cause, for every head, item, request   *)
(* and limit and however the stream is cut into pieces.                    *)
THEOREM OutcomeStaysExact == HttpSpec => []OutcomeIsExact
    BY HttpInvariance, HttpInvIsExact, PTL

(* What the invariant says of the bytes held.                              *)
LEMMA HttpInvIsBounded == HttpInv => MemoryIsBounded
<1>1. SUFFICES ASSUME HttpInv PROVE MemoryIsBounded
    OBVIOUS
<1>2. HttpTypeOK /\ PhaseInv
    BY <1>1 DEF HttpInv
<1>3. /\ phase = "head" => got <= MaxHead
      /\ phase = "parse" /\ req.streaming => got <= MaxHead + Piece
      /\ phase = "receive" => got <= MaxTotal
    BY <1>2 DEF PhaseInv
<1>4. ASSUME phase = "trailers"
      PROVE  \E l \in 1..Len(script) : /\ script[l].kind = "last" /\ EndOf(script[l]) <= at
                                       /\ at - EndOf(script[l]) <= MaxMeta
    <2>1. phase \in ChunkPhases
        BY <1>4 DEF ChunkPhases
    <2>2. /\ Framing = "size" /\ Len(script) \in Nat /\ at \in Nat /\ budget \in Nat
          /\ \E c \in 1..(Len(script) + 1) : InChunked(c)
        BY <1>1, <2>1, ReaderAt
    <2>3. PICK c \in 1..(Len(script) + 1) : InChunked(c)
        BY <2>2
    <2>4. AtTrailers(head.len, script, c, at, budget)
        BY <1>4, <2>3 DEF InChunked
    <2>5. \A k \in 1..(c - 1) : k \in 1..Len(script)
        BY <2>2
    <2>6. \A k \in 1..(c - 1) : EndOf(script[k]) \in Nat
        BY <1>1, <2>2, <2>5, ItemHere
    <2>7. PICK l \in 1..(c - 1) : /\ script[l].kind = "last" /\ EndOf(script[l]) <= at
                                  /\ at - EndOf(script[l]) <= MaxMeta
        BY <2>2, <2>4, <2>6, TrailersLeave
    <2>8. QED
        BY <2>5, <2>7
<1>5. QED
    BY <1>2, <1>3, <1>4 DEF MemoryIsBounded

(* No server makes the client hold more than its limits: of a head, of a   *)
(* buffered answer, or of all the trailers of a chunked body together.     *)
THEOREM HttpMemoryStaysBounded == HttpSpec => []MemoryIsBounded
    BY HttpInvariance, HttpInvIsBounded, PTL
=============================================================================
