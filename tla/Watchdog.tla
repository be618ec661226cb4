------------------------------ MODULE Watchdog ------------------------------
(***************************************************************************)
(* The task watchdog of wa-main: run_executor subscribes the executor      *)
(* thread, and feed_task_watchdog, a task on that executor, feeds it.  The *)
(* feeder may fail to feed, to create its timer service or its timer, or   *)
(* to arm the timer; it retries, and gives the watchdog up in the end.     *)
(* The other tasks block the thread they share with it, an HTTP fetch for  *)
(* as long as HTTP_IO_TIMEOUT in every socket call.                        *)
(*                                                                         *)
(* Time is counted in ERROR_RETRY_DELAYs of 250 ms.                        *)
(***************************************************************************)
EXTENDS Naturals

CONSTANTS
    FeedInterval,  \* FEED_INTERVAL, 5 s
    MaxFailures,   \* MAX_CONSECUTIVE_FAILURES
    Timeout,       \* CONFIG_ESP_TASK_WDT_TIMEOUT_S, 30 s
    SocketTimeout, \* HTTP_IO_TIMEOUT, 30 s
    Stalls         \* how long a call that blocks the executor may take

ASSUME WatchdogAssumption ==
    /\ {FeedInterval, MaxFailures, Timeout, SocketTimeout} \subseteq Nat \ {0}
    /\ FeedInterval < Timeout
    /\ Stalls \subseteq 1..SocketTimeout

VARIABLES
    armed,           \* the watchdog knows wa-main
    age,             \* time since it was fed
    rang,            \* it reported wa-main
    wedged,          \* some other task never returns to the executor
    stage,           \* the feeder
    fed,             \* this cycle's esp_task_wdt_reset succeeded
    service, timer,  \* the feeder's timer service and timer exist
    failures,
    waited,          \* time since the feeder set its timer
    held             \* history: back-offs since the executor last ran another task

dog          == <<armed, age, rang>>
feeder       == <<fed, service, timer, failures>>
watchdogVars == <<dog, wedged, stage, feeder, waited, held>>

UpTo(bound, time) == IF time >= bound THEN bound ELSE time

WatchdogTypeOK ==
    /\ {armed, rang, wedged, fed, service, timer} \subseteq BOOLEAN
    /\ age \in 0..Timeout
    /\ stage \in {"boot", "feed", "timer", "asleep", "check", "ended"}
    /\ failures \in 0..(MaxFailures + 1) /\ waited \in 0..Timeout
    /\ held \in Nat

(* The feeder's two creations at its start are the first round's.          *)
WatchdogInit ==
    /\ armed = FALSE /\ age = 0 /\ rang = FALSE /\ wedged = FALSE
    /\ stage = "boot" /\ fed = FALSE /\ service = FALSE /\ timer = FALSE
    /\ failures = 0 /\ waited = 0 /\ held = 0

(* Time passes: an armed watchdog that is not fed for Timeout rings.       *)
Passes(time) ==
    /\ age' = IF armed THEN UpTo(Timeout, age + time) ELSE age
    /\ rang' = (rang \/ (armed /\ age' = Timeout))
    /\ UNCHANGED armed

-----------------------------------------------------------------------------
(* run_executor: subscribed; no watchdog to subscribe to (INVALID_STATE,   *)
(* which is taken for success); or refused, and no feeder is spawned.      *)
Register ==
    /\ stage = "boot"
    /\ \/ armed' \in BOOLEAN /\ stage' = "feed"
       \/ armed' = FALSE /\ stage' = "ended"
    /\ age' = 0
    /\ UNCHANGED <<rang, wedged, feeder, waited, held>>

(* esp_task_wdt_reset, which fails for a thread that is not subscribed.    *)
Feed ==
    /\ stage = "feed"
    /\ fed' = armed
    /\ age' = IF armed THEN 0 ELSE age
    /\ failures' = IF armed THEN failures ELSE failures + 1
    /\ stage' = "timer"
    /\ UNCHANGED <<armed, rang, wedged, service, timer, waited, held>>

(* Create what is missing, each of which may fail, then arm the timer and  *)
(* await it.                                                               *)
SetTimer ==
    /\ stage = "timer"
    /\ service' \in {TRUE, service} /\ timer' \in {TRUE, timer}
    /\ timer' => service'
    /\ timer' /\ stage' = "asleep" /\ waited' = 0 /\ held' = 0
    /\ UNCHANGED <<dog, wedged, fed, failures>>

TimerFails ==
    /\ stage = "timer"
    /\ service' \in {TRUE, service} /\ timer' \in {TRUE, timer}
    /\ timer' => service'
    /\ failures' = failures + 1
    /\ stage' = "check"
    /\ UNCHANGED <<dog, wedged, fed, waited, held>>

(* The timer fires and the executor comes back to the feeder, at once or   *)
(* after the calls that block it; a cycle that was all right starts the    *)
(* count afresh.                                                           *)
Wakes ==
    /\ stage = "asleep" /\ ~wedged
    /\ failures' = IF fed THEN 0 ELSE failures
    /\ Passes(IF waited < FeedInterval THEN FeedInterval - waited ELSE 0)
    /\ stage' = IF fed THEN "feed" ELSE "check"
    /\ UNCHANGED <<wedged, fed, service, timer, waited, held>>

(* thread::sleep, on the executor's thread, then the next round: the       *)
(* poll_fn that follows is ready at once.                                  *)
Retry ==
    /\ stage = "check" /\ failures < MaxFailures
    /\ Passes(1)
    /\ held' = held + 1
    /\ stage' = "feed"
    /\ UNCHANGED <<wedged, feeder, waited>>

(* Faulty variant: the feeder just leaves.                                 *)
GivesUpArmed ==
    /\ stage = "check" /\ failures >= MaxFailures
    /\ stage' = "ended"
    /\ UNCHANGED <<dog, wedged, feeder, waited, held>>

(* esp_task_wdt_delete, then return.                                       *)
GivesUp ==
    /\ stage = "check" /\ failures >= MaxFailures
    /\ armed' = FALSE
    /\ stage' = "ended"
    /\ UNCHANGED <<age, rang, wedged, feeder, waited, held>>

-----------------------------------------------------------------------------
(* The rest of the firmware.                                               *)

(* EspHttpClient::execute: a socket call, one of any number, blocks the    *)
(* executor while the feeder waits; so does run_maintenance's sleep after  *)
(* a failed erase.                                                         *)
Blocks(time) ==
    /\ stage = "asleep" /\ ~wedged
    /\ Passes(time)
    /\ waited' = UpTo(Timeout, waited + time)
    /\ UNCHANGED <<wedged, stage, feeder, held>>

(* While the feeder waits, another task's poll never returns.              *)
Wedge ==
    /\ stage \in {"asleep", "ended"} /\ ~wedged
    /\ wedged' = TRUE
    /\ UNCHANGED <<dog, stage, feeder, waited, held>>

(* Faulty variant: the timer's own thread feeds, whoever is stuck.         *)
StuckIsFed ==
    wedged /\ age' = 0 /\ UNCHANGED <<armed, rang, wedged, stage, feeder, waited, held>>

(* Time goes on without the feeder.                                        *)
Stuck ==
    /\ wedged \/ stage = "ended"
    /\ Passes(1)
    /\ UNCHANGED <<wedged, stage, feeder, waited, held>>

WatchdogNext ==
    \/ Register \/ Feed \/ SetTimer \/ TimerFails \/ Wakes \/ Retry \/ GivesUp
    \/ \E time \in Stalls : Blocks(time)
    \/ Wedge \/ Stuck

(* Time passes.                                                            *)
WatchdogSpec == WatchdogInit /\ [][WatchdogNext]_watchdogVars /\ WF_watchdogVars(Stuck)

-----------------------------------------------------------------------------
(* The watchdog reports wa-main only if the executor hangs, or other tasks *)
(* have kept it from a feeder that was due for all that was left of the    *)
(* timeout, in calls that block it.  Nothing that goes wrong in the feeder *)
(* itself is reported: no failing timer, no watchdog that is not there, no *)
(* back-off, and not the feeder that gives up and leaves.                  *)
AlarmHasCause == [][~rang /\ rang' => wedged \/ waited' = Timeout]_watchdogVars

(* An executor that never comes back is reported, unless the watchdog was  *)
(* given up or never there.                                                *)
WedgeIsReported == (wedged /\ armed) ~> rang

(* A retry will "back off briefly and yield to executor", as the comment   *)
(* above it says: the feeder never goes from one back-off into the next.   *)
RetryYields == held <= 1

(* What is left of that: the retries end, before MAX_CONSECUTIVE_FAILURES. *)
StarvationIsBounded == held < MaxFailures
=============================================================================
