----------------------------- MODULE MCExecutor -----------------------------
(***************************************************************************)
(* Runtime, with one task of each kind, and Watchdog, with the firmware's  *)
(* own numbers in units of 250 ms, for TLC.  Runtime knows no durations    *)
(* and Watchdog no tasks but the feeder, so a behaviour is one of Runtime  *)
(* or one of Watchdog, with the fairness of that module.                   *)
(***************************************************************************)
EXTENDS Runtime, Watchdog

CONSTANTS d, r, c, f

AllTasks == {d, r, c, f}
KindOf   == [t \in AllTasks |-> CASE t = d -> "download" [] t = r -> "reply"
                                  [] t = c -> "crypto" [] t = f -> "fetch"]

VARIABLE part

OfRuntime(A)  == part = "runtime" /\ A /\ UNCHANGED <<watchdogVars, part>>
OfWatchdog(A) == part = "watchdog" /\ A /\ UNCHANGED <<vars, part>>

all == <<vars, watchdogVars, part>>

(* The gate makes no difference to the watchdog.                           *)
ExecutorInit ==
    /\ Init /\ WatchdogInit
    /\ part \in {"runtime"} \cup (IF gated THEN {"watchdog"} ELSE {})

ExecutorNext == OfRuntime(Next) \/ OfWatchdog(WatchdogNext)

ExecutorSpec ==
    /\ ExecutorInit /\ [][ExecutorNext]_all
    /\ \A t \in Tasks : SF_all(OfRuntime(Step(Proceeds(t))))
    /\ WF_all(OfRuntime(Step(FetchEnds))) /\ WF_all(OfRuntime(Step(Worker)))
    /\ WF_all(OfWatchdog(Stuck))
=============================================================================
