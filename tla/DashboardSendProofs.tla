------------------------- MODULE DashboardSendProofs -------------------------
(***************************************************************************)
(* Proofs about DashboardSend for every number of requests and of client   *)
(* instances: the safety properties of POST /send, from one inductive      *)
(* invariant.                                                              *)
(***************************************************************************)
EXTENDS DashboardSend, FiniteSetTheorems, TLAPS

(* The timer's lock is a task's or nobody's.                               *)
TimerHeld == timer \in Requests \cup {NoOne}

(* Without PSRAM, whoever is past the gate holds it: that makes sending    *)
(* exclusive.                                                              *)
GateHeld ==
    /\ gate \in Requests \cup {NoOne, Other}
    /\ gated => \A r \in Requests : pc[r] \in {"admitted", "checked", "sending"} => gate = r

(* A result channel is written once, by the request's own task as it ends, *)
(* and says what became of the message.                                    *)
ResultIsOwn ==
    \A r \in Requests : /\ r \in delivered \/ result[r] # "none" => pc[r] = "done"
                        /\ r \in acked <=> result[r] = "ok"

(* The handler answers with a result only once there is one.               *)
AnswerIsResult ==
    \A r \in Requests : /\ reply[r] = "sent" => result[r] = "ok"
                        /\ reply[r] = "failed" => result[r] = "err"

(* A request given up in time has its flag up for the task's last look.    *)
GivenUpIsFlagged ==
    gaveUp \subseteq {r \in abandoned : pc[r] \in Waiting \cup {"done"} /\ r \notin delivered}

SendInv ==
    /\ TypeOK /\ TimerHeld /\ GateHeld
    /\ ResultIsOwn /\ AnswerIsResult /\ GivenUpIsFlagged

-----------------------------------------------------------------------------
(* A request comes in.                                                     *)
LEMMA RequestKeeps ==
    ASSUME SendInv, NEW r \in Requests, Request(r), UNCHANGED gated
    PROVE  SendInv'
<1> USE SendAssumption DEF SendInv, TypeOK, http, client, locks, tasks, sent, past, Request
<1>1. TypeOK'
  BY DEF Waiting
<1>2. TimerHeld'
  BY DEF TimerHeld
<1>3. GateHeld'
  BY DEF GateHeld
<1>4. ResultIsOwn'
  BY DEF ResultIsOwn
<1>5. AnswerIsResult'
  BY DEF AnswerIsResult, ResultIsOwn
<1>6. GivenUpIsFlagged'
  BY DEF GivenUpIsFlagged, Waiting
<1>7. QED BY <1>1, <1>2, <1>3, <1>4, <1>5, <1>6

(* The handler passes the result on.                                       *)
LEMMA ReplyKeeps ==
    ASSUME SendInv, Reply, UNCHANGED gated
    PROVE  SendInv'
<1> USE SendAssumption DEF SendInv, TypeOK, http, client, locks, tasks, sent, past, Reply
<1>1. TypeOK'
  OBVIOUS
<1>2. TimerHeld'
  BY DEF TimerHeld
<1>3. GateHeld'
  BY DEF GateHeld
<1>4. ResultIsOwn'
  BY DEF ResultIsOwn
<1>5. AnswerIsResult'
  BY DEF AnswerIsResult, ResultIsOwn
<1>6. GivenUpIsFlagged'
  BY DEF GivenUpIsFlagged
<1>7. QED BY <1>1, <1>2, <1>3, <1>4, <1>5, <1>6

(* The handler gives up.                                                   *)
LEMMA TimeoutKeeps ==
    ASSUME SendInv, Timeout, UNCHANGED gated
    PROVE  SendInv'
<1> USE SendAssumption DEF SendInv, TypeOK, http, client, locks, tasks, sent, past, Timeout
<1>1. TypeOK'
  OBVIOUS
<1>2. TimerHeld'
  BY DEF TimerHeld
<1>3. GateHeld'
  BY DEF GateHeld
<1>4. ResultIsOwn'
  BY DEF ResultIsOwn
<1>5. AnswerIsResult'
  BY DEF AnswerIsResult, ResultIsOwn
<1>6. GivenUpIsFlagged'
  BY DEF GivenUpIsFlagged, ResultIsOwn, Waiting
<1>7. QED BY <1>1, <1>2, <1>3, <1>4, <1>5, <1>6

(* A task ends without an acknowledgement, wherever it is: nothing was     *)
(* sent, or the send failed.                                               *)
LEMMA EndsKeeps ==
    ASSUME SendInv, NEW r \in Requests, NEW from \in Waiting \cup {"checked", "sending"},
           NEW outcome \in {"none", "err"}, Ends(r, from, outcome),
           UNCHANGED acked, UNCHANGED gated,
           \/ UNCHANGED delivered
           \/ from = "sending" /\ delivered' = delivered \cup {r}
    PROVE  SendInv'
<1> USE SendAssumption DEF SendInv, TypeOK, http, client, locks, tasks, sent, past,
        Ends, Runs, Release
<1>1. TypeOK'
  <2>1. timer' = NoOne \/ pc'[timer'] \in {"quiet", "report", "gate"}
    OBVIOUS
  <2>2. gate' \in {NoOne, Other} \/ pc'[gate'] \in {"admitted", "checked", "sending"}
    OBVIOUS
  <2>3. QED BY <2>1, <2>2
<1>2. TimerHeld'
  BY DEF TimerHeld
<1>3. GateHeld'
  BY DEF GateHeld
<1>4. ResultIsOwn'
  BY DEF ResultIsOwn, Waiting
<1>5. AnswerIsResult'
  BY DEF AnswerIsResult, ResultIsOwn, Waiting
<1>6. GivenUpIsFlagged'
  BY DEF GivenUpIsFlagged, ResultIsOwn, Waiting
<1>7. QED BY <1>1, <1>2, <1>3, <1>4, <1>5, <1>6

(* A task ends with an acknowledged message.                               *)
LEMMA SendOkKeeps ==
    ASSUME SendInv, NEW r \in Requests, SendOk(r), UNCHANGED gated
    PROVE  SendInv'
<1> USE SendAssumption DEF SendInv, TypeOK, http, client, locks, tasks, sent, past,
        SendOk, Ends, Runs, Release
<1>1. TypeOK'
  OBVIOUS
<1>2. TimerHeld'
  BY DEF TimerHeld
<1>3. GateHeld'
  BY DEF GateHeld
<1>4. ResultIsOwn'
  BY DEF ResultIsOwn
<1>5. AnswerIsResult'
  BY DEF AnswerIsResult, ResultIsOwn
<1>6. GivenUpIsFlagged'
  BY DEF GivenUpIsFlagged, ResultIsOwn, Waiting
<1>7. QED BY <1>1, <1>2, <1>3, <1>4, <1>5, <1>6

(* A task starts; only with PSRAM is it admitted at once.                  *)
LEMMA StartKeeps ==
    ASSUME SendInv, NEW r \in Requests, Start(r), UNCHANGED gated
    PROVE  SendInv'
<1> USE SendAssumption DEF SendInv, TypeOK, http, client, locks, tasks, sent, past, Start, Runs
<1>1. TypeOK'
  BY DEF TimerHeld, GateHeld, Waiting
<1>2. TimerHeld'
  BY DEF TimerHeld
<1>3. GateHeld'
  BY DEF GateHeld
<1>4. ResultIsOwn'
  BY DEF ResultIsOwn
<1>5. AnswerIsResult'
  BY DEF AnswerIsResult, ResultIsOwn
<1>6. GivenUpIsFlagged'
  BY DEF GivenUpIsFlagged, Waiting
<1>7. QED BY <1>1, <1>2, <1>3, <1>4, <1>5, <1>6

(* A task takes the timer.                                                 *)
LEMMA LockTimerKeeps ==
    ASSUME SendInv, NEW r \in Requests, LockTimer(r), UNCHANGED gated
    PROVE  SendInv'
<1> USE SendAssumption DEF SendInv, TypeOK, http, client, locks, tasks, sent, past, LockTimer, Runs
<1>1. TypeOK'
  BY DEF Waiting
<1>2. TimerHeld'
  BY DEF TimerHeld
<1>3. GateHeld'
  BY DEF GateHeld
<1>4. ResultIsOwn'
  BY DEF ResultIsOwn
<1>5. AnswerIsResult'
  BY DEF AnswerIsResult, ResultIsOwn
<1>6. GivenUpIsFlagged'
  BY DEF GivenUpIsFlagged, Waiting
<1>7. QED BY <1>1, <1>2, <1>3, <1>4, <1>5, <1>6

(* A task waits for its quiet moment.                                      *)
LEMMA QuietKeeps ==
    ASSUME SendInv, NEW r \in Requests, QuietLook(r) \/ QuietReady(r) \/ QuietTick(r),
           UNCHANGED gated
    PROVE  SendInv'
<1> USE SendAssumption DEF SendInv, TypeOK, http, client, locks, tasks, sent, past,
        QuietLook, QuietReady, QuietTick, Runs
<1>1. TypeOK'
  BY DEF TimerHeld, GateHeld, Waiting
<1>2. TimerHeld'
  BY DEF TimerHeld
<1>3. GateHeld'
  BY DEF GateHeld
<1>4. ResultIsOwn'
  BY DEF ResultIsOwn
<1>5. AnswerIsResult'
  BY DEF AnswerIsResult, ResultIsOwn
<1>6. GivenUpIsFlagged'
  BY DEF GivenUpIsFlagged, Waiting
<1>7. QED BY <1>1, <1>2, <1>3, <1>4, <1>5, <1>6

(* A task takes the free gate.                                             *)
LEMMA GateAcquiredKeeps ==
    ASSUME SendInv, NEW r \in Requests, GateAcquired(r), UNCHANGED gated
    PROVE  SendInv'
<1> USE SendAssumption DEF SendInv, TypeOK, http, client, locks, tasks, sent, past,
        GateAcquired, Runs, Release
<1>1. TypeOK'
  BY DEF Waiting
<1>2. TimerHeld'
  BY DEF TimerHeld
<1>3. GateHeld'
  BY DEF GateHeld
<1>4. ResultIsOwn'
  BY DEF ResultIsOwn
<1>5. AnswerIsResult'
  BY DEF AnswerIsResult, ResultIsOwn
<1>6. GivenUpIsFlagged'
  BY DEF GivenUpIsFlagged, Waiting
<1>7. QED BY <1>1, <1>2, <1>3, <1>4, <1>5, <1>6

(* A task's last look at the flag.                                         *)
LEMMA PassesKeeps ==
    ASSUME SendInv, NEW r \in Requests, Passes(r), UNCHANGED gated
    PROVE  SendInv'
<1> USE SendAssumption DEF SendInv, TypeOK, http, client, locks, tasks, sent, past,
        Passes, PassesIf, Runs
<1>1. TypeOK'
  OBVIOUS
<1>2. TimerHeld'
  BY DEF TimerHeld
<1>3. GateHeld'
  BY DEF GateHeld
<1>4. ResultIsOwn'
  BY DEF ResultIsOwn
<1>5. AnswerIsResult'
  BY DEF AnswerIsResult, ResultIsOwn
<1>6. GivenUpIsFlagged'
  BY DEF GivenUpIsFlagged
<1>7. QED BY <1>1, <1>2, <1>3, <1>4, <1>5, <1>6

(* A task starts to send.                                                  *)
LEMMA BeginKeeps ==
    ASSUME SendInv, NEW r \in Requests, Begin(r), UNCHANGED gated
    PROVE  SendInv'
<1> USE SendAssumption DEF SendInv, TypeOK, http, client, locks, tasks, sent, past, Begin, Runs
<1>1. TypeOK'
  OBVIOUS
<1>2. TimerHeld'
  BY DEF TimerHeld
<1>3. GateHeld'
  BY DEF GateHeld
<1>4. ResultIsOwn'
  BY DEF ResultIsOwn
<1>5. AnswerIsResult'
  BY DEF AnswerIsResult, ResultIsOwn
<1>6. GivenUpIsFlagged'
  BY DEF GivenUpIsFlagged, Waiting
<1>7. QED BY <1>1, <1>2, <1>3, <1>4, <1>5, <1>6

(* The gate's other users.                                                 *)
LEMMA OtherKeeps ==
    ASSUME SendInv, OtherAcquires \/ OtherReleases, UNCHANGED gated
    PROVE  SendInv'
<1> USE SendAssumption DEF SendInv, TypeOK, http, client, locks, tasks, sent, past,
        OtherAcquires, OtherReleases
<1>1. TypeOK'
  OBVIOUS
<1>2. TimerHeld'
  BY DEF TimerHeld
<1>3. GateHeld'
  BY DEF GateHeld
<1>4. ResultIsOwn'
  BY DEF ResultIsOwn
<1>5. AnswerIsResult'
  BY DEF AnswerIsResult, ResultIsOwn
<1>6. GivenUpIsFlagged'
  BY DEF GivenUpIsFlagged
<1>7. QED BY <1>1, <1>2, <1>3, <1>4, <1>5, <1>6

(* A client is set, cleared, logged in or out.                             *)
LEMMA ClientKeeps ==
    ASSUME SendInv, ClientSet \/ ClientCleared \/ \E c \in Clients : LoginChanges(c),
           UNCHANGED gated
    PROVE  SendInv'
<1> USE SendAssumption DEF SendInv, TypeOK, http, client, locks, tasks, sent, past,
        ClientSet, ClientCleared, LoginChanges
<1>1. TypeOK'
  <2>1. active' \in BOOLEAN
    BY Zenon
  <2>2. latest' \in 0..MaxClients
    OBVIOUS
  <2>3. online' \subseteq Clients
    OBVIOUS
  <2>4. QED BY <2>1, <2>2, <2>3
<1>2. TimerHeld'
  BY DEF TimerHeld
<1>3. GateHeld'
  BY DEF GateHeld
<1>4. ResultIsOwn'
  BY DEF ResultIsOwn
<1>5. AnswerIsResult'
  BY DEF AnswerIsResult, ResultIsOwn
<1>6. GivenUpIsFlagged'
  BY DEF GivenUpIsFlagged
<1>7. QED BY <1>1, <1>2, <1>3, <1>4, <1>5, <1>6

-----------------------------------------------------------------------------
(* A step that changes nothing.                                            *)
LEMMA StutterKeeps ==
    ASSUME SendInv, UNCHANGED vars
    PROVE  SendInv'
BY DEF SendInv, vars, http, client, locks, tasks, sent, past, TypeOK, TimerHeld, GateHeld,
       ResultIsOwn, AnswerIsResult, GivenUpIsFlagged

(* Every step of a request's task.                                         *)
LEMMA TaskKeeps ==
    ASSUME SendInv, NEW r \in Requests, Task(r), UNCHANGED gated
    PROVE  SendInv'
<1>1. CASE QuietCancelled(r) \/ GateCancelled(r) \/ Abandons(r) \/ TimerFails(r)
  BY <1>1, EndsKeeps DEF QuietCancelled, GateCancelled, Abandons, TimerFails, Waiting, sent
<1>2. CASE Superseded(r) \/ SendFails(r)
  BY <1>2, EndsKeeps DEF Superseded, SendFails, sent
<1>3. CASE Start(r) \/ LockTimer(r) \/ QuietLook(r) \/ QuietReady(r) \/ QuietTick(r)
  BY <1>3, StartKeeps, LockTimerKeeps, QuietKeeps
<1>4. CASE GateAcquired(r) \/ Passes(r) \/ Begin(r) \/ SendOk(r)
  BY <1>4, GateAcquiredKeeps, PassesKeeps, BeginKeeps, SendOkKeeps
<1>5. QED BY <1>1, <1>2, <1>3, <1>4 DEF Task, Progress

(* SendInv, the inductive strengthening of the safety properties, holds in *)
(* every reachable state of the handler, its tasks and the gate's users.   *)
THEOREM SendInvariance == Spec => []SendInv
<1>1. Init => SendInv
  <2> SUFFICES ASSUME Init PROVE SendInv
    OBVIOUS
  <2>1. gated \in BOOLEAN /\ active \in BOOLEAN
    BY Zenon DEF Init
  <2>2. TypeOK
    BY <2>1, SendAssumption DEF Init, TypeOK
  <2>3. TimerHeld /\ GateHeld /\ ResultIsOwn /\ AnswerIsResult /\ GivenUpIsFlagged
    BY DEF Init, TimerHeld, GateHeld, ResultIsOwn, AnswerIsResult, GivenUpIsFlagged
  <2>4. QED BY <2>2, <2>3 DEF SendInv
<1>2. SendInv /\ [Next]_vars => SendInv'
  <2> SUFFICES ASSUME SendInv, [Next]_vars PROVE SendInv'
    OBVIOUS
  <2>1. CASE UNCHANGED vars
    BY <2>1, StutterKeeps
  <2>2. CASE Next
    BY <2>2, ReplyKeeps, TimeoutKeeps, RequestKeeps, TaskKeeps, OtherKeeps, ClientKeeps DEF Next
  <2>3. QED BY <2>1, <2>2
<1>3. QED BY <1>1, <1>2, PTL DEF Spec

(* POST /send answers 200 only for a message the server acknowledged and   *)
(* 502 only for one it did not, however many tasks of abandoned requests   *)
(* finish in between (admin.rs, the /send handler).                        *)
THEOREM AnswersAreTrue == Spec => []ReplyIsTruthful
<1>1. SendInv => ReplyIsTruthful
  BY DEF SendInv, ResultIsOwn, AnswerIsResult, ReplyIsTruthful
<1>2. QED BY <1>1, SendInvariance, PTL

(* A request that timed out while its task waited for admission is never   *)
(* sent afterwards (admin.rs, the abandoned flag).                         *)
THEOREM AbandonedIsNotSent == Spec => []GivenUpIsNotSent
<1>1. SendInv => GivenUpIsNotSent
  BY DEF SendInv, GivenUpIsFlagged, GivenUpIsNotSent, Waiting
<1>2. QED BY <1>1, SendInvariance, PTL

(* At most one task is sending on a board without PSRAM.                   *)
LEMMA OneSends ==
    ASSUME SendInv, gated
    PROVE  Cardinality({r \in Requests : pc[r] = "sending"}) <= 1
<1> DEFINE S == {r \in Requests : pc[r] = "sending"}
<1>1. S \in SUBSET {gate}
  BY DEF SendInv, GateHeld
<1>2. IsFiniteSet({gate}) /\ Cardinality({gate}) = 1
  BY FS_Singleton
<1>3. Cardinality(S) <= Cardinality({gate})
  BY <1>1, <1>2, FS_Subset
<1>4. QED BY <1>2, <1>3

(* The memory gate lets one heavy operation run at a time, for any number  *)
(* of requests and client replacements (admin.rs, http_client.rs).         *)
THEOREM HeavyOperationsExclude == Spec => []OneHeavyOperation
<1>1. SendInv => OneHeavyOperation
  BY OneSends, SendAssumption DEF SendInv, GateHeld, OneHeavyOperation
<1>2. QED BY <1>1, SendInvariance, PTL
=============================================================================
