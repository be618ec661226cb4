------------------------- MODULE DeviceStatusProofs -------------------------
(***************************************************************************)
(* Proofs about DeviceStatus for every number of client instances, pairing *)
(* attempts, messages per batch and capacity of the log.  The invariant    *)
(* has two halves, one for what is shown of the client and one for pairing *)
(* by code, and each half is left alone by the other's actions.            *)
(***************************************************************************)
EXTENDS DeviceStatus, SequenceTheorems, TLAPS

(* What is shown of the client, typed.                                     *)
StatusTypes ==
    /\ latest \in 0..MaxClients /\ active \in BOOLEAN
    /\ sup \in {"delay", "run", "parked", "unlinked"}
    /\ outcome \in Restart..ResetCredentials
    /\ online \subseteq Clients /\ stored \in BOOLEAN /\ idle \in BOOLEAN
    /\ batch \in [Clients -> 0..(MaxBatch - 1)]
    /\ qr \in BOOLEAN /\ connected \in BOOLEAN /\ account \in 0..latest

(* The message log, typed; only a client that was built has a batch.       *)
LogIsBounded ==
    /\ log \in Seq(1..latest) /\ Len(log) <= LogCap
    /\ \A c \in Clients : batch[c] > 0 => c <= latest

(* Only the instance being run is active or connected, and the account of  *)
(* an unlinked device is gone.                                             *)
ShownIsRunning ==
    /\ active => sup = "run"
    /\ connected => sup = "run" /\ account = latest
    /\ sup = "unlinked" => account = 0

StatusInv == StatusTypes /\ LogIsBounded /\ ShownIsRunning

(* An attempt that was reserved and has not ended.                         *)
Live(r) == pc[r] \in {"begun", "socket", "pairing", "issued"}

(* An attempt whose request is with the server.                            *)
AtServer(r) == pc[r] \in {"pairing", "issued"}

PairTypes ==
    /\ pair \in [state : {"idle", "pending", "ready", "expired", "error"}, id : 0..attempts]
    /\ looked \in 0..MaxAttempts /\ attempts \in 0..MaxAttempts
    /\ pc \in [Attempts -> {"none", "looked", "begun", "socket", "pairing", "issued", "done"}]
    /\ via \in [Attempts -> 0..latest] /\ issued \in 0..attempts

(* The httpd thread reserves the attempt after the last one.               *)
ReservesNext ==
    looked # 0 => \/ pc[looked] = "looked" /\ looked = attempts + 1
                  \/ pc[looked] = "begun" /\ looked = attempts

(* An attempt under way was counted, and is the one that is pending unless *)
(* a login has cleared it: then the device is linked for good.             *)
LiveIsPending ==
    \A r \in Attempts : Live(r) => /\ r <= attempts
                                   /\ pair = [state |-> "pending", id |-> r] \/ stored

(* One attempt at most is with the server, and no code is shown meanwhile. *)
OneAtServer ==
    /\ \A q, r \in Attempts : AtServer(q) /\ AtServer(r) => q = r
    /\ \A r \in Attempts : AtServer(r) => pair.state # "ready"

(* A code that came back, or is shown, is the newest.                      *)
CodeIsNewest ==
    /\ \A r \in Attempts : pc[r] = "issued" => issued = r
    /\ pair.state = "ready" => pair.id = issued

PairingInv == PairTypes /\ ReservesNext /\ LiveIsPending /\ OneAtServer /\ CodeIsNewest

DeviceInv == StatusInv /\ PairingInv

-----------------------------------------------------------------------------
(* What leaves pairing alone, unlinks nothing and only adds client         *)
(* instances keeps the half that is about pairing.                         *)
LEMMA PairingUntouched ==
    ASSUME StatusTypes, PairingInv, UNCHANGED <<pair, tasks>>,
           stored => stored', latest' \in Nat, latest' >= latest
    PROVE  PairingInv'
<1> USE StatusAssumption DEF PairingInv, tasks, Live, AtServer
<1>1. PairTypes'
  BY DEF PairTypes, StatusTypes
<1>2. LiveIsPending'
  BY DEF LiveIsPending
<1>3. ReservesNext' /\ OneAtServer' /\ CodeIsNewest'
  BY DEF ReservesNext, OneAtServer, CodeIsNewest
<1>4. QED BY <1>1, <1>2, <1>3

(* Pairing leaves alone what is shown of the client.                       *)
LEMMA StatusUntouched ==
    ASSUME StatusInv, UNCHANGED <<run, facts, batch, shown>>
    PROVE  StatusInv'
BY DEF StatusInv, StatusTypes, LogIsBounded, ShownIsRunning, run, facts, shown

-----------------------------------------------------------------------------
(* Events that only change flags.                                          *)
LEMMA FlagEventKeeps ==
    ASSUME DeviceInv, NEW c \in Clients,
           HandleQr(c) \/ HandleExhausted(c) \/ HandleDisconnected(c)
    PROVE  DeviceInv'
<1> USE DEF DeviceInv, StatusInv, HandleQr, HandleExhausted, HandleDisconnected, run, facts
<1>1. StatusTypes'
  <2>1. {qr, connected}' \subseteq BOOLEAN
    BY Zenon DEF StatusTypes
  <2>2. QED BY <2>1 DEF StatusTypes
<1>2. LogIsBounded'
  BY DEF LogIsBounded
<1>3. ShownIsRunning'
  BY DEF ShownIsRunning
<1>4. PairingInv'
  BY PairingUntouched DEF StatusTypes
<1>5. QED BY <1>1, <1>2, <1>3, <1>4

(* Connecting shows the running instance's account and ends pairing: the   *)
(* device is linked.                                                       *)
LEMMA ConnectedKeeps ==
    ASSUME DeviceInv, NEW c \in Clients, HandleConnected(c)
    PROVE  DeviceInv'
<1> USE DEF DeviceInv, StatusInv, HandleConnected, Takes, Current, run, facts
<1>1. StatusTypes'
  <2>1. {qr, connected}' \subseteq BOOLEAN
    BY Zenon
  <2>2. QED BY <2>1 DEF StatusTypes
<1>2. LogIsBounded'
  BY DEF LogIsBounded
<1>3. ShownIsRunning'
  BY DEF ShownIsRunning
<1>4. PairingInv'
  <2> USE DEF PairingInv, tasks, Idle, Live, AtServer
  <2>1. PairTypes'
    BY StatusAssumption DEF PairTypes
  <2>2. LiveIsPending'
    BY DEF LiveIsPending
  <2>3. ReservesNext' /\ OneAtServer' /\ CodeIsNewest'
    BY DEF ReservesNext, OneAtServer, CodeIsNewest
  <2>4. QED BY <2>1, <2>2, <2>3
<1>5. QED BY <1>1, <1>2, <1>3, <1>4

(* Logging out clears what is shown.                                       *)
LEMMA LoggedOutKeeps ==
    ASSUME DeviceInv, SetLoggedOut, UNCHANGED <<run, facts, batch, pair, tasks>>
    PROVE  DeviceInv'
<1> USE DEF DeviceInv, StatusInv, SetLoggedOut, run, facts
<1>1. StatusTypes'
  <2>1. {qr, connected}' \subseteq BOOLEAN
    BY Zenon DEF StatusTypes
  <2>2. QED BY <2>1 DEF StatusTypes
<1>2. LogIsBounded'
  BY StatusAssumption DEF LogIsBounded
<1>3. ShownIsRunning'
  BY DEF ShownIsRunning
<1>4. PairingInv'
  BY PairingUntouched DEF StatusTypes
<1>5. QED BY <1>1, <1>2, <1>3, <1>4

(* Recording a message keeps the log within its capacity.                  *)
LEMMA RecordKeeps ==
    ASSUME StatusInv, NEW c \in Clients, c <= latest, Record(c), UNCHANGED latest
    PROVE  log' \in Seq(1..latest) /\ Len(log') <= LogCap
<1> DEFINE kept == IF Len(log) = LogCap THEN Tail(log) ELSE log
<1>1. log \in Seq(1..latest) /\ Len(log) <= LogCap /\ c \in 1..latest
  BY DEF StatusInv, LogIsBounded, Clients
<1>2. kept \in Seq(1..latest) /\ Len(kept) < LogCap
  <2>1. CASE Len(log) = LogCap
    <3>1. log # <<>>
      BY <2>1, StatusAssumption, EmptySeq
    <3>2. QED BY <1>1, <2>1, <3>1, StatusAssumption, HeadTailProperties
  <2>2. CASE Len(log) # LogCap
    BY <1>1, <2>2, StatusAssumption
  <2>3. QED BY <2>1, <2>2
<1>3. Append(kept, c) \in Seq(1..latest) /\ Len(Append(kept, c)) = Len(kept) + 1
  BY <1>1, <1>2, AppendProperties
<1>4. QED BY <1>2, <1>3, StatusAssumption DEF Record

(* A message, the first of a batch or a later one.                         *)
LEMMA MessageKeeps ==
    ASSUME DeviceInv, NEW c \in Clients, HandleMessages(c) \/ ResumeMessages(c)
    PROVE  DeviceInv'
<1> USE DEF DeviceInv, StatusInv, HandleMessages, ResumeMessages, run, facts
<1>1. c <= latest
  BY DEF Takes, LogIsBounded
<1>2. StatusTypes'
  BY StatusAssumption DEF StatusTypes
<1>3. LogIsBounded'
  BY <1>1, RecordKeeps, StatusAssumption DEF LogIsBounded, StatusTypes
<1>4. ShownIsRunning'
  BY DEF ShownIsRunning
<1>5. PairingInv'
  BY PairingUntouched DEF StatusTypes
<1>6. QED BY <1>2, <1>3, <1>4, <1>5

(* A new instance: nothing is shown of it yet.                             *)
LEMMA BotBuiltKeeps ==
    ASSUME DeviceInv, BotBuilt
    PROVE  DeviceInv'
<1> USE StatusAssumption DEF DeviceInv, StatusInv, BotBuilt, facts, shown
<1>1. latest \in Nat /\ latest' = latest + 1
  BY DEF StatusTypes
<1>2. StatusTypes'
  <2>1. active' \in BOOLEAN
    BY Zenon
  <2>2. QED BY <2>1 DEF StatusTypes, Restart, ResetCredentials
<1>3. LogIsBounded'
  <2>1. log \in Seq(1..latest')
    <3>1. 1..latest \subseteq 1..latest'
      BY <1>1
    <3>2. QED BY <3>1, SeqMonotonic DEF LogIsBounded
  <2>2. QED BY <1>1, <2>1 DEF LogIsBounded, Clients
<1>4. ShownIsRunning'
  BY DEF ShownIsRunning
<1>5. PairingInv'
  BY <1>1, PairingUntouched
<1>6. QED BY <1>2, <1>3, <1>4, <1>5

(* The observer keeps the strongest outcome.                               *)
LEMMA ObserveKeeps ==
    ASSUME DeviceInv, Observe
    PROVE  DeviceInv'
<1> USE DEF DeviceInv, StatusInv, Observe, facts, shown
<1>1. StatusTypes'
  BY DEF StatusTypes, Restart
<1>2. LogIsBounded' /\ ShownIsRunning'
  BY DEF LogIsBounded, ShownIsRunning
<1>3. PairingInv'
  BY PairingUntouched DEF StatusTypes
<1>4. QED BY <1>1, <1>2, <1>3

(* The end of an instance: it is neither active nor connected any more,    *)
(* and after an unlinking its account is gone.                             *)
LEMMA BotExitsKeeps ==
    ASSUME DeviceInv, BotExits
    PROVE  DeviceInv'
<1> USE StatusAssumption DEF DeviceInv, StatusInv, BotExits, SetLoggedOut, facts
<1>1. sup' \in {"delay", "parked", "unlinked"} /\ (sup' = "unlinked" => outcome = ResetCredentials)
  BY DEF StatusTypes, PreserveCredentials, ResetCredentials
<1>2. StatusTypes'
  <2>1. {active, connected}' \subseteq BOOLEAN
    BY Zenon
  <2>2. qr' = qr /\ account' \in 0..latest
    BY DEF StatusTypes
  <2>3. QED BY <1>1, <2>1, <2>2 DEF StatusTypes
<1>3. LogIsBounded'
  <2>1. log' \in {log, <<>>}
    OBVIOUS
  <2>2. log' \in Seq(1..latest) /\ Len(log') <= LogCap
    <3>1. CASE log' = log
      BY <3>1 DEF LogIsBounded
    <3>2. CASE log' = <<>>
      BY <3>2
    <3>3. QED BY <2>1, <3>1, <3>2
  <2>3. QED BY <2>2 DEF LogIsBounded
<1>4. ShownIsRunning'
  BY <1>1 DEF ShownIsRunning
<1>5. PairingInv'
  BY PairingUntouched DEF StatusTypes
<1>6. QED BY <1>2, <1>3, <1>4, <1>5

(* Logging in and out, and what maintenance does.                          *)
LEMMA SurroundingsKeep ==
    ASSUME DeviceInv,
           (\E c \in Clients : LoginChanges(c)) \/ MaintenanceChanges \/ MaintenanceStops
    PROVE  DeviceInv'
<1> USE DEF DeviceInv, StatusInv, LoginChanges, MaintenanceChanges, MaintenanceStops,
            run, facts, shown
<1>1. StatusTypes'
  <2>1. {active, stored, idle}' \subseteq BOOLEAN
    BY Zenon DEF StatusTypes
  <2>2. online' \subseteq Clients
    BY DEF StatusTypes
  <2>3. QED BY <2>1, <2>2 DEF StatusTypes
<1>2. LogIsBounded' /\ ShownIsRunning'
  BY DEF LogIsBounded, ShownIsRunning
<1>3. stored => stored'
  OBVIOUS
<1>4. PairingInv'
  BY <1>3, PairingUntouched DEF StatusTypes
<1>5. QED BY <1>1, <1>2, <1>4

-----------------------------------------------------------------------------
(* /pair-code's checks.                                                    *)
LEMMA PairLookKeeps ==
    ASSUME DeviceInv, PairLook
    PROVE  DeviceInv'
<1> USE StatusAssumption DEF DeviceInv, PairingInv, PairTypes, PairLook, Attempts, Live, AtServer
<1>1. StatusInv'
  BY StatusUntouched
<1>2. PairTypes'
  BY DEF run, StatusInv, StatusTypes
<1>3. ReservesNext'
  BY DEF ReservesNext
<1>4. LiveIsPending'
  BY DEF LiveIsPending, facts
<1>5. OneAtServer' /\ CodeIsNewest'
  BY DEF OneAtServer, CodeIsNewest
<1>6. QED BY <1>1, <1>2, <1>3, <1>4, <1>5

(* begin_pair_code: refused, it takes the look back; granted, nothing else *)
(* is pending, so any other live attempt was cleared by a login.           *)
LEMMA BeginPairCodeKeeps ==
    ASSUME DeviceInv, BeginPairCode
    PROVE  DeviceInv'
<1> USE StatusAssumption DEF DeviceInv, PairingInv, Live, AtServer
<1>1. looked \in Attempts /\ pc[looked] = "looked" /\ looked = attempts + 1
  BY DEF BeginPairCode, BeginIf, PairTypes, ReservesNext, Attempts
<1>2. UNCHANGED <<run, facts, batch, shown, via, issued>>
  BY DEF BeginPairCode, BeginIf
<1>3. StatusInv'
  BY <1>2, StatusUntouched
<1>4. CASE pair.state \notin {"pending", "ready"}
  <2>1. /\ pair' = [state |-> "pending", id |-> looked] /\ attempts' = looked
        /\ pc' = [pc EXCEPT ![looked] = "begun"] /\ looked' = looked
    BY <1>4 DEF BeginPairCode, BeginIf
  <2>2. PairTypes'
    BY <1>1, <1>2, <2>1 DEF PairTypes, run
  <2>3. ReservesNext'
    BY <1>1, <2>1 DEF ReservesNext, PairTypes
  <2>4. LiveIsPending'
    BY <1>1, <1>2, <1>4, <2>1 DEF LiveIsPending, PairTypes, facts
  <2>5. OneAtServer' /\ CodeIsNewest'
    BY <1>1, <1>2, <2>1 DEF OneAtServer, CodeIsNewest, PairTypes
  <2>6. QED BY <1>3, <2>2, <2>3, <2>4, <2>5
<1>5. CASE pair.state \in {"pending", "ready"}
  <2>1. /\ UNCHANGED <<pair, attempts>> /\ looked' = 0
        /\ pc' = [pc EXCEPT ![looked] = "none"]
    BY <1>5 DEF BeginPairCode, BeginIf
  <2>2. PairTypes' /\ ReservesNext'
    BY <1>1, <1>2, <2>1 DEF PairTypes, ReservesNext, run
  <2>3. LiveIsPending'
    BY <1>1, <1>2, <2>1 DEF LiveIsPending, PairTypes, facts
  <2>4. OneAtServer' /\ CodeIsNewest'
    BY <1>1, <1>2, <2>1 DEF OneAtServer, CodeIsNewest
  <2>5. QED BY <1>3, <2>2, <2>3, <2>4
<1>6. QED BY <1>4, <1>5

(* The task of the reserved attempt is spawned, or the spawn fails.        *)
LEMMA PairSpawnKeeps ==
    ASSUME DeviceInv, PairSpawn
    PROVE  DeviceInv'
<1> USE StatusAssumption DEF DeviceInv, PairingInv, PairSpawn, Settle, Live, AtServer
<1>1. looked \in Attempts /\ pc[looked] = "begun"
  BY DEF PairTypes, Attempts
<1>2. StatusInv'
  BY StatusUntouched
<1>3. PairTypes' /\ ReservesNext'
  BY <1>1 DEF PairTypes, ReservesNext, run
<1>4. LiveIsPending'
  BY <1>1 DEF LiveIsPending, PairTypes, facts
<1>5. OneAtServer'
  BY <1>1 DEF OneAtServer, PairTypes
<1>6. CodeIsNewest'
  BY <1>1 DEF CodeIsNewest, PairTypes
<1>7. QED BY <1>2, <1>3, <1>4, <1>5, <1>6

(* A task ends and settles its attempt; it shows a code only if the        *)
(* server's newest is its own.                                             *)
LEMMA EndsKeeps ==
    ASSUME DeviceInv, NEW r \in Attempts, NEW from \in {"socket", "pairing", "issued"},
           NEW state \in {"error", "ready"}, state = "ready" => from = "issued",
           Ends(r, from, state)
    PROVE  DeviceInv'
<1> USE StatusAssumption DEF DeviceInv, PairingInv, PairTypes, Ends, Settle, Live, AtServer
<1>1. StatusInv'
  BY StatusUntouched
<1>2. PairTypes'
  BY DEF run
<1>3. ReservesNext'
  BY DEF ReservesNext
<1>4. LiveIsPending'
  BY DEF LiveIsPending, facts
<1>5. OneAtServer' /\ CodeIsNewest'
  BY DEF OneAtServer, CodeIsNewest
<1>6. QED BY <1>1, <1>2, <1>3, <1>4, <1>5

(* A task asks the server for a code: the device is not linked, so its     *)
(* attempt is the only live one.                                           *)
LEMMA PairWithCodeKeeps ==
    ASSUME DeviceInv, NEW r \in Attempts, PairWithCode(r)
    PROVE  DeviceInv'
<1> USE StatusAssumption DEF DeviceInv, PairingInv, PairTypes, PairWithCode, Free, Live, AtServer
<1>1. StatusInv'
  BY StatusUntouched
<1>2. PairTypes'
  BY DEF run
<1>3. ReservesNext'
  BY DEF ReservesNext
<1>4. LiveIsPending'
  BY DEF LiveIsPending
<1>5. OneAtServer' /\ CodeIsNewest'
  BY DEF OneAtServer, CodeIsNewest, LiveIsPending
<1>6. QED BY <1>1, <1>2, <1>3, <1>4, <1>5

(* The server makes a code for the only attempt it has.                    *)
LEMMA CodeIssuedKeeps ==
    ASSUME DeviceInv, NEW r \in Attempts, CodeIssued(r)
    PROVE  DeviceInv'
<1> USE StatusAssumption DEF DeviceInv, PairingInv, PairTypes, CodeIssued, Live, AtServer
<1>1. StatusInv'
  BY StatusUntouched
<1>2. PairTypes'
  BY DEF run, LiveIsPending, Attempts
<1>3. ReservesNext'
  BY DEF ReservesNext, Attempts
<1>4. LiveIsPending'
  BY DEF LiveIsPending, facts
<1>5. OneAtServer' /\ CodeIsNewest'
  BY DEF OneAtServer, CodeIsNewest
<1>6. QED BY <1>1, <1>2, <1>3, <1>4, <1>5

(* A code shown becomes an expired one.                                    *)
LEMMA CodeExpiresKeeps ==
    ASSUME DeviceInv, CodeExpires
    PROVE  DeviceInv'
<1> USE StatusAssumption DEF DeviceInv, PairingInv, PairTypes, CodeExpires, tasks, Live, AtServer
<1>1. StatusInv'
  BY StatusUntouched
<1>2. PairTypes'
  BY DEF run
<1>3. ReservesNext' /\ LiveIsPending'
  BY DEF ReservesNext, LiveIsPending, facts
<1>4. OneAtServer' /\ CodeIsNewest'
  BY DEF OneAtServer, CodeIsNewest
<1>5. QED BY <1>1, <1>2, <1>3, <1>4

-----------------------------------------------------------------------------
(* A step that changes nothing.                                            *)
LEMMA StutterKeeps ==
    ASSUME DeviceInv, UNCHANGED vars
    PROVE  DeviceInv'
BY StatusUntouched, PairingUntouched DEF DeviceInv, StatusInv, StatusTypes, vars, run, facts

(* DeviceInv, the inductive strengthening of the two invariants, holds in  *)
(* every reachable state of the status and its three writers.              *)
THEOREM DeviceInvariance == Spec => []DeviceInv
<1>1. Init => DeviceInv
  <2> SUFFICES ASSUME Init PROVE DeviceInv
    OBVIOUS
  <2>1. {active, stored, idle, qr, connected} \subseteq BOOLEAN
    BY Zenon DEF Init
  <2>2. StatusTypes
    BY <2>1, StatusAssumption DEF Init, StatusTypes, Restart, ResetCredentials
  <2>3. LogIsBounded /\ ShownIsRunning
    BY StatusAssumption DEF Init, LogIsBounded, ShownIsRunning
  <2>4. PairTypes
    BY StatusAssumption DEF Init, PairTypes, Idle
  <2>5. ReservesNext /\ LiveIsPending /\ OneAtServer /\ CodeIsNewest
    BY DEF Init, ReservesNext, LiveIsPending, OneAtServer, CodeIsNewest, Live, AtServer, Idle
  <2>6. QED BY <2>2, <2>3, <2>4, <2>5 DEF DeviceInv, StatusInv, PairingInv
<1>2. DeviceInv /\ [Next]_vars => DeviceInv'
  <2> SUFFICES ASSUME DeviceInv, [Next]_vars PROVE DeviceInv'
    OBVIOUS
  <2>1. CASE UNCHANGED vars
    BY <2>1, StutterKeeps
  <2>2. ASSUME NEW c \in Clients, Handler(c) PROVE DeviceInv'
    BY <2>2, FlagEventKeeps, ConnectedKeeps, LoggedOutKeeps, MessageKeeps
        DEF Handler, HandleLoggedOut
  <2>3. CASE BotBuilt \/ Observe \/ BotExits
    BY <2>3, BotBuiltKeeps, ObserveKeeps, BotExitsKeeps
  <2>4. CASE (\E c \in Clients : LoginChanges(c)) \/ MaintenanceChanges \/ MaintenanceStops
    BY <2>4, SurroundingsKeep
  <2>5. CASE MaintenanceResets
    BY <2>5, LoggedOutKeeps DEF MaintenanceResets
  <2>6. CASE PairRequest \/ CodeExpires
    BY <2>6, PairLookKeeps, BeginPairCodeKeeps, PairSpawnKeeps, CodeExpiresKeeps DEF PairRequest
  <2>7. ASSUME NEW r \in Attempts, PairTask(r) PROVE DeviceInv'
    BY <2>7, EndsKeeps, PairWithCodeKeeps, CodeIssuedKeeps
    DEF PairTask, SocketNotReady, PairRefused, PairFails, CompletePairCode
  <2>8. QED BY <2>1, <2>2, <2>3, <2>4, <2>5, <2>6, <2>7 DEF Next
<1>3. QED BY <1>1, <1>2, PTL DEF Spec

(* The dashboard says connected only of the instance being run and shows   *)
(* no account of an unlinked device, for any number of instances and late  *)
(* events (main.rs, the event handler; admin.rs, DeviceStatus).            *)
THEOREM StatusIsTrue == Spec => []StatusFollowsClient
<1>1. DeviceInv => StatusFollowsClient
  BY DEF DeviceInv, StatusInv, StatusTypes, LogIsBounded, ShownIsRunning, PairingInv, PairTypes,
         TypeOK, StatusFollowsClient
<1>2. QED BY <1>1, DeviceInvariance, PTL

(* The pairing code the dashboard shows is the newest the server made, and *)
(* no attempt can invalidate it while it is shown (admin.rs,               *)
(* begin_pair_code and complete_pair_code).                                *)
THEOREM ShownCodeIsUsable == Spec => []ShownCodeIsNewest
<1>1. DeviceInv => ShownCodeIsNewest
  BY DEF DeviceInv, PairingInv, OneAtServer, CodeIsNewest, AtServer, ShownCodeIsNewest
<1>2. QED BY <1>1, DeviceInvariance, PTL
=============================================================================
