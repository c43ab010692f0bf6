----------------------------- MODULE RuntimeHost -----------------------------
(***************************************************************************)
(* Host.Run: one process opens the database runtime, migrates, monitors,   *)
(* cleans up, starts its components in order, waits, and takes all of it   *)
(* down again under one shutdown context.  The HTTP server is the last     *)
(* component; its handlers make the Execute calls and the reads.  Another  *)
(* process competes for the advisory lock.                                 *)
(***************************************************************************)
EXTENDS DatabaseRuntime, ReadLifecycle

CONSTANT Components    \* the components 1..Components, in starting order

ASSUME ComponentsAssumption == Components \in Nat \ {0}

VARIABLES host,   \* where Host.Run is
          comp    \* what became of each component

vars == <<dbVars, readVars, host, comp>>

Http == Components
HostTypeOK ==
  /\ host \in {"new", "migrate", "monitor", "cleanup", "start", "serve", "stop", "close", "exited"}
  /\ comp \in [1..Components -> {"new", "running", "failed", "stopped", "cut"}]
TypeOK == DatabaseTypeOK /\ ReadTypeOK /\ HostTypeOK

Init ==
  /\ DatabaseInit /\ ReadInit
  /\ host = "new" /\ comp = [i \in 1..Components |-> "new"]

Started == {i \in 1..Components : comp[i] \in {"running", "failed"}}

----------------------------------------------------------------------------
(* Starting *)

OpenDatabase ==
  /\ host = "new" /\ Open /\ host' = "migrate"
  /\ UNCHANGED <<readVars, comp>>

(* another process holds the lock, or a connection could not be made *)
OpenFails ==
  /\ host = "new" /\ host' = "exited"
  /\ UNCHANGED <<dbVars, readVars, comp>>

Migrate ==
  /\ host = "migrate" /\ (LoadHistory \/ ApplyMigration)
  /\ UNCHANGED <<readVars, host, comp>>

MigrationsDone ==
  /\ host = "migrate" /\ MigrateCompletes /\ host' = "monitor"
  /\ UNCHANGED <<readVars, comp>>

(* shutdownRuntime begins: writes are refused before anything else stops *)
BeginStop == host' = "stop" /\ UNCHANGED <<readVars, comp>>
SealWrites ==
  /\ StopAcceptingWrites
  /\ UNCHANGED <<connection, state, failure, writes, monitor, closing, wasMonitoring,
                 deadline, migration>>

MigrationFails == host = "migrate" /\ MigrateFails /\ BeginStop

(* StartMonitoring refuses a connection already known to be closed *)
Monitored ==
  /\ host = "monitor" /\ StartMonitoring
  /\ host' = IF state' = "Monitoring" THEN "cleanup" ELSE "stop"
  /\ UNCHANGED <<readVars, comp>>

CleanupDone ==
  /\ host = "cleanup" /\ AcceptsWrites /\ Usable /\ host' = "start"
  /\ UNCHANGED <<dbVars, readVars, comp>>

CleanupFails == host = "cleanup" /\ SealWrites /\ BeginStop

StartComponent(i) ==
  /\ host = "start" /\ comp[i] = "new" /\ \A j \in 1..(i - 1) : comp[j] # "new"
  /\ comp' = [comp EXCEPT ![i] = "running"]
  /\ host' = IF i = Components THEN "serve" ELSE "start"
  /\ UNCHANGED <<dbVars, readVars>>

(* slip: what was started before the failure is forgotten *)
StartFailsForgets ==
  /\ host = "start" /\ host' = "close"
  /\ CloseBegins /\ SealReads /\ UNCHANGED comp

(* the next component does not start: those before it are shut down *)
StartFails == host = "start" /\ SealWrites /\ BeginStop

(* a component stops by itself, with or without an error *)
ComponentFails(i) ==
  /\ comp[i] = "running" /\ comp' = [comp EXCEPT ![i] = "failed"]
  /\ UNCHANGED <<dbVars, readVars, host>>

----------------------------------------------------------------------------
(* Serving *)

(* Handlers run while the server does, and those that a forced shutdown of *)
(* the server left behind run on until the process ends.                   *)
HandlersRun == comp[Http] \in {"running", "failed", "cut"} /\ host # "exited"

HandlerWrites(w) ==
  /\ HandlersRun /\ Submit(w)
  /\ UNCHANGED <<readVars, host, comp>>

HandlerReads(r) ==
  /\ HandlersRun /\ BeginRead(r)
  /\ UNCHANGED <<dbVars, host, comp>>

Write(w) ==
  /\ host # "exited"
  /\ Execute(w) \/ TryExecute(w) \/ AcquireGate(w) \/ AbandonGate(w) \/ Transaction(w)
  /\ UNCHANGED <<readVars, host, comp>>

ReadStep(r) ==
  /\ host # "exited" /\ Read(r)
  /\ UNCHANGED <<dbVars, host, comp>>

MonitorStep ==
  /\ host # "exited" /\ Monitor
  /\ UNCHANGED <<readVars, host, comp>>

(* wait returns: the process context, the failure channel or a component *)
Signalled ==
  /\ host = "serve"
  /\ SealWrites /\ BeginStop

(* slip: the failure channel is not among the things waited for *)
SeesFailureNever == FALSE

SeesFailure == failure \/ \E i \in 1..Components : comp[i] = "failed"

FailureSeen ==
  /\ host = "serve" /\ SeesFailure
  /\ SealWrites /\ BeginStop

----------------------------------------------------------------------------
(* Stopping *)

ShutdownExpires ==
  /\ host \in {"stop", "close"} /\ ~deadline /\ deadline' = TRUE
  /\ UNCHANGED <<connection, lifecycle, writes, monitor, closing, wasMonitoring, migration,
                 readVars, host, comp>>

HandlersIdle ==
  /\ \A w \in Callers : pc[w] = "idle"
  /\ Active = {}

(* Shutdown of the HTTP server waits for its handlers until the context    *)
(* expires; those left are cancelled but not stopped.                      *)
ShutdownComponent(i) ==
  /\ host = "stop" /\ i \in Started /\ \A j \in Started : j <= i
  /\ \/ (i = Http => HandlersIdle) /\ comp' = [comp EXCEPT ![i] = "stopped"]
     \/ i = Http /\ deadline /\ comp' = [comp EXCEPT ![i] = "cut"]
  /\ UNCHANGED <<dbVars, readVars, host>>

CloseDatabase ==
  /\ host = "stop" /\ Started = {} /\ CloseBegins /\ SealReads
  /\ host' = "close" /\ UNCHANGED comp

CloseStep ==
  /\ host = "close"
  /\ CloseAcquires \/ ReleaseLock \/ ForceClose
  /\ UNCHANGED <<readVars, host, comp>>

DrainReads ==
  /\ host = "close"
  /\ \/ deadline /\ DrainExpires
     \/ PoolCloses
     \/ \E r \in Reads : ForceRead(r)
  /\ UNCHANGED <<dbVars, host, comp>>

Exit ==
  /\ host = "close" /\ CloseEnds(ReadsDone)
  /\ host' = "exited"
  /\ UNCHANGED <<deadline, readVars, comp>>

Server ==
  /\ SessionEnds \/ RivalTakesLock \/ RivalReleasesLock \/ RivalMigrates
  /\ UNCHANGED <<readVars, host, comp>>

Next ==
  \/ OpenDatabase \/ OpenFails \/ Migrate \/ MigrationsDone \/ MigrationFails
  \/ Monitored \/ CleanupDone \/ CleanupFails \/ StartFails
  \/ \E i \in 1..Components : StartComponent(i) \/ ComponentFails(i) \/ ShutdownComponent(i)
  \/ \E w \in Callers : HandlerWrites(w) \/ Write(w)
  \/ \E r \in Reads : HandlerReads(r) \/ ReadStep(r)
  \/ MonitorStep \/ FailureSeen \/ Signalled \/ ShutdownExpires
  \/ CloseDatabase \/ CloseStep \/ DrainReads \/ Exit \/ Server

Spec == Init /\ [][Next]_vars

----------------------------------------------------------------------------
(* Fairness: the host's own steps and timers, the monitor, a caller that   *)
(* asked for the gate, and what a forced read and a released transaction   *)
(* do next.  What a handler does between its calls, the work inside a      *)
(* transaction, the rows of a read that is not forced and the outcome of   *)
(* an operation on a live connection are owed to nobody.                   *)

HostFairness ==
  /\ WF_vars(Migrate \/ MigrationsDone \/ MigrationFails)
  /\ WF_vars(Monitored) /\ WF_vars(CleanupDone \/ CleanupFails)
  /\ WF_vars(StartFails \/ \E i \in 1..Components : StartComponent(i))
  /\ WF_vars(FailureSeen) /\ WF_vars(ShutdownExpires)
  /\ WF_vars(CloseDatabase \/ \E i \in 1..Components : ShutdownComponent(i))
  /\ WF_vars(CloseStep) /\ WF_vars(DrainReads) /\ WF_vars(Exit)
CallFairness ==
  /\ WF_vars(MonitorStep)
  /\ \A w \in Callers :
       WF_vars((Execute(w) \/ TryExecute(w) \/ AcquireGate(w) \/ AdmitWrite(w))
               /\ UNCHANGED <<readVars, host, comp>>)
  /\ \A r \in Reads :
       /\ WF_vars(r \in forced /\ ReadStep(r))
       /\ WF_vars(rpc[r] \in {"releasing", "returned"} /\ ReadStep(r))

LiveSpec == Spec /\ HostFairness /\ CallFairness
=============================================================================
