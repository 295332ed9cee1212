------------------------------ MODULE Reconciler ------------------------------
(***************************************************************************)
(* The controller that drives one environment's services to its latest     *)
(* intent (apps/piqueld/src/reconcile), over the rows of OperationStore    *)
(* and the services Docker runs.                                           *)
(*                                                                         *)
(* Three activities interleave at every await: the scan of the latest      *)
(* operation, which first repairs the active target and then executes the  *)
(* operation; the health job, which repairs the active target beside it;   *)
(* and the requests of clients.  Docker requests are sent under one        *)
(* mutation lock.  A holder that only reads or writes rows is one step     *)
(* here, so the lock is held across steps exactly while a request is in    *)
(* flight (LockFree).                                                      *)
(*                                                                         *)
(* Left to other modules: routes, jobs (only their outcome is here),       *)
(* networks and volumes, startup dependencies, links, other environments   *)
(* (which only delay the lock).  A discovery pass reads and dispatches in  *)
(* one step: the scan reads the operation again before it uses it.         *)
(***************************************************************************)
EXTENDS OperationStore

CONSTANTS
    Services,      \* the names services of the environment may have
    Wanted,        \* Wanted[t]: the services target `t' declares
    Disturbances   \* bound on failures, crashes, drift, stops and starts

ASSUME WantedAssumption == Wanted \in [Ops -> SUBSET Services]
ASSUME DisturbancesAssumption == Disturbances \in Nat

VARIABLES
    daemon,     \* "starting" until startup recovery ran, then "up"
    scan,       \* the scan job of the environment
    repair,     \* maintain_active, within the scan and in the health job
    services,   \* what Docker runs
    budget      \* disturbances left

procVars == <<daemon, scan, repair>>
vars == <<storeVars, procVars, services, budget>>

Repairers == {"scan", "health"}

\* A service runs the specification of a target, with its replicas or scaled
\* to zero.  Specifications of different targets differ.
Absent == [target |-> 0, up |-> FALSE, conv |-> "converged"]
Service == [target : Targets, up : BOOLEAN,
            conv : {"converged", "updating", "failed"}]

NoAction == [act |-> "none"]
Action == {NoAction} \cup [act : {"ensure", "wait", "remove"}, service : Services]

\* How the execution of an operation ended: it succeeded, it noticed that it
\* is cancelled or superseded, or it failed with a diagnostic code.
Results == {"ok", "yield"} \cup Errors

\* The local variables of a scan: the operation, its state and error as read
\* at the start, whether its token was cancelled, whether the environment was
\* stopped as the last plan saw it, that plan's next action, the result of
\* the execution, and the deployment an automatic rollback restores.
IdleScan == [pc |-> "idle", op |-> 0, state |-> "absent", error |-> "none",
             cancelled |-> FALSE, stopped |-> FALSE, action |-> NoAction,
             result |-> "ok", restore |-> 0]
IdleRepair == [pc |-> "idle", op |-> 0, target |-> 0, stopped |-> FALSE,
               action |-> NoAction]

ScanPc == {"idle", "scan", "repair", "decide", "begin", "prepare", "jobs",
           "plan", "publish", "act", "mutating", "prune", "settle",
           "rollback", "recheck"}
RepairPc == {"idle", "check", "plan", "lock", "mutating"}

RTypeOK ==
    /\ daemon \in {"starting", "up"}
    /\ scan \in [pc : ScanPc, op : Targets, state : States,
                 error : Errors \cup {"none"}, cancelled : BOOLEAN,
                 stopped : BOOLEAN, action : Action, result : Results,
                 restore : Targets]
    /\ repair \in [Repairers -> [pc : RepairPc, op : Targets, target : Targets,
                                 stopped : BOOLEAN, action : Action]]
    /\ services \in [Services -> Service]
    /\ budget \in 0 .. Disturbances
    /\ scan.pc # "idle" => scan.op # 0
    /\ scan.pc = "mutating" => scan.action.act \in {"ensure", "remove"}
    /\ \A p \in Repairers :
           repair[p].pc \in {"lock", "mutating"} =>
               repair[p].action.act \in {"ensure", "remove"}

Init ==
    /\ StoreInit
    /\ daemon = "starting"
    /\ scan = IdleScan
    /\ repair = [p \in Repairers |-> IdleRepair]
    /\ services = [s \in Services |-> Absent]
    /\ budget = Disturbances

-----------------------------------------------------------------------------
(* Plans *)

Present == {s \in Services : services[s].target # 0}

\* The service runs what target `t' declares, scaled to zero if `stop'.
Runs(s, t, stop) == services[s].target = t /\ services[s].up = ~stop

Drifted(t, stop) == {s \in Wanted[t] : ~Runs(s, t, stop)}
Converging(t, stop) ==
    {s \in Wanted[t] : Runs(s, t, stop) /\ services[s].conv = "updating"}

\* A failed update blocks a plan until the service's specification changes.
Blocked(t, stop) ==
    \E s \in Wanted[t] : Runs(s, t, stop) /\ services[s].conv = "failed"

\* The first action of a reconcile plan: ensures, then waits, and removals
\* only once all of the target runs.
ReconcileActions(t, stop) ==
    IF Drifted(t, stop) # {}
      THEN [act : {"ensure"}, service : Drifted(t, stop)]
      ELSE IF Converging(t, stop) # {}
             THEN [act : {"wait"}, service : Converging(t, stop)]
             ELSE [act : {"remove"}, service : Present \ Wanted[t]]

\* The first action of a deletion plan: waits for removal follow removals.
DeletionActions == [act : {"remove"}, service : Present]

\* The first action of the plan `actions', or none.
First(actions) == IF actions = {} THEN {NoAction} ELSE actions

\* next_repair: repair never waits.
Repairs(t, stop) == {a \in ReconcileActions(t, stop) : a.act # "wait"}

\* The services once Docker has carried out `a' for target `t'.
Mutated(a, t, stop) ==
    [services EXCEPT ![a.service] =
        IF a.act = "remove"
          THEN Absent
          ELSE [target |-> t, up |-> ~stop, conv |-> "updating"]]

\* The mutation lock is held while a Docker request is in flight.
LockFree ==
    /\ scan.pc # "mutating"
    /\ \A p \in Repairers : repair[p].pc # "mutating"

\* A disturbance happens.
Disturb == budget > 0 /\ budget' = budget - 1

-----------------------------------------------------------------------------
(* Discovery *)

\* A discovery pass starts a scan of the latest operation, or cancels the
\* token of a running scan when a newer operation replaced its own.
Discover ==
    /\ daemon = "up"
    /\ live /\ count # 0
    /\ \/ /\ scan.pc = "idle"
          /\ scan' = [IdleScan EXCEPT !.pc = "scan", !.op = count]
       \/ /\ scan.pc # "idle" /\ scan.op # count /\ ~scan.cancelled
          /\ scan' = [scan EXCEPT !.cancelled = TRUE]
    /\ UNCHANGED <<storeVars, daemon, repair, services, budget>>

\* A full pass starts at most one health job.
RefreshHealth ==
    /\ daemon = "up"
    /\ live /\ count # 0
    /\ repair["health"].pc = "idle"
    /\ repair' = [repair EXCEPT !["health"] =
                     [IdleRepair EXCEPT !.pc = "check", !.op = count]]
    /\ UNCHANGED <<storeVars, daemon, scan, services, budget>>

-----------------------------------------------------------------------------
(* Repair of the active target *)

\* The repair of `p' ends; the scan then goes on.
EndRepair(p) ==
    /\ repair' = [repair EXCEPT ![p] = IdleRepair]
    /\ scan' = IF p = "scan" THEN [scan EXCEPT !.pc = "decide"] ELSE scan

\* maintain_active: the operation and the active target it reads are checked
\* again under the lock.
MaintainActive(p) ==
    LET r == repair[p]
    IN  /\ r.pc = "check"
        /\ IF live /\ kind[r.op] # "delete" /\ r.op \notin promoted /\ resolved # 0
             THEN /\ repair' = [repair EXCEPT ![p].pc = "plan", ![p].target = resolved]
                  /\ UNCHANGED scan
             ELSE EndRepair(p)
        /\ UNCHANGED <<storeVars, daemon, services, budget>>

\* repair_once, up to its wait for the lock: a plan that is blocked, or has
\* nothing to repair, ends it.
PlanRepair(p) ==
    LET r == repair[p]
    IN  /\ r.pc = "plan"
        /\ IF ~live \/ Blocked(r.target, stopped) \/ Repairs(r.target, stopped) = {}
             THEN EndRepair(p)
             ELSE /\ \E a \in Repairs(r.target, stopped) :
                         repair' = [repair EXCEPT ![p].pc = "lock",
                                                  ![p].stopped = stopped,
                                                  ![p].action = a]
                  /\ UNCHANGED scan
        /\ UNCHANGED <<storeVars, daemon, services, budget>>

\* What repair_once checks under the lock before it sends its request.
RepairStillDue(r) ==
    /\ live
    /\ r.op = count
    /\ r.op \notin promoted
    /\ stopped = r.stopped

\* repair_once takes the lock.
LockRepair(p) ==
    LET r == repair[p]
    IN  /\ r.pc = "lock"
        /\ LockFree
        /\ IF RepairStillDue(r)
             THEN repair' = [repair EXCEPT ![p].pc = "mutating"] /\ UNCHANGED scan
             ELSE EndRepair(p)
        /\ UNCHANGED <<storeVars, daemon, services, budget>>

\* Docker answers; a stopped environment scales all its services down.
Repaired(p) ==
    LET r == repair[p]
    IN  /\ r.pc = "mutating"
        /\ services' = Mutated(r.action, r.target, r.stopped)
        /\ IF stopped
             THEN repair' = [repair EXCEPT ![p].pc = "plan"] /\ UNCHANGED scan
             ELSE EndRepair(p)
        /\ UNCHANGED <<storeVars, daemon, budget>>

\* An observation or a Docker request failed, after or before it took effect.
\* A failed repair never keeps the operation from executing.
RepairFails(p) ==
    LET r == repair[p]
    IN  /\ Disturb
        /\ \/ r.pc = "plan" /\ UNCHANGED services
           \/ /\ r.pc = "mutating"
              /\ services' \in {services, Mutated(r.action, r.target, r.stopped)}
        /\ EndRepair(p)
        /\ UNCHANGED <<storeVars, daemon>>

-----------------------------------------------------------------------------
(* The scan of the latest operation *)

GoTo(label) == scan' = [scan EXCEPT !.pc = label]
EndWith(res) == scan' = [scan EXCEPT !.pc = "prune", !.result = res]
EndScan == scan' = IdleScan

\* scan_latest_operation: reads the operation again, then repairs.
ScanOperation ==
    /\ scan.pc = "scan"
    /\ IF live
         THEN /\ scan' = [scan EXCEPT !.pc = "repair",
                                      !.state = state[scan.op],
                                      !.error = error[scan.op]]
              /\ repair' = [repair EXCEPT !["scan"] =
                               [IdleRepair EXCEPT !.pc = "check", !.op = scan.op]]
         ELSE EndScan /\ UNCHANGED repair
    /\ UNCHANGED <<storeVars, daemon, services, budget>>

\* Mutant: every failure is retried with backoff.
RetryDueAlways(code) == code # "none"

\* Mutant: no failure is retried.
RetryDueNever(code) == FALSE

\* retry_due, once the backoff has passed.
RetryDue(code) == code = "retryable"

\* Conflicts and failed updates are reconsidered once the plan is unblocked.
WasBlocked(code) == code \in {"conflict", "rollout"}

\* request_reconcile of the scanned operation, then its execution, unless it
\* is no longer the latest or has not ended.
ReopenAndRun ==
    IF live /\ scan.op = count /\ state[count] \in Terminal \ {"superseded"}
      THEN /\ RequestReconcile(scan.op)
           /\ scan' = [scan EXCEPT !.pc = "begin", !.state = "requested",
                                   !.error = "none"]
      ELSE EndScan /\ UNCHANGED storeVars

\* A requested, cleanly running or retry-due operation runs.
DecideRun ==
    /\ scan.pc = "decide"
    /\ \/ scan.state = "requested"
       \/ scan.state = "running" /\ (scan.error = "none" \/ RetryDue(scan.error))
    /\ GoTo("begin")
    /\ UNCHANGED <<storeVars, daemon, repair, services, budget>>

\* A terminal failure whose backoff has passed is reopened.
DecideRetry ==
    /\ scan.pc = "decide"
    /\ scan.state \in Terminal
    /\ RetryDue(scan.error)
    /\ ReopenAndRun
    /\ UNCHANGED <<daemon, repair, services, budget>>

\* The backoff of the failure has not passed yet.
DecideNotDue ==
    /\ scan.pc = "decide"
    /\ RetryDue(scan.error)
    /\ EndScan
    /\ UNCHANGED <<storeVars, daemon, repair, services, budget>>

\* Mutant: drift after success is not corrected.
NeedsWorkIfBlocked ==
    /\ live
    /\ deleteIntent \/ (target[scan.op] # 0 /\ ~Blocked(target[scan.op], stopped))
    /\ WasBlocked(scan.error)

\* The environment's latest target needs work that the scan may do: drift
\* after success, or a blocker that is gone.
NeedsWork ==
    LET t == target[scan.op]
    IN  /\ live
        /\ deleteIntent \/ (t # 0 /\ ~Blocked(t, stopped))
        /\ \/ /\ scan.state = "succeeded"
              /\ IF deleteIntent THEN Present # {}
                                 ELSE ReconcileActions(t, stopped) # {}
           \/ WasBlocked(scan.error)

\* Otherwise a fresh plan decides.
DecidePlan ==
    /\ scan.pc = "decide"
    /\ scan.state \in Terminal \/ (scan.state = "running" /\ scan.error # "none")
    /\ ~RetryDue(scan.error)
    /\ IF ~NeedsWork
         THEN EndScan /\ UNCHANGED storeVars
         ELSE IF scan.state = "running"
                THEN GoTo("begin") /\ UNCHANGED storeVars
                ELSE ReopenAndRun
    /\ UNCHANGED <<daemon, repair, services, budget>>

-----------------------------------------------------------------------------
(* The execution of an operation *)

\* check_current
Current == live /\ scan.op = count /\ state[count] = "running"

\* run_operation_inner moves a requested operation to running; one that can no
\* longer start ends the scan.
BeginRequested ==
    /\ scan.pc = "begin" /\ scan.state = "requested"
    /\ IF live /\ scan.op = count /\ state[count] = "requested"
         THEN /\ TransitionOperation(scan.op, "requested", "running", "none")
              /\ GoTo("prepare")
         ELSE EndScan /\ UNCHANGED storeVars
    /\ UNCHANGED <<daemon, repair, services, budget>>

\* A running operation goes on, through requested when it retries an error.
BeginRunning ==
    /\ scan.pc = "begin" /\ scan.state = "running"
    /\ IF scan.error = "none"
         THEN GoTo("prepare") /\ UNCHANGED storeVars
         ELSE IF Current
                THEN /\ TransitionOperation(scan.op, "running", "requested", "none")
                     /\ scan' = [scan EXCEPT !.state = "requested", !.error = "none"]
                ELSE EndScan /\ UNCHANGED storeVars
    /\ UNCHANGED <<daemon, repair, services, budget>>

\* operation_request: a saved target is reused; another is prepared and saved
\* unless the operation is no longer current.
Prepare ==
    /\ scan.pc = "prepare"
    /\ \/ /\ live /\ (kind[scan.op] = "delete" \/ (Current /\ target[scan.op] # 0))
          /\ GoTo("jobs")
          /\ UNCHANGED storeVars
       \/ /\ Current /\ kind[scan.op] = "deploy"
          /\ PrepareTarget(scan.op)
          /\ GoTo("jobs")
       \/ /\ ~Current \/ scan.cancelled
          /\ EndWith("yield")
          /\ UNCHANGED storeVars
    /\ UNCHANGED <<daemon, repair, services, budget>>

\* Mutant: job services are removed outside the mutation lock.
RemoveJobsUnlocked == Current

\* remove_jobs: takes the lock and checks that the operation is current.
RemoveJobs == LockFree /\ Current

\* run_jobs and the deletion's remove_jobs.  A published deployment is past
\* its jobs.
RunJobs ==
    /\ scan.pc = "jobs"
    /\ \/ scan.op \in promoted /\ GoTo("plan")
       \/ scan.op \notin promoted /\ RemoveJobs /\ GoTo("plan")
       \/ scan.op \notin promoted /\ ~Current /\ EndWith("yield")
    /\ UNCHANGED <<storeVars, daemon, repair, services, budget>>

\* A job fails the operation as soon as its failure is known.  Restores run
\* no jobs.
JobFails ==
    /\ scan.pc = "jobs"
    /\ "job" \in Errors
    /\ kind[scan.op] = "deploy" /\ target[scan.op] = scan.op
    /\ scan.op \notin promoted
    /\ Disturb
    /\ Current
    /\ TransitionOperation(scan.op, "running", "failed", "job")
    /\ EndWith("job")
    /\ UNCHANGED <<daemon, repair, services>>

\* A request to Docker or an observation fails, or a deadline passes
\* ("retryable"); a source cannot be built or a secret decrypted ("other").
ExecutionFails ==
    /\ Disturb
    /\ \/ /\ scan.pc \in {"prepare", "jobs", "plan", "act"}
          /\ "retryable" \in Errors /\ EndWith("retryable")
       \/ /\ scan.pc = "prepare" \/ (scan.pc = "act" /\ scan.action.act = "ensure")
          /\ "other" \in Errors /\ EndWith("other")
    /\ UNCHANGED <<storeVars, daemon, repair, services>>

\* Mutant: a rollout plans with its services up.
PlannedStoppedNever == FALSE

\* Whether the plan scales the services to zero.
PlannedStopped == stopped

\* One round of execute_operation: checks that the operation is current,
\* observes the services and plans.
PlanOperation ==
    LET t == target[scan.op]
        delete == kind[scan.op] = "delete"
        actions == IF delete THEN DeletionActions
                             ELSE ReconcileActions(t, PlannedStopped)
    IN  /\ scan.pc = "plan"
        /\ IF ~Current \/ scan.cancelled THEN EndWith("yield")
           ELSE IF ~delete /\ Blocked(t, PlannedStopped)
                  THEN "rollout" \in Errors /\ EndWith("rollout")
                  ELSE \E a \in First(actions) :
                         scan' = [scan EXCEPT !.pc = IF delete THEN "act" ELSE "publish",
                                              !.stopped = PlannedStopped,
                                              !.action = a]
        /\ UNCHANGED <<storeVars, daemon, repair, services, budget>>

\* Mutant: the target is published outside the mutation lock.
CanPublishUnlocked == TRUE

\* publish takes the mutation lock.
CanPublish == LockFree

\* publish: makes the prepared target the active one.
Publish ==
    /\ scan.pc = "publish"
    /\ CanPublish
    /\ IF Current
         THEN PublishPrepared(scan.op) /\ GoTo("act")
         ELSE EndWith("yield") /\ UNCHANGED storeVars
    /\ UNCHANGED <<daemon, repair, services, budget>>

\* An empty plan ends the execution.
NothingToDo ==
    /\ scan.pc = "act"
    /\ scan.action = NoAction
    /\ IF kind[scan.op] = "delete" \/ (live /\ scan.op = count)
         THEN EndWith("ok")
         ELSE EndWith("yield")
    /\ UNCHANGED <<storeVars, daemon, repair, services, budget>>

\* retry: checks that the operation is current, takes the lock, checks again
\* and sends the request.
SendRequest ==
    /\ scan.pc = "act"
    /\ scan.action.act \in {"ensure", "remove"}
    /\ \/ LockFree /\ Current /\ ~scan.cancelled /\ GoTo("mutating")
       \/ (~Current \/ scan.cancelled) /\ EndWith("yield")
    /\ UNCHANGED <<storeVars, daemon, repair, services, budget>>

\* Docker answers, and the operation plans again.
Mutate ==
    /\ scan.pc = "mutating"
    /\ services' = Mutated(scan.action, target[scan.op], scan.stopped)
    /\ GoTo("plan")
    /\ UNCHANGED <<storeVars, daemon, repair, budget>>

\* The request failed, after or before it took effect; it is sent again, or
\* its attempts ran out.
MutateFails ==
    /\ scan.pc = "mutating"
    /\ Disturb
    /\ services' \in {services, Mutated(scan.action, target[scan.op], scan.stopped)}
    /\ GoTo("act") \/ ("retryable" \in Errors /\ EndWith("retryable"))
    /\ UNCHANGED <<storeVars, daemon, repair>>

\* wait_service: polls until the service converged or the environment was
\* stopped or started.
WaitService ==
    /\ scan.pc = "act"
    /\ scan.action.act = "wait"
    /\ LET s == scan.action.service
       IN  \/ stopped # scan.stopped /\ GoTo("plan")
           \/ s \in Present /\ services[s].conv = "converged" /\ GoTo("plan")
           \/ services[s].conv = "failed" /\ EndWith("rollout")
           \/ s \notin Present /\ "retryable" \in Errors /\ EndWith("retryable")
           \/ scan.cancelled /\ EndWith("yield")
    /\ UNCHANGED <<storeVars, daemon, repair, services, budget>>

\* execute_and_cleanup prunes files under the lock, unless the token is
\* cancelled; a deletion whose cleanup fails is retried.
Prune ==
    /\ scan.pc = "prune"
    /\ \/ scan.cancelled /\ EndScan /\ UNCHANGED budget
       \/ ~scan.cancelled /\ LockFree /\ GoTo("settle") /\ UNCHANGED budget
       \/ /\ ~scan.cancelled /\ LockFree
          /\ kind[scan.op] = "delete" /\ scan.result = "ok"
          /\ "retryable" \in Errors
          /\ Disturb
          /\ scan' = [scan EXCEPT !.pc = "settle", !.result = "retryable"]
    /\ UNCHANGED <<storeVars, daemon, repair, services>>

-----------------------------------------------------------------------------
(* The outcome of an execution *)

\* A cancelled token persists nothing.
SettleCancelled ==
    /\ scan.pc = "settle" /\ scan.cancelled
    /\ EndScan
    /\ UNCHANGED <<storeVars, daemon, repair, services, budget>>

\* The result is recorded on the operation; a transition that is no longer
\* legal changes nothing.
Succeed ==
    /\ scan.pc = "settle" /\ ~scan.cancelled /\ scan.result = "ok"
    /\ kind[scan.op] = "deploy"
    /\ IF Current
         THEN TransitionOperation(scan.op, "running", "succeeded", "none") /\ GoTo("recheck")
         ELSE EndScan /\ UNCHANGED storeVars
    /\ UNCHANGED <<daemon, repair, services, budget>>

\* A deletion ends with its environment.
FinishDelete ==
    /\ scan.pc = "settle" /\ ~scan.cancelled /\ scan.result = "ok"
    /\ kind[scan.op] = "delete"
    /\ IF Current THEN FinishDeleteOperation(scan.op) ELSE UNCHANGED storeVars
    /\ EndScan
    /\ UNCHANGED <<daemon, repair, services, budget>>

\* Newer durable state takes precedence over a cancellation.
Yield ==
    /\ scan.pc = "settle" /\ ~scan.cancelled /\ scan.result = "yield"
    /\ IF Current
         THEN TransitionOperation(scan.op, "running", "cancelled", "none")
         ELSE UNCHANGED storeVars
    /\ EndScan
    /\ UNCHANGED <<daemon, repair, services, budget>>

\* fail_operation: an operation a failed job ended, or a newer one superseded,
\* stays as it is.
FailOperation ==
    IF Current
      THEN TransitionOperation(scan.op, "running", "failed", scan.result)
      ELSE UNCHANGED storeVars

\* fail: without automatic rollback, or with nothing to restore.
Fail ==
    /\ scan.pc = "settle" /\ ~scan.cancelled /\ scan.result \in Errors
    /\ IF kind[scan.op] = "delete"
         THEN IF live /\ state[scan.op] = "running"
                THEN RecordOperationError(scan.op, scan.result)
                ELSE UNCHANGED storeVars
         ELSE FailOperation
    /\ EndScan
    /\ UNCHANGED <<daemon, repair, services, budget>>

\* Mutant: a failed rollback, or a failure of what already ran, is rolled back.
PickRollbackOfAny ==
    /\ scan.pc = "settle" /\ ~scan.cancelled /\ scan.result \in Errors
    /\ live /\ kind[scan.op] = "deploy" /\ count < MaxOps
    /\ \E d \in Ops :
           /\ IsRollbackTarget(scan.op, d)
           /\ scan' = [scan EXCEPT !.pc = "rollback", !.restore = d]
    /\ UNCHANGED <<storeVars, daemon, repair, services, budget>>

\* fail, in an environment with automatic rollback: picks the deployment to
\* restore, whose images are then checked.
PickRollback ==
    /\ scan.pc = "settle" /\ ~scan.cancelled /\ scan.result \in Errors
    /\ live /\ kind[scan.op] = "deploy" /\ count < MaxOps
    /\ RollsBack(scan.op, scan.result)
    /\ \E d \in Ops :
           /\ IsRollbackTarget(scan.op, d)
           /\ scan' = [scan EXCEPT !.pc = "rollback", !.restore = d]
    /\ UNCHANGED <<storeVars, daemon, repair, services, budget>>

\* roll_back, or, when the operation is no longer current or an image is gone,
\* fail_operation.
AcceptRollback ==
    /\ scan.pc = "rollback"
    /\ \/ /\ Current
          /\ RollBack(scan.op, scan.result, scan.restore)
          /\ UNCHANGED budget
       \/ ~Current /\ FailOperation /\ UNCHANGED budget
       \/ Disturb /\ FailOperation
    /\ EndScan
    /\ UNCHANGED <<daemon, repair, services>>

\* A stop or start accepted while the operation ran reopens it.
Recheck ==
    /\ scan.pc = "recheck"
    /\ IF stopped # scan.stopped /\ live /\ scan.op = count
             /\ state[count] \in Terminal \ {"superseded"}
         THEN RequestReconcile(scan.op)
         ELSE UNCHANGED storeVars
    /\ EndScan
    /\ UNCHANGED <<daemon, repair, services, budget>>

-----------------------------------------------------------------------------
(* Clients, Swarm and the host *)

\* Clients request operations as long as MaxOps allows; a stop or a start is
\* a disturbance.
ClientRequest ==
    /\ \/ /\ RequestDeploy \/ RequestDelete \/ \E d \in Ops : RequestRestore(d)
          /\ UNCHANGED budget
       \/ (StopEnvironment \/ StartEnvironment) /\ Disturb
    /\ UNCHANGED <<procVars, services>>

\* Swarm finishes an update; its new tasks run.
Converge(s) ==
    /\ services[s].conv = "updating"
    /\ services' = [services EXCEPT ![s].conv = "converged"]
    /\ UNCHANGED <<storeVars, procVars, budget>>

\* Swarm pauses an update whose task failed.
UpdateFails(s) ==
    /\ "rollout" \in Errors
    /\ services[s].conv = "updating" /\ services[s].up
    /\ Disturb
    /\ services' = [services EXCEPT ![s].conv = "failed"]
    /\ UNCHANGED <<storeVars, procVars>>

\* Somebody removes a service.
Drift(s) ==
    /\ s \in Present
    /\ Disturb
    /\ services' = [services EXCEPT ![s] = Absent]
    /\ UNCHANGED <<storeVars, procVars>>

\* The daemon stops; a request in flight took effect or did not.
Crash ==
    /\ Disturb
    /\ daemon' = "starting"
    /\ scan' = IdleScan
    /\ repair' = [p \in Repairers |-> IdleRepair]
    /\ \/ UNCHANGED services
       \/ /\ scan.pc = "mutating"
          /\ services' = Mutated(scan.action, target[scan.op], scan.stopped)
       \/ \E p \in Repairers :
             /\ repair[p].pc = "mutating"
             /\ services' = Mutated(repair[p].action, repair[p].target, repair[p].stopped)
    /\ UNCHANGED storeVars

\* The first discovery pass recovers what the daemon left running; requests
\* may have been accepted before it.
Recover ==
    /\ daemon = "starting"
    /\ daemon' = "up"
    /\ IF \E o \in Ops : state[o] = "running"
         THEN RecoverInterrupted
         ELSE UNCHANGED storeVars
    /\ UNCHANGED <<scan, repair, services, budget>>

-----------------------------------------------------------------------------
RepairStep(p) ==
    MaintainActive(p) \/ PlanRepair(p) \/ LockRepair(p) \/ Repaired(p)

ExecutionStep ==
    \/ ScanOperation
    \/ DecideRun \/ DecidePlan
    \/ BeginRequested \/ BeginRunning
    \/ Prepare \/ RunJobs \/ PlanOperation \/ Publish
    \/ NothingToDo \/ SendRequest \/ Mutate \/ WaitService
    \/ Prune
    \/ SettleCancelled \/ Succeed \/ FinishDelete \/ Yield \/ Fail
    \/ PickRollback \/ AcceptRollback \/ Recheck

Failure ==
    \/ \E p \in Repairers : RepairFails(p)
    \/ JobFails \/ ExecutionFails \/ MutateFails
    \/ \E s \in Services : UpdateFails(s) \/ Drift(s)
    \/ Crash

Next ==
    \/ Discover \/ RefreshHealth
    \/ \E p \in Repairers : RepairStep(p)
    \/ ExecutionStep
    \/ DecideRetry \/ DecideNotDue
    \/ \E s \in Services : Converge(s)
    \/ Recover
    \/ ClientRequest
    \/ Failure

Spec == Init /\ [][Next]_vars

(* Fairness.  The event loop polls discovery and every job, so each step that  *)
(* stays possible is taken; the mutation lock is a fair queue, so whoever      *)
(* waits for it gets it although others take it in between (strong fairness);  *)
(* a backoff passes; Swarm finishes updates that do not fail.                  *)
Fairness ==
    /\ WF_vars(Discover)
    /\ WF_vars(RefreshHealth)
    /\ \A p \in Repairers : SF_vars(RepairStep(p))
    /\ SF_vars(ExecutionStep)
    /\ SF_vars(DecideRetry)
    /\ SF_vars(DecideRun)
    /\ \A s \in Services : WF_vars(Converge(s))
    /\ WF_vars(Recover)

FairSpec == Spec /\ Fairness

-----------------------------------------------------------------------------
(* What the reconciler guarantees *)

\* A Docker request is only ever sent, and stays in flight, for the target
\* that is active at that moment, and one at a time: publishing takes the
\* mutation lock and repair checks the operation under it, so a repair toward
\* the old target never outlives a promotion (publish, repair_once, retry).
RequestsFollowActiveTarget ==
    /\ \A p \in Repairers :
           repair[p].pc = "mutating" => /\ repair[p].target = resolved
                                        /\ repair[p].op \notin promoted
                                        /\ scan.pc # "mutating"
    /\ (scan.pc = "mutating" /\ scan.action.act = "ensure")
           => target[scan.op] = resolved /\ kind[scan.op] = "deploy"
    /\ Cardinality({p \in Repairers : repair[p].pc = "mutating"}) <= 1

\* Once a deletion finished nothing of the environment is left in Docker and
\* no request that could bring something back is in flight
\* (execute_operation, remove_jobs, finish_delete_operation).
DeletionLeavesNothing ==
    /\ RTypeOK
    /\ ~live => Present = {} /\ LockFree

\* A deployment that a failed job ended runs again only when a client asks:
\* no scan, retry, recovery or cleanup reopens it (scan_latest_operation).
JobFailuresWaitForClients ==
    [][\A o \in Ops :
          state[o] = "failed" /\ error[o] = "job" /\ state'[o] # "failed" /\ live'
            => Request /\ UNCHANGED procVars]_vars

\* Every step of the reconciler is a transaction the store allows, so what is
\* proved of the store holds of the whole system.
ImplementsStore == StoreSpec

\* The latest operation does not stay open, or failed for a reason that is
\* retried, for ever: it succeeds, fails for good, is replaced by a newer one,
\* or is gone with its environment (run_operation_inner, retry_due).
Unsettled(o) ==
    live /\ o = count /\ (state[o] \in Open \/ error[o] = "retryable")
OperationsSettle == \A o \in Ops : Unsettled(o) ~> ~Unsettled(o)

\* Stopping an environment stops its services, whatever its latest operation
\* is doing, how often that fails or crashes, and also when it is a rollback:
\* they are down in the end, unless the stop was taken back before.  A client
\* takes it back by starting the environment or requesting an operation; so
\* does the automatic rollback of the stopped deployment, which the user
\* documentation does not name (environments.md), and nothing else does.
StopTakesEffect ==
    /\ stopped ~> (~stopped \/ \A s \in Services : ~services[s].up)
    /\ [][stopped /\ ~stopped' /\ live'
            => Request \/ rolledBack'[count'] = count]_vars

\* In the end a deployment that succeeded is what runs, and nothing else.
SuccessIsMaintained ==
    <>[](live /\ count # 0 /\ state[count] = "succeeded"
           => /\ \A s \in Wanted[target[count]] : Runs(s, target[count], stopped)
              /\ Present = Wanted[target[count]])

=============================================================================
