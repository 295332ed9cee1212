------------------------------- MODULE JobRuns -------------------------------
(***************************************************************************)
(* The jobs a deployment runs before its rollout                           *)
(* (apps/piqueld/src/reconcile/jobs.rs, docker/jobs.rs), over the rows of  *)
(* OperationStore and the job services, tasks and containers of Docker.    *)
(*                                                                         *)
(* One service of the environment, the application, mounts the volume that *)
(* exclusive jobs write: such a job stops it before it runs.  The scan     *)
(* runs the jobs; beside it the health job restores the application.  Both *)
(* write to Docker under the mutation lock, but what they check first is   *)
(* read in several requests, and Swarm works on between them.              *)
(*                                                                         *)
(* Left to Reconciler: planning and repair of other services, routes, and  *)
(* stopping the environment.  The rollout after the jobs is one publish    *)
(* and one write of the application.                                       *)
(***************************************************************************)
EXTENDS OperationStore, Sequences

CONSTANTS
    MaxJobs,       \* the jobs 1 .. MaxJobs, in declared order
    Exclusive,     \* those that use the volume exclusively
    Disturbances   \* bound on failures, crashes and timeouts

ASSUME MaxJobsAssumption == MaxJobs \in Nat
ASSUME ExclusiveAssumption == Exclusive \subseteq 1 .. MaxJobs
ASSUME JobDisturbancesAssumption == Disturbances \in Nat
ASSUME JobErrorsAssumption == {"job", "retryable"} \subseteq Errors

VARIABLES
    daemon,    \* "starting" until startup recovery ran, then "up"
    scan,      \* the scan job of the environment
    repair,    \* the read that a repair of the application is at, or 0
    docker,    \* the application and the job runs in Docker
    recorded,  \* the runs whose success is in build history
    done,      \* history: the runs that exited successfully
    ended,     \* history: operations that recorded a job's failure, or lost
               \* a run to somebody else
    budget     \* disturbances left

jobVars == <<daemon, scan, repair, docker, recorded, done, ended, budget>>
vars == <<storeVars, jobVars>>

Jobs == 1 .. MaxJobs

\* A run is a job of an operation.  The application is the unit beside them.
Runs == Jobs \X Ops
App == <<0, 0>>
Units == Runs \cup {App}
RunsOf(o) == {r \in Runs : r[2] = o}

\* A unit's service, a task of it that has not stopped, its container, and how
\* a run exited.  A removed service leaves its task and container to stop.
Gone == [svc |-> FALSE, task |-> FALSE, ctr |-> FALSE, exit |-> "none"]
Created == [Gone EXCEPT !.svc = TRUE]

IdleScan == [pc |-> "idle", op |-> 0, job |-> 0, cancelled |-> FALSE,
             back |-> "scan", pending |-> {}, step |-> 0, result |-> "ok"]

ScanPc == {"idle", "cleanup", "stop", "stopped", "scan", "prepare", "jobs",
           "stale", "staleStopped", "next", "job", "await", "start",
           "starting", "wait", "record", "request", "after", "rollout",
           "ensuring", "settle"}

JTypeOK ==
    /\ daemon \in {"starting", "up"}
    /\ scan \in [pc : ScanPc, op : Targets, job : 0 .. MaxJobs,
                 cancelled : BOOLEAN, back : {"scan", "job", "after"},
                 pending : SUBSET Ops, step : (0 .. 6) \cup Ops,
                 result : {"ok", "yield"} \cup Errors]
    /\ repair \in 0 .. 4
    /\ docker \in [Units -> [svc : BOOLEAN, task : BOOLEAN, ctr : BOOLEAN,
                             exit : {"none", "ok", "failed"}]]
    /\ recorded \in SUBSET done
    /\ done \in SUBSET Runs
    /\ ended \in SUBSET Ops
    /\ budget \in 0 .. Disturbances
    \* One service of a job at a time: they share its name.
    /\ \A r, q \in Runs : docker[r].svc /\ docker[q].svc /\ r[1] = q[1] => r = q

JInit ==
    /\ StoreInit
    /\ daemon = "starting"
    /\ scan = IdleScan
    /\ repair = 0
    /\ docker = [u \in Units |-> Gone]
    /\ recorded = {}
    /\ done = {}
    /\ ended = {}
    /\ budget = Disturbances

-----------------------------------------------------------------------------
(* The Docker adapter *)

\* The mutation lock is held across the reads of a check.
LockFree == scan.pc \notin {"starting", "ensuring"} /\ repair = 0

Disturb == budget > 0 /\ budget' = budget - 1

\* inspect_job
Status(r) ==
    IF ~docker[r].svc THEN "missing"
    ELSE IF docker[r].exit = "none" THEN "running"
    ELSE docker[r].exit

Resumable(r) == Status(r) \in {"running", "ok"}

\* remove_owned_jobs: deletes the services of `rs'.
WithoutServices(rs) ==
    [u \in Units |-> IF u \in rs THEN [docker[u] EXCEPT !.svc = FALSE] ELSE docker[u]]

\* One read of a check finds something: a part of the application, of a run of
\* `j', of a run that writes the volume, or of anything that mounts it.
Finds(read, j) ==
    LET part == read[2]
    IN  CASE read[1] = "app"     -> docker[App][part]
          [] read[1] = "job"     -> \E o \in Ops : docker[<<j, o>>][part]
          [] read[1] = "writers" -> \E r \in Runs : r[1] \in Exclusive /\ docker[r][part]
          [] read[1] = "holders" -> \E u \in Units : docker[u][part]

\* Mutant: containers are read before tasks.
CheckVolumesFreeContainersFirst ==
    << <<"writers", "svc">>, <<"writers", "ctr">>, <<"writers", "task">> >>

\* The reads of check_volumes_free, in order.
CheckVolumesFree ==
    << <<"writers", "svc">>, <<"writers", "task">>, <<"writers", "ctr">> >>

\* The reads of create_job, in order: jobs_stopped of the job's runs, then,
\* for an exclusive one, check_services_removed and services_stopped.
CheckStart(j) ==
    << <<"job", "task">>, <<"job", "ctr">> >>
      \o IF j \in Exclusive
           THEN << <<"app", "svc">>, <<"holders", "task">>, <<"holders", "ctr">> >>
           ELSE << >>

-----------------------------------------------------------------------------
(* Swarm *)

\* Swarm creates the task of a service, once for a job.
Schedule(u) ==
    /\ docker[u].svc /\ ~docker[u].task
    /\ u # App => docker[u].exit = "none" /\ ~docker[u].ctr
    /\ docker' = [docker EXCEPT ![u].task = TRUE]
    /\ UNCHANGED <<storeVars, daemon, scan, repair, recorded, done, ended, budget>>

StartContainer(u) ==
    /\ docker[u].task /\ ~docker[u].ctr /\ docker[u].exit = "none"
    /\ docker' = [docker EXCEPT ![u].ctr = TRUE]
    /\ UNCHANGED <<storeVars, daemon, scan, repair, recorded, done, ended, budget>>

\* The task of a removed service is reported stopped, before its container
\* exits or instead of starting it.
Reap(u) ==
    /\ ~docker[u].svc /\ docker[u].task
    /\ docker' = [docker EXCEPT ![u].task = FALSE]
    /\ UNCHANGED <<storeVars, daemon, scan, repair, recorded, done, ended, budget>>

\* The container of a removed service stops.
Stop(u) ==
    /\ ~docker[u].svc /\ docker[u].ctr
    /\ docker' = [docker EXCEPT ![u] = [@ EXCEPT !.ctr = FALSE, !.task = FALSE]]
    /\ UNCHANGED <<storeVars, daemon, scan, repair, recorded, done, ended, budget>>

\* A run exits.
Exit(r, code) ==
    /\ docker[r].svc /\ docker[r].ctr
    /\ docker' = [docker EXCEPT ![r] = [@ EXCEPT !.ctr = FALSE, !.task = FALSE,
                                                    !.exit = code]]
    /\ done' = IF code = "ok" THEN done \cup {r} ELSE done
    /\ IF code = "failed" THEN Disturb ELSE UNCHANGED budget
    /\ UNCHANGED <<storeVars, daemon, scan, repair, recorded, ended>>

\* Somebody removes the service of a run.
RunVanishes(r) ==
    /\ docker[r].svc
    /\ Disturb
    /\ docker' = WithoutServices({r})
    /\ ended' = ended \cup {r[2]}
    /\ UNCHANGED <<storeVars, daemon, scan, repair, recorded, done>>
-----------------------------------------------------------------------------
(* The scan, up to its jobs *)

GoTo(label) == scan' = [scan EXCEPT !.pc = label]
EndWith(res) == scan' = [scan EXCEPT !.pc = "settle", !.result = res]
EndScan == scan' = IdleScan

\* check_current
Current == live /\ scan.op = count /\ state[count] = "running"

\* A Docker write of the operation: retry checks that the operation is current
\* before and under the lock.
MayWrite == LockFree /\ Current /\ ~scan.cancelled
MustYield == ~Current \/ scan.cancelled

Run == <<scan.job, scan.op>>

\* Mutant: cleanup of superseded operations is forgotten.
PendingCleanupOfLatest == {o \in cleanup : o = count}

\* pending_job_cleanup: superseded operations included.
PendingCleanup == cleanup

\* A scan starts with the pending cleanup (scan_application); a newer
\* operation cancels the token of a running scan.
Discover ==
    /\ daemon = "up" /\ live /\ count # 0
    /\ \/ /\ scan.pc = "idle"
          /\ scan' = [IdleScan EXCEPT !.pc = "cleanup", !.op = count,
                                      !.pending = PendingCleanup]
       \/ /\ scan.pc # "idle" /\ scan.op # count /\ ~scan.cancelled
          /\ scan' = [scan EXCEPT !.cancelled = TRUE]
    /\ UNCHANGED <<storeVars, daemon, repair, docker, recorded, done, ended, budget>>

\* retry_job_cleanup: removes the runs of each pending operation, then goes
\* back to what asked for it.
CleanUp ==
    /\ scan.pc = "cleanup"
    /\ \/ /\ scan.pending = {}
          /\ GoTo(scan.back)
          /\ UNCHANGED docker
       \/ /\ LockFree
          /\ \E o \in scan.pending :
                /\ scan' = [scan EXCEPT !.pc = "stop", !.step = o]
                /\ docker' = WithoutServices(RunsOf(o))
    /\ UNCHANGED <<storeVars, daemon, repair, recorded, done, ended, budget>>

\* The two reads of jobs_stopped.
TasksLeft(rs) == \E r \in rs : docker[r].task
ContainersLeft(rs) == \E r \in rs : docker[r].ctr

\* stop_job_run: waits outside the lock until no task is left, and then no
\* container, and clears the intent.
RunsStopped ==
    LET o == scan.step
    IN  \/ /\ scan.pc = "stop" /\ ~TasksLeft(RunsOf(o))
           /\ GoTo("stopped")
           /\ UNCHANGED storeVars
        \/ /\ scan.pc = "stopped" /\ ContainersLeft(RunsOf(o))
           /\ GoTo("stop")
           /\ UNCHANGED storeVars
        \/ /\ scan.pc = "stopped" /\ ~ContainersLeft(RunsOf(o))
           /\ scan' = [scan EXCEPT !.pc = "cleanup", !.step = 0,
                                   !.pending = @ \ {o}]
           /\ IF o \in cleanup THEN FinishJobCleanup(o) ELSE UNCHANGED storeVars

FinishStopping ==
    /\ RunsStopped
    /\ UNCHANGED <<daemon, repair, docker, recorded, done, ended, budget>>

\* A removal failed or its wait timed out: the scan only notes it, a job's
\* fence fails the operation, and a finished run keeps its result.
CleanUpFails ==
    /\ scan.pc \in {"stop", "stopped"} \/ (scan.pc = "cleanup" /\ scan.pending # {})
    /\ Disturb
    /\ IF scan.back = "job"
         THEN scan' = [scan EXCEPT !.pc = "settle", !.result = "retryable", !.step = 0]
         ELSE scan' = [scan EXCEPT !.pc = scan.back, !.step = 0, !.pending = {}]
    /\ UNCHANGED <<storeVars, daemon, repair, docker, recorded, done, ended>>

\* scan_latest_operation and the begin of run_operation_inner: a requested
\* operation runs, a failure that is retried reopens it, and a deletion that
\* failed goes through requested.
ScanOperation ==
    LET o == scan.op
        st == state[o]
    IN  /\ scan.pc = "scan"
        /\ \/ /\ live /\ o = count /\ st = "requested"
              /\ TransitionOperation(o, "requested", "running", "none")
              /\ GoTo("prepare")
           \/ /\ live /\ o = count /\ st = "failed" /\ error[o] = "retryable"
              /\ RequestReconcile(o)
              /\ UNCHANGED scan
           \/ /\ live /\ o = count /\ st = "running" /\ error[o] # "none"
              /\ TransitionOperation(o, "running", "requested", "none")
              /\ UNCHANGED scan
           \/ /\ ~live \/ o # count \/ (st \in Terminal /\ error[o] # "retryable")
                 \/ attempt[o] = MaxAttempts
              /\ EndScan
              /\ UNCHANGED storeVars
        /\ UNCHANGED <<daemon, repair, docker, recorded, done, ended, budget>>

\* operation_request.  A deletion has no target.
Prepare ==
    /\ scan.pc = "prepare"
    /\ \/ MustYield /\ EndWith("yield") /\ UNCHANGED <<storeVars, budget>>
       \/ /\ Current
          /\ GoTo("jobs")
          /\ IF kind[scan.op] = "delete" \/ target[scan.op] # 0
               THEN UNCHANGED storeVars
               ELSE PrepareTarget(scan.op)
          /\ UNCHANGED budget
       \/ /\ kind[scan.op] = "deploy" /\ "other" \in Errors
          /\ Disturb
          /\ EndWith("other")
          /\ UNCHANGED storeVars
    /\ UNCHANGED <<daemon, repair, docker, recorded, done, ended>>

-----------------------------------------------------------------------------
(* run_jobs *)

\* The jobs `o' still has to run: none once published, and none in a restore.
PendingJobs(o) ==
    IF kind[o] = "delete" \/ target[o] # o \/ o \in promoted
      THEN {}
      ELSE {j \in Jobs : <<j, o>> \notin recorded}

\* Mutant: an operation without jobs leaves earlier runs alone.
StaleWithoutJobs(o) == IF PendingJobs(o) = {} THEN {} ELSE Runs \ RunsOf(o)

\* The runs that must not overlap the operation's: its own are kept only while
\* one may be resumed.
Stale(o) == IF PendingJobs(o) = {} THEN Runs ELSE Runs \ RunsOf(o)

\* remove_jobs of run_jobs and of a deletion.
RemoveStale ==
    /\ scan.pc = "jobs"
    /\ \/ scan.op \in promoted /\ GoTo("rollout") /\ UNCHANGED docker
       \/ /\ scan.op \notin promoted /\ MayWrite
          /\ docker' = WithoutServices(Stale(scan.op))
          /\ GoTo("stale")
       \/ /\ scan.op \notin promoted /\ MustYield
          /\ EndWith("yield") /\ UNCHANGED docker
    /\ UNCHANGED <<storeVars, daemon, repair, recorded, done, ended, budget>>

\* Mutant: runs of earlier operations may still be stopping.
StaleStoppedAtOnce ==
    /\ scan.pc = "stale"
    /\ GoTo("next")
    /\ UNCHANGED <<storeVars, daemon, repair, docker, recorded, done, ended, budget>>

\* wait_jobs_stopped: tasks, then containers.
StaleStopped ==
    /\ \/ scan.pc = "stale" /\ ~TasksLeft(Stale(scan.op)) /\ GoTo("staleStopped")
       \/ /\ scan.pc = "staleStopped"
          /\ IF ContainersLeft(Stale(scan.op)) THEN GoTo("stale") ELSE GoTo("next")
    /\ UNCHANGED <<storeVars, daemon, repair, docker, recorded, done, ended, budget>>

\* The next job in declared order, after the cleanup that is pending.
NextJob ==
    /\ scan.pc = "next"
    /\ IF PendingJobs(scan.op) = {}
         THEN GoTo("rollout")
         ELSE \E j \in PendingJobs(scan.op) :
                /\ \A k \in PendingJobs(scan.op) : j <= k
                /\ scan' = [scan EXCEPT !.pc = "cleanup", !.back = "job",
                                        !.job = j, !.pending = PendingCleanup]
    /\ UNCHANGED <<storeVars, daemon, repair, docker, recorded, done, ended, budget>>

\* prepare_job_dependencies: removes the application if the job stops it.
PrepareJob ==
    /\ scan.pc = "job"
    /\ IF scan.job \in Exclusive /\ docker[App].svc
         THEN \/ /\ MayWrite
                 /\ docker' = WithoutServices({App})
                 /\ UNCHANGED scan
              \/ MustYield /\ EndWith("yield") /\ UNCHANGED docker
         ELSE GoTo("await") /\ UNCHANGED docker
    /\ UNCHANGED <<storeVars, daemon, repair, recorded, done, ended, budget>>

\* execute_job waits outside the lock until what the job stops has stopped,
\* unless it resumes a run.
AwaitStopped ==
    /\ scan.pc = "await"
    /\ \/ /\ \/ scan.job \notin Exclusive
             \/ Resumable(Run)
             \/ \A u \in Units : ~docker[u].task /\ ~docker[u].ctr
          /\ GoTo("start")
       \/ /\ MustYield
          /\ scan' = [scan EXCEPT !.pc = "record", !.result = "yield"]
    /\ UNCHANGED <<storeVars, daemon, repair, docker, recorded, done, ended, budget>>

\* Mutant: a run that succeeded is started again.
ResumesRunning(r) == Status(r) = "running"

\* The runs that are resumed instead of started.
Resumes(r) == Resumable(r)

\* A run Docker knows is resumed; otherwise create_job removes the job's
\* service and starts its checks, under the lock.
StartJob ==
    /\ scan.pc = "start"
    /\ \/ /\ MayWrite /\ Resumes(Run)
          /\ GoTo("wait") /\ UNCHANGED docker
       \/ /\ MayWrite /\ ~Resumes(Run)
          /\ docker' = WithoutServices({<<scan.job, o>> : o \in Ops})
          /\ scan' = [scan EXCEPT !.pc = "starting", !.step = 1]
       \/ /\ MustYield
          /\ scan' = [scan EXCEPT !.pc = "record", !.result = "yield"]
          /\ UNCHANGED docker
    /\ UNCHANGED <<storeVars, daemon, repair, recorded, done, ended, budget>>

\* The checks of create_job, one read at a time, and the new service.
CreateJob ==
    LET reads == CheckStart(scan.job)
    IN  /\ scan.pc = "starting"
        /\ IF scan.step > Len(reads)
             THEN /\ docker' = [docker EXCEPT ![Run] = Created]
                  /\ scan' = [scan EXCEPT !.pc = "wait", !.step = 0]
             ELSE /\ scan' = IF Finds(reads[scan.step], scan.job)
                               THEN [scan EXCEPT !.pc = "start", !.step = 0]
                               ELSE [scan EXCEPT !.step = @ + 1]
                  /\ UNCHANGED docker
        /\ UNCHANGED <<storeVars, daemon, repair, recorded, done, ended, budget>>

\* wait_job and the rest of execute_job: a run that failed, vanished or passed
\* its deadline fails the operation at once.
WaitJob ==
    /\ scan.pc = "wait"
    /\ \/ /\ Status(Run) = "ok" /\ ~MustYield
          /\ scan' = [scan EXCEPT !.pc = "record", !.result = "ok"]
          /\ UNCHANGED <<storeVars, ended, budget>>
       \/ /\ \/ Status(Run) \in {"failed", "missing"} /\ UNCHANGED budget
             \/ Status(Run) = "running" /\ Disturb
          /\ Current
          /\ TransitionOperation(scan.op, "running", "failed", "job")
          /\ ended' = ended \cup {scan.op}
          /\ scan' = [scan EXCEPT !.pc = "record", !.result = "job"]
       \/ /\ MustYield
          /\ scan' = [scan EXCEPT !.pc = "record", !.result = "yield"]
          /\ UNCHANGED <<storeVars, ended, budget>>
    /\ UNCHANGED <<daemon, repair, docker, recorded, done>>

\* A failure that is retried: of run_job, which then decides about its run, or
\* of the execution around it.
FailAttempt ==
    scan' = [scan EXCEPT !.pc = IF @ \in {"await", "start", "starting", "wait"}
                                  THEN "record" ELSE "settle",
                         !.result = "retryable", !.step = 0]

\* Docker fails a request, a read or a wait; the run's outcome is unknown.
ExecutionFails ==
    /\ scan.pc \in {"jobs", "stale", "staleStopped", "job", "await", "start",
                    "starting", "wait", "rollout", "ensuring"}
    /\ Disturb
    /\ FailAttempt
    /\ UNCHANGED <<storeVars, daemon, repair, docker, recorded, done, ended>>

\* resumable: a retry of the operation may resume the run.
KeepsRun == scan.result = "retryable" \/ (scan.result = "yield" /\ Current)

\* The run whose success is to be recorded, if any.
SucceedingRun == IF scan.result = "ok" THEN {Run} ELSE {}

\* run_job records the outcome in build history.  A success that could not be
\* recorded keeps its run; the record may still be written later.
RecordRun ==
    /\ scan.pc = "record"
    /\ \/ /\ KeepsRun /\ GoTo("settle") /\ UNCHANGED <<recorded, budget>>
       \/ /\ ~KeepsRun /\ GoTo("request")
          /\ recorded' = recorded \cup SucceedingRun
          /\ UNCHANGED budget
       \/ /\ scan.result = "ok"
          /\ Disturb
          /\ EndWith("retryable")
          /\ recorded' \in {recorded, recorded \cup SucceedingRun}
    /\ UNCHANGED <<storeVars, daemon, repair, docker, done, ended>>

\* Then it requests the run's cleanup and attempts it, even if the request
\* could not be saved.
RequestCleanup ==
    /\ scan.pc = "request"
    /\ scan' = [scan EXCEPT !.pc = "cleanup", !.back = "after", !.pending = {scan.op}]
    /\ \/ RequestJobCleanup(scan.op) /\ UNCHANGED budget
       \/ Disturb /\ UNCHANGED storeVars
    /\ UNCHANGED <<daemon, repair, docker, recorded, done, ended>>

\* The next job follows a run that succeeded.
AfterRun ==
    /\ scan.pc = "after"
    /\ IF scan.result = "ok" THEN GoTo("next") ELSE GoTo("settle")
    /\ UNCHANGED <<storeVars, daemon, repair, docker, recorded, done, ended, budget>>

-----------------------------------------------------------------------------
(* The rollout, and the end of the scan *)

\* publish, then the write of the application; a deletion removes it.
Rollout ==
    /\ scan.pc = "rollout"
    /\ \/ /\ MustYield /\ EndWith("yield") /\ UNCHANGED <<storeVars, docker>>
       \/ /\ MayWrite /\ kind[scan.op] = "deploy"
          /\ PublishPrepared(scan.op)
          /\ scan' = [scan EXCEPT !.pc = "ensuring", !.step = 1]
          /\ UNCHANGED docker
       \/ /\ MayWrite /\ kind[scan.op] = "delete"
          /\ docker' = WithoutServices({App})
          /\ EndWith("ok")
          /\ UNCHANGED storeVars
    /\ UNCHANGED <<daemon, repair, recorded, done, ended, budget>>

\* ensure_service of the rollout: check_volumes_free, then the write.
EnsureApp ==
    /\ scan.pc = "ensuring"
    /\ IF scan.step > Len(CheckVolumesFree)
         THEN /\ docker' = [docker EXCEPT ![App].svc = TRUE]
              /\ scan' = [scan EXCEPT !.pc = "settle", !.result = "ok", !.step = 0]
         ELSE /\ scan' = IF Finds(CheckVolumesFree[scan.step], 0)
                           THEN [scan EXCEPT !.pc = "rollout", !.step = 0]
                           ELSE [scan EXCEPT !.step = @ + 1]
              /\ UNCHANGED docker
    /\ UNCHANGED <<storeVars, daemon, repair, recorded, done, ended, budget>>

\* A check found something on the last attempt of retry.
AttemptsRunOut ==
    /\ \/ /\ scan.pc = "starting" /\ scan.step <= Len(CheckStart(scan.job))
          /\ Finds(CheckStart(scan.job)[scan.step], scan.job)
       \/ /\ scan.pc = "ensuring" /\ scan.step <= Len(CheckVolumesFree)
          /\ Finds(CheckVolumesFree[scan.step], 0)
    /\ FailAttempt
    /\ UNCHANGED <<storeVars, daemon, repair, docker, recorded, done, ended, budget>>

\* The result is recorded on the operation, unless its token was cancelled.
Settle ==
    /\ scan.pc = "settle"
    /\ EndScan
    /\ IF scan.cancelled \/ ~Current
         THEN UNCHANGED storeVars
         ELSE CASE scan.result = "ok" ->
                     IF kind[scan.op] = "delete"
                       THEN FinishDeleteOperation(scan.op)
                       ELSE TransitionOperation(scan.op, "running", "succeeded", "none")
                [] scan.result = "yield" ->
                     TransitionOperation(scan.op, "running", "cancelled", "none")
                [] scan.result \in Errors ->
                     IF kind[scan.op] = "delete"
                       THEN RecordOperationError(scan.op, scan.result)
                       ELSE TransitionOperation(scan.op, "running", "failed", scan.result)
    /\ UNCHANGED <<daemon, repair, docker, recorded, done, ended, budget>>

-----------------------------------------------------------------------------
(* Repair of the active target *)

\* A failed job or a cancellation ended the deployment.  (A conflict that blocks
\* its plan, the third way to end, concerns resources that are not modelled.)
Ended(o) == state[o] = "cancelled" \/ (state[o] = "failed" /\ error[o] = "job")

\* Mutant: a prepared deployment keeps what its jobs stopped, ended or not.
RollingOutPrepared(o) == target[o] # 0

\* rolling_out: the deployment may still continue, or a run of it may still be
\* stopping.
RollingOut(o) == target[o] # 0 /\ (~Ended(o) \/ cleanup # {})

\* repair_once restores the application of the active target, under the lock;
\* preserve_job_prerequisites leaves it to a deployment whose jobs stop it.
StartRepair ==
    /\ daemon = "up" /\ LockFree
    /\ live /\ count # 0 /\ kind[count] = "deploy"
    /\ count \notin promoted /\ resolved # 0
    /\ ~docker[App].svc
    /\ ~(RollingOut(count) /\ Exclusive # {})
    /\ repair' = 1
    /\ UNCHANGED <<storeVars, daemon, scan, docker, recorded, done, ended, budget>>

\* ensure_service: check_volumes_free, then the write.
RepairApp ==
    /\ repair # 0
    /\ IF repair > Len(CheckVolumesFree)
         THEN repair' = 0 /\ docker' = [docker EXCEPT ![App].svc = TRUE]
         ELSE /\ repair' = IF Finds(CheckVolumesFree[repair], 0) THEN 0 ELSE repair + 1
              /\ UNCHANGED docker
    /\ UNCHANGED <<storeVars, daemon, scan, recorded, done, ended, budget>>

-----------------------------------------------------------------------------
(* Clients and the host *)

ClientRequest ==
    /\ RequestDeploy \/ RequestDelete \/ StartEnvironment
         \/ \E d \in Ops : RequestRestore(d)
    /\ UNCHANGED jobVars

\* The daemon stops.
Crash ==
    /\ Disturb
    /\ daemon' = "starting"
    /\ scan' = IdleScan
    /\ repair' = 0
    /\ UNCHANGED <<storeVars, docker, recorded, done, ended>>

\* recover_interrupted, on the first discovery pass.
Recover ==
    /\ daemon = "starting"
    /\ daemon' = "up"
    /\ IF \E o \in Ops : state[o] = "running"
         THEN RecoverInterrupted
         ELSE UNCHANGED storeVars
    /\ UNCHANGED <<scan, repair, docker, recorded, done, ended, budget>>

-----------------------------------------------------------------------------
ScanStep ==
    \/ CleanUp \/ FinishStopping
    \/ ScanOperation \/ Prepare
    \/ RemoveStale \/ StaleStopped \/ NextJob
    \/ PrepareJob \/ AwaitStopped \/ StartJob \/ CreateJob \/ WaitJob
    \/ RecordRun \/ RequestCleanup \/ AfterRun
    \/ Rollout \/ EnsureApp \/ Settle

SwarmStep(u) == Schedule(u) \/ StartContainer(u) \/ Reap(u) \/ Stop(u)

JNext ==
    \/ Discover \/ ScanStep
    \/ CleanUpFails \/ ExecutionFails \/ AttemptsRunOut
    \/ StartRepair \/ RepairApp
    \/ \E u \in Units : SwarmStep(u)
    \/ \E r \in Runs : RunVanishes(r) \/ \E code \in {"ok", "failed"} : Exit(r, code)
    \/ ClientRequest
    \/ Crash \/ Recover

JSpec == JInit /\ [][JNext]_vars

(* Fairness.  As in Reconciler; the attempts of a Docker request run out; Swarm *)
(* schedules, starts and stops what it is asked to.  Nothing makes a job exit.  *)
JFairness ==
    /\ WF_vars(Discover)
    /\ SF_vars(ScanStep)
    /\ SF_vars(AttemptsRunOut)
    /\ SF_vars(StartRepair)
    /\ WF_vars(RepairApp)
    /\ \A u \in Units : WF_vars(SwarmStep(u))
    /\ WF_vars(Recover)

JFairSpec == JSpec /\ JFairness

-----------------------------------------------------------------------------
(* What job execution guarantees *)

Starts(r) == ~docker[r].svc /\ docker'[r].svc

\* Runs never overlap: a run starts only when nothing of any run is left, not
\* of another operation, not of another job, and not of the run it replaces,
\* whatever crashed or was superseded in between (run_jobs, create_job).
RunsNeverOverlap ==
    [][\A r, q \in Runs : Starts(r) => ~docker[q].task /\ ~docker[q].ctr]_vars

\* The application never shares the volume with an exclusive run, even one
\* left by a superseded operation (create_job, check_volumes_free).
ExclusiveRunsAlone ==
    docker[App].ctr => \A r \in Runs : r[1] \in Exclusive => ~docker[r].ctr

\* A finished deletion leaves no run behind, not even a container that is
\* still stopping (remove_jobs).
DeletionStopsRuns ==
    /\ JTypeOK
    /\ ~live => \A r \in Runs : ~docker[r].svc /\ ~docker[r].task /\ ~docker[r].ctr

\* A run that succeeded is started again only if a job's failure was recorded
\* on its operation before, or somebody removed a run of it: no crash, lost
\* record, retry or cleanup reruns it (execute_job, run_job).
SuccessIsNotRerun ==
    [][\A r \in Runs : Starts(r) /\ r \in done => r[2] \in ended]_vars

\* Every requested cleanup completes, also for superseded operations and over
\* restarts (retry_job_cleanup).
CleanupCompletes == \A o \in Ops : (o \in cleanup) ~> (o \notin cleanup)

\* After a job failed, the application it stopped returns to the active
\* target, unless another operation takes over (rolling_out, repair_once).
StoppedServicesReturn ==
    \A o \in Ops : (live /\ o = count /\ resolved # 0 /\ Ended(o))
                      ~> (docker[App].svc \/ o # count \/ ~Ended(o))

=============================================================================
