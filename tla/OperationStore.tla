---------------------------- MODULE OperationStore ----------------------------
(***************************************************************************)
(* The durable rows the daemon keeps for ONE environment, and the SQLite   *)
(* transactions on them (apps/piqueld/src/store).  Every writer takes      *)
(* `begin_immediate', so each transaction is one atomic action here.       *)
(*                                                                         *)
(* Operations are numbered in creation order: `start_operation' gives each *)
(* a creation time after the newest one's, so "the latest operation" of    *)
(* every guard in the store is the one numbered `count'.                   *)
(*                                                                         *)
(* The environment's displayed status and the events are left out: no      *)
(* guard of the store or the reconciler reads them.                        *)
(*                                                                         *)
(* A target (`target_json', `resolved_json') is identified by the          *)
(* operation that prepared it; 0 is SQL NULL.                              *)
(*                                                                         *)
(* The specification lets any caller run any transaction at any time: what *)
(* the store itself guarantees, whatever the reconciler does.              *)
(***************************************************************************)
EXTENDS Naturals, FiniteSets

CONSTANTS
    MaxOps,       \* bound on the operations requested for the environment
    MaxAttempts,  \* bound on the attempts of one operation
    Errors        \* the diagnostic codes operations fail with

ASSUME MaxOpsAssumption == MaxOps \in Nat
ASSUME MaxAttemptsAssumption == MaxAttempts \in Nat

\* Diagnostic codes, by what the code tells apart: a job failure, a failed
\* rollout, an ownership or configuration conflict, a code `retryable'
\* accepts, and every other one.  "none" is SQL NULL.
ASSUME ErrorsAssumption ==
    Errors \subseteq {"job", "rollout", "conflict", "retryable", "other"}

Ops == 1 .. MaxOps
Targets == 0 .. MaxOps
Attempts == 0 .. MaxAttempts
Kinds == {"deploy", "delete"}

\* "absent" is an operation that was never requested.
States == {"absent", "requested", "running",
           "succeeded", "failed", "cancelled", "superseded"}
Terminal == {"succeeded", "failed", "cancelled", "superseded"}
Open == {"requested", "running"}

\* A row of deployment_attempts, or "none" before one is recorded.
Outcomes == {"none"} \cup Terminal

VARIABLES
    live,          \* the row of `environments' exists
    deleteIntent,  \* environments.delete_intent
    stopped,       \* environments.stopped
    resolved,      \* environments.resolved_json: the active target
    count,         \* the latest operation of the environment
    kind,          \* operations.kind
    state,         \* operations.state
    error,         \* operations.error_code
    attempt,       \* operations.attempt
    target,        \* operations.target_json
    promoted,      \* operations.promoted
    rolledBack,    \* deployments.origin_json: the deployment a restore rolled back
    succeededAt,   \* deployments.succeeded_at_ms IS NOT NULL
    outcome,       \* deployment_attempts.outcome_json
    cleanup        \* job_cleanup

envVars == <<live, deleteIntent, stopped, resolved>>
execVars == <<state, error, attempt, cleanup>>
rowVars == <<count, kind, target, promoted, rolledBack>>
historyVars == <<succeededAt, outcome>>
storeVars == <<envVars, execVars, rowVars, historyVars>>

TypeOK ==
    /\ live \in BOOLEAN
    /\ deleteIntent \in BOOLEAN
    /\ stopped \in BOOLEAN
    /\ resolved \in Targets
    /\ count \in Targets
    /\ kind \in [Ops -> Kinds]
    /\ state \in [Ops -> States]
    /\ error \in [Ops -> Errors \cup {"none"}]
    /\ attempt \in [Ops -> Attempts]
    /\ target \in [Ops -> Targets]
    /\ promoted \in SUBSET Ops
    /\ rolledBack \in [Ops -> Targets]
    /\ succeededAt \in SUBSET Ops
    /\ outcome \in [Ops -> [Attempts -> Outcomes]]
    /\ cleanup \in SUBSET Ops
    \* A row holds an error only while it failed, or keeps failing to delete.
    /\ \A o \in Ops : error[o] # "none" =>
           state[o] = "failed" \/ (state[o] = "running" /\ kind[o] = "delete")

\* A created environment that was never deployed.
StoreInit ==
    /\ live = TRUE
    /\ deleteIntent = FALSE
    /\ stopped = FALSE
    /\ resolved = 0
    /\ count = 0
    /\ kind = [o \in Ops |-> "deploy"]
    /\ state = [o \in Ops |-> "absent"]
    /\ error = [o \in Ops |-> "none"]
    /\ attempt = [o \in Ops |-> 0]
    /\ target = [o \in Ops |-> 0]
    /\ promoted = {}
    /\ rolledBack = [o \in Ops |-> 0]
    /\ succeededAt = {}
    /\ outcome = [o \in Ops |-> [n \in Attempts |-> "none"]]
    /\ cleanup = {}

-----------------------------------------------------------------------------
(* Rows of deployment_attempts *)

\* save_deployment_attempt: the attempt rows `history' after saving that the
\* current attempt of `o' ended as `result'.  A deletion has no deployment row
\* and records nothing.
SaveDeploymentAttempt(history, o, result) ==
    IF kind[o] = "deploy"
      THEN [history EXCEPT ![o][attempt[o]] = result]
      ELSE history

-----------------------------------------------------------------------------
(* Operations *)

CanTransition(from, to) ==
    \/ from = to
    \/ from = "requested" /\ to \in {"running", "cancelled", "superseded"}
    \/ from = "running" /\ to \in {"requested", "succeeded", "failed",
                                   "cancelled", "superseded"}
    \/ from \in {"succeeded", "failed", "cancelled"} /\ to = "requested"

\* Mutant: an operation that runs again goes on with its former attempt.
CountAttemptOnce(o, from, to) ==
    IF to = "running" /\ from # "running" /\ attempt[o] = 0
      THEN attempt' = [attempt EXCEPT ![o] = 1]
      ELSE UNCHANGED attempt

\* Each time an operation starts to run it counts an attempt of its own.
CountAttempt(o, from, to) ==
    IF to = "running" /\ from # "running"
      THEN /\ attempt[o] < MaxAttempts
           /\ attempt' = [attempt EXCEPT ![o] = @ + 1]
      ELSE UNCHANGED attempt

\* transition_operation: records a transition only of the latest operation.
TransitionOperation(o, from, to, code) ==
    /\ live
    /\ CanTransition(from, to)
    /\ (code # "none") <=> (to = "failed")
    /\ o = count
    /\ state[o] = from
    /\ CountAttempt(o, from, to)
    /\ state' = [state EXCEPT ![o] = to]
    /\ error' = [error EXCEPT ![o] = code]
    /\ cleanup' = IF code = "job" THEN cleanup \cup {o} ELSE cleanup
    /\ outcome' = IF to \in Terminal
                    THEN SaveDeploymentAttempt(outcome, o, to)
                    ELSE outcome
    /\ succeededAt' = IF to = "succeeded" /\ kind[o] = "deploy"
                        THEN succeededAt \cup {o}
                        ELSE succeededAt
    /\ UNCHANGED <<envVars, rowVars>>

\* record_operation_error: a deletion keeps running and shows its error.
RecordOperationError(o, code) ==
    /\ live
    /\ state[o] = "running"
    /\ error' = [error EXCEPT ![o] = code]
    /\ UNCHANGED <<envVars, state, attempt, cleanup, rowVars, historyVars>>

\* finish_delete_operation: the environment's rows go with it.  The row of an
\* environment is deleted only under its delete_intent, which
\* DeletionIsTheLastIntent shows a deletion always has.
FinishDeleteOperation(o) ==
    /\ live
    /\ state[o] = "running"
    /\ kind[o] = "delete"
    /\ deleteIntent
    /\ live' = FALSE
    /\ stopped' = FALSE
    /\ resolved' = 0
    /\ count' = 0
    /\ kind' = [p \in Ops |-> "deploy"]
    /\ state' = [p \in Ops |-> "absent"]
    /\ error' = [p \in Ops |-> "none"]
    /\ attempt' = [p \in Ops |-> 0]
    /\ target' = [p \in Ops |-> 0]
    /\ promoted' = {}
    /\ rolledBack' = [p \in Ops |-> 0]
    /\ succeededAt' = {}
    /\ outcome' = [p \in Ops |-> [n \in Attempts |-> "none"]]
    /\ cleanup' = {}
    /\ UNCHANGED deleteIntent

\* Mutant: the reset does not check that the operation is the latest.
RetriableIfEnded(o) ==
    \/ state[o] \in {"succeeded", "failed", "cancelled"}
    \/ state[o] = "running" /\ error[o] # "none"

\* The latest operations `retry_operation_on' resets.
Retriable(o) ==
    /\ o = count
    /\ \/ state[o] \in {"succeeded", "failed", "cancelled"}
       \/ state[o] = "running" /\ error[o] # "none"

\* The writes of retry_operation_on.
ResetToRequested(o) ==
    /\ state' = [state EXCEPT ![o] = "requested"]
    /\ error' = [error EXCEPT ![o] = "none"]

\* retry_operation: `IllegalTransition' and an operation returned unchanged
\* change nothing, and are not steps.
RetryOperation(o) ==
    /\ live
    /\ Retriable(o)
    /\ ResetToRequested(o)
    /\ UNCHANGED <<envVars, attempt, cleanup, rowVars, historyVars>>

\* request_reconcile: reopens the latest operation, only once it has ended.
RequestReconcile(o) ==
    /\ state[o] \in Terminal
    /\ RetryOperation(o)

\* recover_interrupted, at startup.
RecoverInterrupted ==
    LET interrupted == {o \in Ops : state[o] = "running"}
    IN  /\ interrupted # {}
        /\ outcome' = [o \in Ops |->
                          IF o \in interrupted
                            THEN SaveDeploymentAttempt(outcome, o, "cancelled")[o]
                            ELSE outcome[o]]
        /\ state' = [o \in Ops |->
                        IF o \in interrupted THEN "requested" ELSE state[o]]
        /\ error' = [o \in Ops |->
                        IF o \in interrupted THEN "none" ELSE error[o]]
        /\ UNCHANGED <<envVars, attempt, cleanup, rowVars, succeededAt>>

\* start_operation, from the operation rows `st' and attempt rows `oc' of its
\* transaction: supersedes what is open, requests operation count + 1, and
\* starts the environment unless the operation deletes it.
StartOperation(st, er, oc, k) ==
    LET superseded == {o \in Ops : st[o] \in Open}
    IN  /\ count < MaxOps
        /\ count' = count + 1
        /\ state' = [o \in Ops |-> IF o = count + 1 THEN "requested"
                                   ELSE IF o \in superseded THEN "superseded"
                                   ELSE st[o]]
        /\ error' = [o \in Ops |-> IF o \in superseded THEN "none" ELSE er[o]]
        /\ outcome' = [o \in Ops |->
                          IF o \in superseded
                            THEN SaveDeploymentAttempt(oc, o, "superseded")[o]
                            ELSE oc[o]]
        /\ kind' = [kind EXCEPT ![count + 1] = k]
        /\ stopped' = IF k = "delete" THEN stopped ELSE FALSE

-----------------------------------------------------------------------------
(* Requests on the environment *)

\* Mutant: a deletion intent is not checked.
AcceptsWhileLive == live

\* The environment exists and is not being deleted.
Accepts == live /\ ~deleteIntent

\* request_deploy_on
RequestDeploy ==
    /\ Accepts
    /\ StartOperation(state, error, outcome, "deploy")
    /\ UNCHANGED <<live, deleteIntent, resolved, attempt, cleanup, target,
                   promoted, rolledBack, succeededAt>>

\* request_delete_on
RequestDelete ==
    /\ Accepts
    /\ deleteIntent' = TRUE
    /\ StartOperation(state, error, outcome, "delete")
    /\ UNCHANGED <<live, resolved, attempt, cleanup, target, promoted,
                   rolledBack, succeededAt>>

\* restorable_on: the deployments that succeeded and recorded a target.
Restorable(d) == d \in succeededAt /\ target[d] # 0

\* Mutant: a restore carries the deployment it names, not the target that one
\* ran.
AcceptRestoreByName(st, er, oc, d, r) ==
    /\ Accepts
    /\ Restorable(d)
    /\ StartOperation(st, er, oc, "deploy")
    /\ target' = [target EXCEPT ![count + 1] = d]
    /\ rolledBack' = [rolledBack EXCEPT ![count + 1] = r]
    /\ UNCHANGED <<live, deleteIntent, resolved, attempt, cleanup, promoted,
                   succeededAt>>

\* accept_restore_on after the rows `st', `er', `oc', rolling back
\* deployment `r' unless it is 0: the restore carries the saved target.
AcceptRestore(st, er, oc, d, r) ==
    /\ Accepts
    /\ Restorable(d)
    /\ StartOperation(st, er, oc, "deploy")
    /\ target' = [target EXCEPT ![count + 1] = target[d]]
    /\ rolledBack' = [rolledBack EXCEPT ![count + 1] = r]
    /\ UNCHANGED <<live, deleteIntent, resolved, attempt, cleanup, promoted,
                   succeededAt>>

\* restore_on
RequestRestore(d) == AcceptRestore(state, error, outcome, d, 0)

\* Mutant: a failed rollback is rolled back too.
RollsBackAgain(o, code) ==
    /\ code = "rollout"
    /\ o \notin succeededAt

\* rolls_back, in an environment with automatic rollback: the rollout failed
\* of a deployment that is no rollback itself and never succeeded before.
RollsBack(o, code) ==
    /\ code = "rollout"
    /\ rolledBack[o] = 0
    /\ o \notin succeededAt

\* rollback_target: the newest other deployment that can be restored.
IsRollbackTarget(o, d) ==
    /\ Restorable(d)
    /\ d # o
    /\ \A e \in Ops : Restorable(e) /\ e # o => e <= d

\* roll_back: fails the running operation with the error of its rollout and
\* accepts the restore, in one transaction.
RollBack(o, code, d) ==
    /\ o = count
    /\ state[o] = "running"
    /\ AcceptRestore([state EXCEPT ![o] = "failed"],
                     [error EXCEPT ![o] = code],
                     SaveDeploymentAttempt(outcome, o, "failed"), d, o)

\* stop_on: a deployment that rolled out runs again to scale to zero.
StopEnvironment ==
    /\ Accepts
    /\ count > 0
    /\ stopped' = TRUE
    /\ IF count \in promoted /\ Retriable(count)
         THEN ResetToRequested(count)
         ELSE UNCHANGED <<state, error>>
    /\ UNCHANGED <<live, deleteIntent, resolved, attempt, cleanup, rowVars,
                   historyVars>>

\* start_on, which the reconcile and the start requests share.
StartEnvironment ==
    /\ live
    /\ count > 0
    /\ stopped' = IF deleteIntent THEN stopped ELSE FALSE
    /\ IF Retriable(count)
         THEN ResetToRequested(count)
         ELSE UNCHANGED <<state, error>>
    /\ UNCHANGED <<live, deleteIntent, resolved, attempt, cleanup, rowVars,
                   historyVars>>

-----------------------------------------------------------------------------
(* Preparation and publication of targets *)

\* save_prepared: the target is this operation's own.
SavePrepared(o) ==
    /\ live
    /\ o = count
    /\ state[o] = "running"
    /\ target' = [target EXCEPT ![o] = o]
    /\ UNCHANGED <<envVars, execVars, historyVars, count, kind, promoted, rolledBack>>

\* prepare_target: a saved target is reused, so a target is prepared once.
PrepareTarget(o) == target[o] = 0 /\ SavePrepared(o)

\* publish_prepared
PublishPrepared(o) ==
    /\ live
    /\ o = count
    /\ state[o] = "running"
    /\ target[o] # 0
    /\ resolved' = target[o]
    /\ promoted' = promoted \cup {o}
    /\ UNCHANGED <<live, deleteIntent, stopped, execVars, historyVars,
                   count, kind, target, rolledBack>>

-----------------------------------------------------------------------------
(* Job cleanup intent *)

\* request_job_cleanup: the row references an operation.
RequestJobCleanup(o) ==
    /\ live
    /\ state[o] # "absent"
    /\ cleanup' = cleanup \cup {o}
    /\ UNCHANGED <<envVars, state, error, attempt, rowVars, historyVars>>

\* finish_job_cleanup
FinishJobCleanup(o) ==
    /\ o \in cleanup
    /\ cleanup' = cleanup \ {o}
    /\ UNCHANGED <<envVars, state, error, attempt, rowVars, historyVars>>

-----------------------------------------------------------------------------
(* Requests clients make of the environment. *)
Request ==
    \/ RequestDeploy
    \/ RequestDelete
    \/ \E d \in Ops : RequestRestore(d)
    \/ StopEnvironment
    \/ StartEnvironment

(* Transactions the reconciler runs for operation `o', with the arguments   *)
(* its code gives them.  RequestJobCleanup and FinishJobCleanup change the  *)
(* cleanup intent only, which no guard here reads: JobRuns runs them.       *)
Execute(o) ==
    \/ TransitionOperation(o, "requested", "running", "none")
    \/ TransitionOperation(o, "running", "requested", "none")
    \/ TransitionOperation(o, "running", "succeeded", "none")
    \/ TransitionOperation(o, "running", "cancelled", "none")
    \/ \E code \in Errors : TransitionOperation(o, "running", "failed", code)
    \/ \E code \in Errors, d \in Ops :
           RollsBack(o, code) /\ IsRollbackTarget(o, d) /\ RollBack(o, code, d)
    \/ kind[o] = "delete" /\ \E code \in Errors : RecordOperationError(o, code)
    \/ FinishDeleteOperation(o)
    \/ RequestReconcile(o)
    \/ PrepareTarget(o)
    \/ PublishPrepared(o)

StoreNext ==
    \/ Request
    \/ \E o \in Ops : Execute(o)
    \/ RecoverInterrupted

StoreSpec == StoreInit /\ [][StoreNext]_storeVars

-----------------------------------------------------------------------------
(* What the store guarantees *)

\* Newest intent wins: only the latest operation is requested or running, so
\* accepting a request supersedes whatever was open (start_operation) and no
\* reset, recovery or transition ever reopens an older operation.
NewestIntentWins == \A o \in Ops : state[o] \in Open => o = count

\* The active target is the one the last published operation prepared or
\* carried: publish_prepared is refused to every operation but the latest, and
\* nothing else (a restore, a retry, a rewritten target) moves it.
ActiveTargetIsLastPublished ==
    IF promoted = {}
      THEN resolved = 0
      ELSE \E o \in promoted : /\ \A p \in promoted : p <= o
                               /\ resolved = target[o]
                               /\ target[o] # 0

\* A restore, and a restore of a restore to any depth, runs the very target an
\* earlier deployment prepared and succeeded with (accept_restore_on): the
\* chain of saved targets leads to it in one step, whatever failed, was
\* retried or was rolled back in between.
RestoresOnlySucceededTargets ==
    \A o \in Ops :
        LET t == target[o]
        IN  t \notin {0, o} => t < o /\ t \in succeededAt /\ target[t] = t

\* Automatic rollbacks end: what one rolled back is an earlier deployment that
\* failed for good, never succeeded, and is no rollback itself, and no other
\* operation rolls it back again.  So a rollback whose own rollout fails is
\* the last of its chain (rolls_back, roll_back).
RolledBackOnce ==
    \A o \in Ops :
        LET d == rolledBack[o]
        IN  d # 0 => /\ d < o
                     /\ state[d] = "failed" /\ d \notin succeededAt
                     /\ rolledBack[d] = 0
                     /\ \A p \in Ops : rolledBack[p] = d => p = o

\* Once a deletion is accepted it stays the latest operation: no deployment,
\* restore or automatic rollback slips in behind it (request_delete_on).
DeletionIsTheLastIntent ==
    /\ live => (deleteIntent <=> \E o \in Ops : kind[o] = "delete")
    /\ \A o \in Ops : kind[o] = "delete" => o = count

\* The outcome of the current attempt agrees with the operation: a deployment
\* that ended by itself recorded how, and an attempt in progress has no
\* outcome yet (transition_operation).
OutcomeAgreesWithState ==
    \A o \in Ops :
        kind[o] = "deploy" =>
            /\ state[o] \in {"succeeded", "failed", "cancelled"}
                   => outcome[o][attempt[o]] = state[o]
            /\ state[o] = "running" => outcome[o][attempt[o]] = "none"

\* "Attempt outcomes are retained until environment deletion" (persistence.md,
\* save_deployment_attempt): over retries, reopened operations, crashes and
\* rollbacks, no end of a later run replaces the one an attempt recorded.  One
\* step does, and is excepted here: a newer operation supersedes one that was
\* reset and has not run again, and overwrites its last outcome.
AttemptOutcomesAreRetained ==
    [][\A o \in Ops, n \in Attempts :
          outcome[o][n] # "none" /\ live'
          /\ ~(n = attempt[o] /\ state[o] = "requested" /\ state'[o] = "superseded")
            => outcome'[o][n] = outcome[o][n]]_storeVars

\* A superseded operation is never resurrected (retry_operation_on).
SupersededIsFinal ==
    [][\A o \in Ops : state[o] = "superseded" /\ live'
                        => state'[o] = "superseded"]_storeVars

\* What can be restored stays restorable with the same target as long as the
\* environment lives: a rollback target read before the failing transaction
\* (rollback_target) can still be accepted in it.
RestorableIsStable ==
    [][\A d \in Ops : Restorable(d) /\ live'
                        => Restorable(d)' /\ target'[d] = target[d]]_storeVars

=============================================================================
