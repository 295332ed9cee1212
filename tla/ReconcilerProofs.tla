--------------------------- MODULE ReconcilerProofs ---------------------------
(***************************************************************************)
(* Proofs about Reconciler, for every number of operations, attempts and   *)
(* disturbances, any services and any targets: every step of the           *)
(* reconciler is a transaction of the store or leaves its rows alone, so   *)
(* the theorems of OperationStoreProofs hold of the whole system; Docker   *)
(* requests follow the active target; a deletion leaves nothing behind;    *)
(* and a deployment that a failed job ended waits for a client.            *)
(***************************************************************************)
EXTENDS Reconciler, OperationStoreProofs, FiniteSetTheorems

\* A scan exists only while its environment does, and repairs within itself.
ScanLives ==
    /\ scan.pc # "idle" => live /\ scan.op <= count
    /\ scan.pc = "repair" <=> repair["scan"].pc # "idle"

\* A repair is of a deployment, toward a target that was active when it was
\* read, and still is unless its operation was replaced or published.
RepairsFollow ==
    \A p \in Repairers :
        /\ repair[p].pc # "idle" /\ live => repair[p].op \in Ops /\ repair[p].op <= count
        /\ repair[p].pc \in {"plan", "lock", "mutating"} =>
               /\ repair[p].target # 0
               /\ live => /\ kind[repair[p].op] = "deploy"
                          /\ repair[p].op = count /\ repair[p].op \notin promoted
                               => repair[p].target = resolved

\* Requests in flight: one at a time, and a repair's toward the active target.
OneRequest ==
    /\ \A p \in Repairers :
           repair[p].pc = "mutating" => /\ live
                                        /\ repair[p].target = resolved
                                        /\ repair[p].op \notin promoted
                                        /\ scan.pc # "mutating"
    /\ \A p, q \in Repairers :
           repair[p].pc = "mutating" /\ repair[q].pc = "mutating" => p = q

PublishedAreDeployments == \A o \in promoted : kind[o] = "deploy"

\* How far the execution of a deployment has come is in the rows.
Executing ==
    /\ scan.pc \in {"jobs", "plan", "publish", "act", "mutating"} =>
           kind[scan.op] = "delete" \/ target[scan.op] # 0
    /\ scan.pc = "publish" => kind[scan.op] = "deploy"
    /\ scan.pc \in {"act", "mutating"} =>
           IF kind[scan.op] = "deploy" THEN resolved = target[scan.op]
                                       ELSE scan.action.act # "ensure"

\* A deletion that is past remove_jobs has the services to itself, and one
\* that has nothing left to remove is right.
PastJobs ==
    \/ scan.pc \in {"plan", "act", "mutating"}
    \/ scan.pc \in {"prune", "settle"} /\ scan.result = "ok"

NothingLeft ==
    \/ scan.pc = "act" /\ scan.action = NoAction
    \/ scan.pc \in {"prune", "settle"} /\ scan.result = "ok"

Deleting ==
    scan.pc # "idle" /\ kind[scan.op] = "delete" =>
        /\ PastJobs => \A p \in Repairers : repair[p].pc # "mutating"
        /\ NothingLeft => Present = {}

\* The deployment an automatic rollback picked can still be restored in the
\* transaction that fails the operation.
RollbackPicked ==
    scan.pc = "rollback" =>
        /\ scan.result \in Errors
        /\ scan.restore \in Ops
        /\ Current => /\ RollsBack(scan.op, scan.result)
                      /\ IsRollbackTarget(scan.op, scan.restore)

\* A scan that found a failed operation knows why it failed, as long as it
\* stays failed.
FailureKnown ==
    /\ scan.pc \in {"repair", "decide"} /\ state[scan.op] = "failed" =>
           scan.state = "failed" /\ scan.error = error[scan.op]
    /\ scan.pc = "recheck" => state[scan.op] # "failed"

\* Updates fail only where rollouts can.
UpdatesFailAsRollouts ==
    \A s \in Services : services[s].conv = "failed" => "rollout" \in Errors

GoneLeavesNothing == ~live => Present = {}

RInv ==
    /\ StoreInv
    /\ RTypeOK
    /\ ScanLives
    /\ RepairsFollow
    /\ OneRequest
    /\ PublishedAreDeployments
    /\ Executing
    /\ Deleting
    /\ RollbackPicked
    /\ FailureKnown
    /\ UpdatesFailAsRollouts
    /\ GoneLeavesNothing

ScanRecord ==
    [pc : ScanPc, op : Targets, state : States, error : Errors \cup {"none"},
     cancelled : BOOLEAN, stopped : BOOLEAN, action : Action, result : Results,
     restore : Targets]

RepairRecord ==
    [pc : RepairPc, op : Targets, target : Targets, stopped : BOOLEAN, action : Action]

-----------------------------------------------------------------------------
(* Records and actions *)

(* The records of an idle scan and an idle repair. *)
LEMMA IdleTypes ==
    /\ IdleScan \in ScanRecord /\ IdleScan.pc = "idle"
    /\ IdleRepair \in RepairRecord /\ IdleRepair.pc = "idle"
<1>1. 0 \in Targets /\ NoAction \in Action /\ "ok" \in Results
  BY MaxOpsAssumption DEF Targets, Action, Results
<1>2. FALSE \in BOOLEAN
  OBVIOUS
<1>. HIDE DEF Action, NoAction, Targets, Results
<1>. QED
  BY <1>1, <1>2 DEF IdleScan, IdleRepair, ScanRecord, RepairRecord, ScanPc, RepairPc, States

(* A scan changes its label, and the result it ends with. *)
LEMMA ScanLabels ==
    ASSUME scan \in ScanRecord, NEW label \in ScanPc
    PROVE  /\ GoTo(label) => /\ scan' \in ScanRecord /\ scan'.pc = label
                             /\ scan'.op = scan.op /\ scan'.action = scan.action
                             /\ scan'.result = scan.result /\ scan'.restore = scan.restore
                             /\ scan'.state = scan.state /\ scan'.error = scan.error
           /\ \A res \in Results : EndWith(res) =>
                 /\ scan' \in ScanRecord /\ scan'.pc = "prune"
                 /\ scan'.op = scan.op /\ scan'.result = res
           /\ EndScan => scan' \in ScanRecord /\ scan'.pc = "idle"
<1>1. "prune" \in ScanPc
  BY DEF ScanPc
<1>. HIDE DEF Action, NoAction, Targets, Results, ScanPc, States
<1>2. ASSUME GoTo(label)
      PROVE  /\ scan' \in ScanRecord /\ scan'.pc = label
             /\ scan'.op = scan.op /\ scan'.action = scan.action
             /\ scan'.result = scan.result /\ scan'.restore = scan.restore
             /\ scan'.state = scan.state /\ scan'.error = scan.error
  BY <1>2 DEF GoTo, ScanRecord
<1>3. ASSUME NEW res \in Results, EndWith(res)
      PROVE  /\ scan' \in ScanRecord /\ scan'.pc = "prune"
             /\ scan'.op = scan.op /\ scan'.result = res
  BY <1>1, <1>3 DEF EndWith, ScanRecord
<1>4. EndScan => scan' \in ScanRecord /\ scan'.pc = "idle"
  BY IdleTypes DEF EndScan
<1>. QED
  BY <1>2, <1>3, <1>4

(* Every action of a reconcile plan names a service, a mutation or a wait. *)
LEMMA PlannedActions ==
    ASSUME NEW t \in Ops, NEW stop \in BOOLEAN
    PROVE  /\ \A a \in ReconcileActions(t, stop) :
                  a \in Action /\ a.act \in {"ensure", "wait", "remove"}
           /\ \A a \in Repairs(t, stop) : a \in Action /\ a.act \in {"ensure", "remove"}
<1>1. Wanted[t] \subseteq Services
  BY WantedAssumption
<1>2. Drifted(t, stop) \subseteq Services /\ Converging(t, stop) \subseteq Services
      /\ Present \subseteq Services
  BY <1>1 DEF Drifted, Converging, Present
<1>3. ASSUME NEW a \in ReconcileActions(t, stop)
      PROVE  a \in Action /\ a.act \in {"ensure", "wait", "remove"}
  <2>. HIDE DEF Drifted, Converging, Present
  <2>1. \E k \in {"ensure", "wait", "remove"}, S \in SUBSET Services :
            a \in [act : {k}, service : S]
    <3>1. Present \ Wanted[t] \in SUBSET Services
      BY <1>2
    <3>. QED
      BY <1>2, <1>3, <3>1 DEF ReconcileActions
  <2>. QED
    BY <2>1 DEF Action
<1>. QED
  BY <1>3 DEF Repairs

(* A deletion removes what is present, and is done when nothing is. *)
LEMMA DeletionPlan ==
    ASSUME NEW a \in First(DeletionActions)
    PROVE  /\ a \in Action /\ a.act \in {"none", "remove"}
           /\ a = NoAction => Present = {}
<1>1. Present \subseteq Services
  BY DEF Present
<1>. HIDE DEF Present
<1>2. CASE DeletionActions = {}
  <2>1. a = NoAction
    BY <1>2 DEF First
  <2>2. Present = {}
    <3>1. \A s \in Present : [act |-> "remove", service |-> s] \in DeletionActions
      BY DEF DeletionActions
    <3>. QED
      BY <1>2, <3>1
  <2>. QED
    BY <2>1, <2>2 DEF Action, NoAction
<1>3. CASE DeletionActions # {}
  <2>1. a \in [act : {"remove"}, service : Present]
    BY <1>3 DEF First, DeletionActions
  <2>2. a.act = "remove" /\ a \in [act : {"ensure", "wait", "remove"}, service : Services]
    BY <1>1, <2>1
  <2>. QED
    BY <2>2 DEF Action, NoAction
<1>. QED
  BY <1>2, <1>3

(* A disturbance uses up the budget. *)
LEMMA DisturbType ==
    ASSUME budget \in 0 .. Disturbances, Disturb
    PROVE  budget' \in 0 .. Disturbances
BY DisturbancesAssumption DEF Disturb

(* Docker carries out a request. *)
LEMMA MutatedServices ==
    ASSUME services \in [Services -> Service], NEW a \in Action,
           a.act \in {"ensure", "remove"}, NEW t \in Targets, NEW stop \in BOOLEAN
    PROVE  /\ a.service \in Services
           /\ Mutated(a, t, stop) \in [Services -> Service]
           /\ \A s \in Services : Mutated(a, t, stop)[s] = services[s]
                                    \/ Mutated(a, t, stop)[s].conv # "failed"
<1>1. a.service \in Services
  BY DEF Action, NoAction
<1>2. (~stop) \in BOOLEAN /\ 0 \in Targets
  BY MaxOpsAssumption DEF Targets
<1>. HIDE DEF Targets
<1>. DEFINE new == IF a.act = "remove" THEN Absent
                   ELSE [target |-> t, up |-> ~stop, conv |-> "updating"]
<1>3. new \in Service /\ new.conv # "failed"
  BY <1>2 DEF Absent, Service
<1>4. Mutated(a, t, stop) = [services EXCEPT ![a.service] = new]
  BY DEF Mutated
<1>. HIDE DEF new
<1>. QED
  BY <1>1, <1>3, <1>4

-----------------------------------------------------------------------------
(* What transactions keep of the rows the reconciler has read *)

\* The environment, its active target and the rows there are stay; rows may be
\* added, and a missing target saved.
RowsKept ==
    /\ live' = live /\ resolved' = resolved /\ promoted' = promoted
    /\ count' >= count
    /\ \A o \in Ops : o <= count => /\ kind'[o] = kind[o]
                                    /\ target[o] # 0 => target'[o] = target[o]

\* No row starts to run or fails, and what can be restored stays.
OutcomesKept ==
    /\ succeededAt' = succeededAt
    /\ \A o \in Ops : o <= count =>
           /\ state'[o] = "running" => state[o] = "running"
           /\ state'[o] = "failed" => state[o] = "failed" /\ error'[o] = error[o]
           /\ target'[o] = target[o] /\ rolledBack'[o] = rolledBack[o]

(* A step that leaves the rows alone keeps them. *)
LEMMA UnchangedRows ==
    ASSUME StoreInv, UNCHANGED storeVars
    PROVE  StoreInv' /\ RowsKept /\ OutcomesKept
<1>1. /\ live' = live /\ deleteIntent' = deleteIntent /\ stopped' = stopped
      /\ resolved' = resolved /\ state' = state /\ error' = error /\ attempt' = attempt
      /\ cleanup' = cleanup /\ count' = count /\ kind' = kind /\ target' = target
      /\ promoted' = promoted /\ rolledBack' = rolledBack
      /\ succeededAt' = succeededAt /\ outcome' = outcome
  BY Zenon DEF storeVars, envVars, execVars, rowVars, historyVars
<1>2. StoreInv'
  BY StepInv DEF storeVars
<1>3. count' >= count
  BY <1>1 DEF StoreInv, TypeOK, Targets
<1>. QED
  BY <1>1, <1>2, <1>3 DEF RowsKept, OutcomesKept

(* Transitions, errors, resets and the recovery write states and errors only. *)
LEMMA StatesOnly ==
    ASSUME StoreInv, NEW o \in Ops,
           \/ \E from, to, code : TransitionOperation(o, from, to, code)
           \/ \E code : RecordOperationError(o, code)
           \/ RequestReconcile(o)
           \/ RecoverInterrupted
    PROVE  RowsKept
<1>1. /\ live' = live /\ resolved' = resolved /\ count' = count /\ kind' = kind
      /\ target' = target /\ promoted' = promoted
  <2>1. UNCHANGED envVars /\ UNCHANGED rowVars
    BY Zenon DEF TransitionOperation, RecordOperationError, RequestReconcile, RetryOperation,
                 RecoverInterrupted
  <2>. QED
    BY <2>1 DEF envVars, rowVars
<1>2. count' >= count
  BY <1>1 DEF StoreInv, TypeOK, Targets
<1>. QED
  BY <1>1, <1>2 DEF RowsKept

(* Preparing a target saves a missing one. *)
LEMMA PrepareKeeps ==
    ASSUME StoreInv, NEW o \in Ops, PrepareTarget(o)
    PROVE  RowsKept /\ target'[o] = o /\ o \in Ops
<1>1. /\ live' = live /\ resolved' = resolved /\ count' = count /\ kind' = kind
      /\ promoted' = promoted
      /\ target[o] = 0 /\ target' = [target EXCEPT ![o] = o]
  BY Zenon DEF PrepareTarget, SavePrepared, envVars
<1>2. count' >= count /\ target \in [Ops -> Targets]
  BY <1>1 DEF StoreInv, TypeOK, Targets
<1>. QED
  BY <1>1, <1>2 DEF RowsKept

(* Recovery only reopens what ran. *)
LEMMA RecoverKeeps ==
    ASSUME StoreInv, RecoverInterrupted
    PROVE  OutcomesKept
<1>1. /\ state' = [o \in Ops |-> IF state[o] = "running" THEN "requested" ELSE state[o]]
      /\ error' = [o \in Ops |-> IF state[o] = "running" THEN "none" ELSE error[o]]
  BY DEF RecoverInterrupted
<1>2. target' = target /\ rolledBack' = rolledBack /\ succeededAt' = succeededAt
  BY Zenon DEF RecoverInterrupted, rowVars
<1>. QED
  BY <1>1, <1>2 DEF OutcomesKept

(* A started operation is a new row, and supersedes what is open. *)
LEMMA StartKeeps ==
    ASSUME StoreInv, NEW st, NEW er, NEW oc, NEW k,
           StartOperation(st, er, oc, k)
    PROVE  /\ count' = count + 1 /\ count' >= count /\ count + 1 \in Ops
           /\ \A o \in Ops : o <= count => o # count + 1 /\ kind'[o] = kind[o]
           /\ \A o \in Ops : o <= count =>
                  /\ state'[o] # "running"
                  /\ state'[o] = "failed" => st[o] = "failed" /\ error'[o] = er[o]
<1>1. count \in 0 .. MaxOps /\ count < MaxOps /\ count' = count + 1
      /\ kind \in [Ops -> Kinds]
  BY DEF StoreInv, TypeOK, Targets, StartOperation
<1>2. count' >= count /\ count + 1 \in Ops /\ \A o \in Ops : o <= count => o # count + 1
  BY <1>1, MaxOpsAssumption DEF Ops
<1>3. kind' = [kind EXCEPT ![count + 1] = k]
  BY DEF StartOperation
<1>4. \A o \in Ops : o # count + 1 => kind'[o] = kind[o]
  BY <1>1, <1>2, <1>3
<1>5. ASSUME NEW o \in Ops, o # count + 1
      PROVE  /\ state'[o] # "running"
             /\ state'[o] = "failed" => st[o] = "failed" /\ error'[o] = er[o]
  <2>1. /\ state'[o] = IF st[o] \in Open THEN "superseded" ELSE st[o]
        /\ error'[o] = IF st[o] \in Open THEN "none" ELSE er[o]
    BY <1>5 DEF StartOperation
  <2>. QED
    BY <2>1 DEF Open
<1>. QED
  BY <1>1, <1>2, <1>4, <1>5

(* A restore is a new row with a saved target. *)
LEMMA RestoreKeeps ==
    ASSUME StoreInv, NEW st, NEW er, NEW oc, NEW d \in Ops, NEW r,
           AcceptRestore(st, er, oc, d, r)
    PROVE  /\ RowsKept
           /\ succeededAt' = succeededAt
           /\ \A o \in Ops : o <= count =>
                  target'[o] = target[o] /\ rolledBack'[o] = rolledBack[o]
<1>1. /\ live' = live /\ resolved' = resolved /\ promoted' = promoted
      /\ succeededAt' = succeededAt
      /\ target' = [target EXCEPT ![count + 1] = target[d]]
      /\ rolledBack' = [rolledBack EXCEPT ![count + 1] = r]
      /\ StartOperation(st, er, oc, "deploy")
  BY Zenon DEF AcceptRestore
<1>2. target \in [Ops -> Targets] /\ rolledBack \in [Ops -> Targets]
  BY DEF StoreInv, TypeOK
<1>3. /\ count' >= count /\ count + 1 \in Ops
      /\ \A o \in Ops : o <= count => o # count + 1 /\ kind'[o] = kind[o]
  BY <1>1, StartKeeps, Zenon
<1>. QED
  BY <1>1, <1>2, <1>3 DEF RowsKept

(* Requests of clients add rows, reopen the latest operation, or change only  *)
(* whether the environment is stopped.                                        *)
LEMMA RequestKeeps ==
    ASSUME StoreInv, Request
    PROVE  RowsKept /\ OutcomesKept
<1>1. count >= count /\ count \in Targets /\ state \in [Ops -> States]
      /\ error \in [Ops -> Errors \cup {"none"}]
  BY DEF StoreInv, TypeOK, Targets
<1>2. CASE RequestDeploy \/ RequestDelete
  <2>1. PICK k : StartOperation(state, error, outcome, k)
    BY <1>2, Zenon DEF RequestDeploy, RequestDelete
  <2>2. /\ live' = live /\ resolved' = resolved /\ promoted' = promoted /\ target' = target
        /\ rolledBack' = rolledBack /\ succeededAt' = succeededAt
    BY <1>2, Zenon DEF RequestDeploy, RequestDelete
  <2>. QED
    BY <2>1, <2>2, StartKeeps DEF RowsKept, OutcomesKept
<1>3. CASE \E d \in Ops : RequestRestore(d)
  <2>1. PICK d \in Ops : AcceptRestore(state, error, outcome, d, 0)
    BY <1>3 DEF RequestRestore
  <2>2. StartOperation(state, error, outcome, "deploy")
    BY <2>1 DEF AcceptRestore
  <2>3. /\ RowsKept /\ succeededAt' = succeededAt
        /\ \A o \in Ops : o <= count =>
               target'[o] = target[o] /\ rolledBack'[o] = rolledBack[o]
    BY <2>1, RestoreKeeps
  <2>. QED
    BY <2>2, <2>3, StartKeeps DEF OutcomesKept
<1>4. CASE StopEnvironment \/ StartEnvironment
  <2>1. /\ live' = live /\ resolved' = resolved /\ promoted' = promoted /\ target' = target
        /\ rolledBack' = rolledBack /\ succeededAt' = succeededAt /\ count' = count
        /\ kind' = kind
    BY <1>4, Zenon DEF StopEnvironment, StartEnvironment, rowVars, historyVars
  <2>2. \/ UNCHANGED <<state, error>>
        \/ ResetToRequested(count) /\ count > 0
    BY <1>4 DEF StopEnvironment, StartEnvironment
  <2>3. \A o \in Ops : /\ state'[o] = "running" => state[o] = "running"
                       /\ state'[o] = "failed" => state[o] = "failed" /\ error'[o] = error[o]
    <3>1. CASE UNCHANGED <<state, error>>
      BY <3>1
    <3>2. CASE ResetToRequested(count) /\ count > 0
      <4>1. state' = [state EXCEPT ![count] = "requested"]
            /\ error' = [error EXCEPT ![count] = "none"]
        BY <3>2 DEF ResetToRequested
      <4>. QED
        BY <1>1, <4>1
    <3>. QED
      BY <2>2, <3>1, <3>2
  <2>. QED
    BY <1>1, <2>1, <2>3 DEF RowsKept, OutcomesKept
<1>. QED
  BY <1>2, <1>3, <1>4 DEF Request

-----------------------------------------------------------------------------
(* Every step of the reconciler is a transaction or leaves the rows alone *)

(* The scanned operation has a row. *)
LEMMA ScannedRow ==
    ASSUME RInv, scan.pc # "idle"
    PROVE  scan.op \in Ops /\ scan.op <= count /\ live
<1>1. scan.op # 0 /\ scan.op \in Targets /\ scan.op <= count /\ live
  BY DEF RInv, RTypeOK, ScanLives
<1>. QED
  BY <1>1, MaxOpsAssumption DEF Ops, Targets

(* request_reconcile of the scanned operation. *)
LEMMA ReopenRefines ==
    ASSUME RInv, scan.pc # "idle", ReopenAndRun
    PROVE  UNCHANGED storeVars \/ RequestReconcile(scan.op)
BY DEF ReopenAndRun

(* fail_operation. *)
LEMMA FailOperationRefines ==
    ASSUME RInv, scan.pc # "idle", scan.result \in Errors, FailOperation
    PROVE  \/ UNCHANGED storeVars
           \/ \E code \in Errors : TransitionOperation(scan.op, "running", "failed", code)
BY DEF FailOperation

(* An automatic rollback restores a deployment the store accepts. *)
LEMMA RollbackRefines ==
    ASSUME RInv, AcceptRollback
    PROVE  \/ UNCHANGED storeVars
           \/ \E code \in Errors : TransitionOperation(scan.op, "running", "failed", code)
           \/ \E code \in Errors, d \in Ops :
                  RollsBack(scan.op, code) /\ IsRollbackTarget(scan.op, d)
                    /\ RollBack(scan.op, code, d)
<1>1. scan.pc = "rollback" /\ scan.pc # "idle"
  BY DEF AcceptRollback
<1>2. /\ scan.result \in Errors /\ scan.restore \in Ops
      /\ Current => RollsBack(scan.op, scan.result) /\ IsRollbackTarget(scan.op, scan.restore)
  BY <1>1 DEF RInv, RollbackPicked
<1>3. CASE Current /\ RollBack(scan.op, scan.result, scan.restore)
  BY <1>2, <1>3
<1>4. CASE FailOperation
  BY <1>1, <1>2, <1>4, FailOperationRefines
<1>. QED
  BY <1>3, <1>4 DEF AcceptRollback

(* The steps of a scan that write rows are transactions for its operation. *)
LEMMA ScanRefines ==
    ASSUME RInv, ExecutionStep \/ DecideRetry \/ JobFails
    PROVE  UNCHANGED storeVars \/ (scan.pc # "idle" /\ Execute(scan.op))
<1>. USE DEF Execute
<1>1. CASE DecideRetry \/ DecidePlan
  <2>1. scan.pc = "decide"
    BY <1>1 DEF DecideRetry, DecidePlan
  <2>2. UNCHANGED storeVars \/ ReopenAndRun
    BY <1>1 DEF DecideRetry, DecidePlan
  <2>. QED
    BY <2>1, <2>2, ReopenRefines
<1>2. CASE BeginRequested \/ BeginRunning
  BY <1>2 DEF BeginRequested, BeginRunning
<1>3. CASE Prepare \/ Publish
  BY <1>3 DEF Prepare, Publish
<1>4. CASE JobFails
  <2>1. scan.pc = "jobs" /\ "job" \in Errors
        /\ TransitionOperation(scan.op, "running", "failed", "job")
    BY <1>4 DEF JobFails
  <2>. QED
    BY <2>1
<1>5. CASE Succeed \/ Yield
  BY <1>5 DEF Succeed, Yield
<1>6. CASE FinishDelete
  BY <1>6 DEF FinishDelete
<1>7. CASE Fail
  <2>1. scan.pc = "settle" /\ scan.result \in Errors
    BY <1>7 DEF Fail
  <2>2. CASE kind[scan.op] = "delete"
    BY <1>7, <2>1, <2>2 DEF Fail
  <2>3. CASE kind[scan.op] # "delete"
    <3>1. FailOperation
      BY <1>7, <2>3 DEF Fail
    <3>. QED
      BY <2>1, <3>1, FailOperationRefines
  <2>. QED
    BY <2>2, <2>3
<1>8. CASE AcceptRollback
  <2>1. scan.pc = "rollback"
    BY <1>8 DEF AcceptRollback
  <2>. QED
    BY <1>8, <2>1, RollbackRefines
<1>9. CASE Recheck
  BY <1>9 DEF Recheck
<1>10. CASE \/ ScanOperation \/ DecideRun \/ RunJobs \/ PlanOperation \/ NothingToDo
            \/ SendRequest \/ Mutate \/ WaitService \/ Prune \/ SettleCancelled \/ PickRollback
  BY <1>10, Zenon DEF ScanOperation, DecideRun, RunJobs, PlanOperation, NothingToDo,
     SendRequest, Mutate, WaitService, Prune, SettleCancelled, PickRollback
<1>. QED
  BY <1>1, <1>2, <1>3, <1>4, <1>5, <1>6, <1>7, <1>8, <1>9, <1>10 DEF ExecutionStep

(* So is every other step, but the recovery and the requests of clients. *)
LEMMA StepRefines ==
    ASSUME RInv, [Next]_vars
    PROVE  [StoreNext]_storeVars
<1>1. CASE ExecutionStep \/ DecideRetry \/ JobFails
  <2>1. UNCHANGED storeVars \/ (scan.op \in Ops /\ Execute(scan.op))
    BY <1>1, ScanRefines, ScannedRow
  <2>. QED
    BY <2>1 DEF StoreNext
<1>2. CASE ClientRequest
  <2>1. Request
    BY <1>2, Zenon DEF ClientRequest, Request
  <2>. QED
    BY <2>1 DEF StoreNext
<1>3. CASE Recover
  <2>1. RecoverInterrupted \/ UNCHANGED storeVars
    BY <1>3, Zenon DEF Recover
  <2>. QED
    BY <2>1 DEF StoreNext
<1>4. CASE Discover \/ RefreshHealth \/ DecideNotDue \/ ExecutionFails \/ MutateFails \/ Crash
  BY <1>4, Zenon DEF Discover, RefreshHealth, DecideNotDue, ExecutionFails, MutateFails, Crash
<1>5. ASSUME NEW p \in Repairers, RepairStep(p) \/ RepairFails(p) PROVE UNCHANGED storeVars
  BY <1>5, Zenon DEF RepairStep, RepairFails, MaintainActive, PlanRepair, LockRepair, Repaired
<1>6. ASSUME NEW s \in Services, Converge(s) \/ UpdateFails(s) \/ Drift(s)
      PROVE  UNCHANGED storeVars
  BY <1>6, Zenon DEF Converge, UpdateFails, Drift
<1>7. CASE UNCHANGED vars
  BY <1>7 DEF vars
<1>. QED
  BY <1>1, <1>2, <1>3, <1>4, <1>5, <1>6, <1>7 DEF Next, Failure

-----------------------------------------------------------------------------
(* The steps of a scan preserve the invariant *)

(* Steps of the scan alone: what does not speak of its label is kept. *)
LEMMA ScanKeeps ==
    ASSUME RInv, StoreInv', RowsKept, scan' \in ScanRecord,
           scan.pc \notin {"idle", "repair"}, scan'.pc # "repair",
           scan'.pc # "idle" => scan'.op = scan.op,
           scan'.pc = "mutating" => scan'.action.act \in {"ensure", "remove"} /\ LockFree,
           daemon' = daemon, repair' = repair, services' = services,
           budget' \in 0 .. Disturbances
    PROVE  /\ RTypeOK' /\ ScanLives' /\ RepairsFollow' /\ OneRequest'
           /\ PublishedAreDeployments' /\ UpdatesFailAsRollouts' /\ GoneLeavesNothing'
<1>1. scan.op \in Ops /\ scan.op <= count /\ live /\ scan.op # 0
  BY ScannedRow, MaxOpsAssumption DEF Ops
<1>2. /\ count \in Nat /\ count' \in Nat
      /\ \A o \in Ops : o \in Nat
      /\ \A o \in promoted : o \in Ops /\ o <= count
  BY DEF RInv, StoreInv, TypeOK, RowsEndAtCount, Ops, Targets
<1>3. RTypeOK'
  BY <1>1 DEF RInv, RTypeOK, ScanRecord
<1>4. ScanLives'
  BY <1>1, <1>2 DEF RInv, ScanLives, RowsKept
<1>5. RepairsFollow'
  BY <1>1, <1>2 DEF RInv, RepairsFollow, RowsKept
<1>6. OneRequest'
  BY <1>1 DEF RInv, OneRequest, RowsKept, LockFree
<1>7. PublishedAreDeployments'
  <2>1. \A o \in promoted : kind'[o] = kind[o] /\ kind[o] = "deploy"
    BY <1>2 DEF RInv, PublishedAreDeployments, RowsKept
  <2>2. promoted' = promoted
    BY DEF RowsKept
  <2>. QED
    BY <2>1, <2>2 DEF PublishedAreDeployments
<1>8. UpdatesFailAsRollouts' /\ GoneLeavesNothing'
  BY DEF RInv, UpdatesFailAsRollouts, GoneLeavesNothing, RowsKept, Present
<1>. QED
  BY <1>3, <1>4, <1>5, <1>6, <1>7, <1>8

\* The invariant says nothing of these labels.
Quiet(s) ==
    \/ s.pc \in {"idle", "begin", "prepare"}
    \/ s.pc \in {"prune", "settle"} /\ s.result # "ok"

(* A step of the scan to one of them preserves the invariant. *)
LEMMA QuietStep ==
    ASSUME RInv, StoreInv', RowsKept, scan' \in ScanRecord,
           scan.pc \notin {"idle", "repair"}, Quiet(scan'),
           scan'.pc # "idle" => scan'.op = scan.op,
           daemon' = daemon, repair' = repair, services' = services,
           budget' \in 0 .. Disturbances
    PROVE  RInv'
<1>1. scan'.pc \in {"idle", "begin", "prepare", "prune", "settle"}
      /\ (scan'.pc \in {"prune", "settle"} => scan'.result # "ok")
  BY DEF Quiet
<1>2. /\ RTypeOK' /\ ScanLives' /\ RepairsFollow' /\ OneRequest'
      /\ PublishedAreDeployments' /\ UpdatesFailAsRollouts' /\ GoneLeavesNothing'
  BY <1>1, ScanKeeps
<1>3. Executing' /\ Deleting' /\ RollbackPicked' /\ FailureKnown'
  BY <1>1 DEF Executing, Deleting, PastJobs, NothingLeft, RollbackPicked, FailureKnown
<1>. QED
  BY <1>2, <1>3 DEF RInv

(* A scan that reopens its operation starts it over. *)
LEMMA Reopened ==
    ASSUME RInv, scan.pc # "idle", ReopenAndRun
    PROVE  /\ scan' \in ScanRecord /\ Quiet(scan')
           /\ scan'.pc # "idle" => scan'.op = scan.op
           /\ RowsKept
<1>1. scan \in ScanRecord /\ scan.op \in Ops
  BY ScannedRow DEF RInv, RTypeOK, ScanRecord
<1>2. CASE /\ RequestReconcile(scan.op)
           /\ scan' = [scan EXCEPT !.pc = "begin", !.state = "requested", !.error = "none"]
  <2>1. RowsKept
    BY <1>1, <1>2, StatesOnly DEF RInv
  <2>2. "begin" \in ScanPc /\ "requested" \in States
    BY DEF ScanPc, States
  <2>. HIDE DEF Action, Targets, Results, ScanPc, States
  <2>. QED
    BY <1>1, <1>2, <2>1, <2>2 DEF ScanRecord, Quiet
<1>3. CASE EndScan /\ UNCHANGED storeVars
  <2>1. RowsKept
    BY <1>3, UnchangedRows DEF RInv
  <2>. QED
    BY <1>3, <2>1, IdleTypes DEF EndScan, Quiet
<1>. QED
  BY <1>2, <1>3 DEF ReopenAndRun

(* The decisions about an operation that has ended, or waits for a retry. *)
LEMMA DecideStep ==
    ASSUME RInv, StoreInv', DecideRun \/ DecideRetry \/ DecideNotDue \/ DecidePlan
    PROVE  RInv'
<1>1. /\ scan.pc = "decide" /\ scan \in ScanRecord /\ budget \in 0 .. Disturbances
      /\ "begin" \in ScanPc
  BY DEF RInv, RTypeOK, ScanRecord, ScanPc, DecideRun, DecideRetry, DecideNotDue, DecidePlan
<1>2. daemon' = daemon /\ repair' = repair /\ services' = services /\ budget' = budget
  BY Zenon DEF DecideRun, DecideRetry, DecideNotDue, DecidePlan
<1>3. \/ ReopenAndRun
      \/ (GoTo("begin") \/ EndScan) /\ UNCHANGED storeVars
  BY Zenon DEF DecideRun, DecideRetry, DecideNotDue, DecidePlan
<1>4. CASE ReopenAndRun
  BY <1>1, <1>2, <1>4, Reopened, QuietStep
<1>5. CASE (GoTo("begin") \/ EndScan) /\ UNCHANGED storeVars
  <2>1. RowsKept
    BY <1>5, UnchangedRows DEF RInv
  <2>2. scan' \in ScanRecord /\ Quiet(scan') /\ (scan'.pc # "idle" => scan'.op = scan.op)
    BY <1>1, <1>5, ScanLabels DEF Quiet
  <2>. QED
    BY <1>1, <1>2, <2>1, <2>2, QuietStep
<1>. QED
  BY <1>3, <1>4, <1>5

(* An operation starts to run. *)
LEMMA BeginStep ==
    ASSUME RInv, StoreInv', BeginRequested \/ BeginRunning
    PROVE  RInv'
<1>1. /\ scan.pc = "begin" /\ scan \in ScanRecord /\ budget \in 0 .. Disturbances
      /\ "prepare" \in ScanPc /\ "requested" \in States /\ scan.op \in Ops
  BY ScannedRow DEF RInv, RTypeOK, ScanRecord, ScanPc, States, BeginRequested, BeginRunning
<1>2. daemon' = daemon /\ repair' = repair /\ services' = services /\ budget' = budget
  BY Zenon DEF BeginRequested, BeginRunning
<1>3. RowsKept
  <2>1. UNCHANGED storeVars \/ \E from, to, code : TransitionOperation(scan.op, from, to, code)
    BY Zenon DEF BeginRequested, BeginRunning
  <2>. QED
    BY <1>1, <2>1, StatesOnly, UnchangedRows DEF RInv
<1>4. \/ GoTo("prepare") \/ EndScan
      \/ scan' = [scan EXCEPT !.state = "requested", !.error = "none"]
  BY Zenon DEF BeginRequested, BeginRunning
<1>5. scan' \in ScanRecord /\ Quiet(scan') /\ (scan'.pc # "idle" => scan'.op = scan.op)
  <2>1. CASE GoTo("prepare") \/ EndScan
    BY <1>1, <2>1, ScanLabels DEF Quiet
  <2>2. CASE scan' = [scan EXCEPT !.state = "requested", !.error = "none"]
    <3>. HIDE DEF Action, Targets, Results, ScanPc, States
    <3>. QED
      BY <1>1, <2>2 DEF ScanRecord, Quiet
  <2>. QED
    BY <1>4, <2>1, <2>2
<1>. QED
  BY <1>1, <1>2, <1>3, <1>5, QuietStep

(* A job or the execution of an operation fails. *)
LEMMA ExecutionFailsStep ==
    ASSUME RInv, StoreInv', JobFails \/ ExecutionFails
    PROVE  RInv'
<1>1. /\ scan.pc \in {"prepare", "jobs", "plan", "act"} /\ scan \in ScanRecord
      /\ budget \in 0 .. Disturbances /\ scan.op \in Ops /\ "idle" \in ScanPc
  BY ScannedRow DEF RInv, RTypeOK, ScanRecord, ScanPc, JobFails, ExecutionFails
<1>2. daemon' = daemon /\ repair' = repair /\ services' = services /\ Disturb
  BY Zenon DEF JobFails, ExecutionFails
<1>3. RowsKept
  <2>1. UNCHANGED storeVars \/ \E from, to, code : TransitionOperation(scan.op, from, to, code)
    BY Zenon DEF JobFails, ExecutionFails
  <2>. QED
    BY <1>1, <2>1, StatesOnly, UnchangedRows DEF RInv
<1>4. PICK code \in Errors : EndWith(code)
  BY Zenon DEF JobFails, ExecutionFails
<1>5. code \in Results /\ code # "ok"
  BY ErrorsAssumption DEF Results
<1>6. scan' \in ScanRecord /\ Quiet(scan') /\ scan'.op = scan.op
  BY <1>1, <1>4, <1>5, ScanLabels DEF Quiet
<1>. QED
  BY <1>1, <1>2, <1>3, <1>6, DisturbType, QuietStep

(* A scan ends without success, or after it rechecked the environment. *)
LEMMA EndStep ==
    ASSUME RInv, StoreInv',
           SettleCancelled \/ Yield \/ Fail \/ AcceptRollback \/ Recheck
    PROVE  RInv'
<1>. USE DEF SettleCancelled, Yield, Fail, AcceptRollback, Recheck
<1>1. /\ scan.pc \in {"settle", "rollback", "recheck"} /\ scan \in ScanRecord
      /\ budget \in 0 .. Disturbances /\ scan.op \in Ops
  BY ScannedRow DEF RInv, RTypeOK, ScanRecord
<1>2. daemon' = daemon /\ repair' = repair /\ services' = services /\ EndScan
  BY Zenon
<1>3. budget' \in 0 .. Disturbances
  <2>1. budget' = budget \/ Disturb
    BY Zenon
  <2>. QED
    BY <1>1, <2>1, DisturbType
<1>4. RowsKept
  <2>1. \/ UNCHANGED storeVars
        \/ \E from, to, code : TransitionOperation(scan.op, from, to, code)
        \/ \E code : RecordOperationError(scan.op, code)
        \/ RequestReconcile(scan.op)
        \/ AcceptRollback
    BY Zenon DEF FailOperation
  <2>2. CASE AcceptRollback
    <3>1. \/ UNCHANGED storeVars
          \/ \E from, to, code : TransitionOperation(scan.op, from, to, code)
          \/ \E code \in Errors, d \in Ops : RollBack(scan.op, code, d)
      BY <2>2, RollbackRefines
    <3>2. ASSUME NEW code \in Errors, NEW d \in Ops, RollBack(scan.op, code, d)
          PROVE  RowsKept
      BY <3>2, RestoreKeeps DEF RInv, RollBack
    <3>. QED
      BY <1>1, <3>1, <3>2, StatesOnly, UnchangedRows DEF RInv
  <2>. HIDE DEF AcceptRollback
  <2>. QED
    BY <1>1, <2>1, <2>2, StatesOnly, UnchangedRows DEF RInv
<1>5. scan' \in ScanRecord /\ Quiet(scan') /\ scan'.pc = "idle"
  BY <1>2, IdleTypes DEF EndScan, Quiet
<1>. QED
  BY <1>1, <1>2, <1>3, <1>4, <1>5, QuietStep

(* The target is prepared, or one that was saved is used again. *)
LEMMA PrepareStep ==
    ASSUME RInv, StoreInv', Prepare
    PROVE  RInv'
<1>1. /\ scan.pc = "prepare" /\ scan \in ScanRecord /\ budget' \in 0 .. Disturbances
      /\ "jobs" \in ScanPc /\ scan.op \in Ops /\ scan.op <= count /\ scan.op # 0
  BY ScannedRow, MaxOpsAssumption DEF RInv, RTypeOK, ScanRecord, ScanPc, Prepare, Ops
<1>2. daemon' = daemon /\ repair' = repair /\ services' = services
  BY Zenon DEF Prepare
<1>3. CASE EndWith("yield") /\ UNCHANGED storeVars
  <2>1. "yield" \in Results /\ RowsKept
    BY <1>3, UnchangedRows DEF RInv, Results
  <2>2. scan' \in ScanRecord /\ Quiet(scan') /\ scan'.op = scan.op
    BY <1>1, <1>3, <2>1, ScanLabels DEF Quiet
  <2>. QED
    BY <1>1, <1>2, <2>1, <2>2, QuietStep
<1>4. CASE GoTo("jobs") /\ \/ UNCHANGED storeVars /\ (kind[scan.op] = "delete" \/ target[scan.op] # 0)
                           \/ PrepareTarget(scan.op)
  <2>1. scan' \in ScanRecord /\ scan'.pc = "jobs" /\ scan'.op = scan.op
    BY <1>1, <1>4, ScanLabels
  <2>2. RowsKept /\ (kind[scan.op] = "delete" \/ target'[scan.op] # 0)
    <3>1. CASE UNCHANGED storeVars /\ (kind[scan.op] = "delete" \/ target[scan.op] # 0)
      BY <1>1, <3>1, UnchangedRows DEF RInv, RowsKept
    <3>2. CASE PrepareTarget(scan.op)
      BY <1>1, <3>2, PrepareKeeps DEF RInv
    <3>. QED
      BY <1>4, <3>1, <3>2
  <2>3. Executing'
    BY <1>1, <2>1, <2>2 DEF Executing, RowsKept
  <2>4. Deleting' /\ RollbackPicked' /\ FailureKnown'
    BY <2>1 DEF Deleting, PastJobs, NothingLeft, RollbackPicked, FailureKnown
  <2>. QED
    BY <1>1, <1>2, <2>1, <2>2, <2>3, <2>4, ScanKeeps DEF RInv
<1>. QED
  BY <1>3, <1>4 DEF Prepare

(* Steps of a scan that leave the rows alone. *)
ScanOnly == UNCHANGED <<storeVars, daemon, repair, services, budget>>

LEMMA ScanOnlyStep ==
    ASSUME RInv, ScanOnly, scan.pc \notin {"idle", "repair"}, scan' \in ScanRecord,
           scan'.pc # "repair", scan'.pc # "idle" => scan'.op = scan.op,
           scan'.pc = "mutating" => scan'.action.act \in {"ensure", "remove"} /\ LockFree,
           (Executing' /\ Deleting' /\ RollbackPicked' /\ FailureKnown') \/ Quiet(scan')
    PROVE  RInv'
<1>1. UNCHANGED storeVars /\ daemon' = daemon /\ repair' = repair /\ services' = services
      /\ budget' = budget
  BY Zenon DEF ScanOnly
<1>2. StoreInv' /\ RowsKept /\ budget' \in 0 .. Disturbances
  BY <1>1, UnchangedRows DEF RInv, RTypeOK
<1>3. CASE Quiet(scan')
  BY <1>1, <1>2, <1>3, QuietStep
<1>4. CASE Executing' /\ Deleting' /\ RollbackPicked' /\ FailureKnown'
  BY <1>1, <1>2, <1>4, ScanKeeps DEF RInv
<1>. QED
  BY <1>3, <1>4

(* What those steps read is as it was. *)
LEMMA ScanOnlyReads ==
    ASSUME ScanOnly
    PROVE  /\ live' = live /\ count' = count /\ state' = state /\ error' = error
           /\ kind' = kind /\ target' = target /\ resolved' = resolved
           /\ promoted' = promoted /\ rolledBack' = rolledBack /\ succeededAt' = succeededAt
           /\ repair' = repair /\ services' = services /\ Present' = Present
<1>1. UNCHANGED storeVars /\ repair' = repair /\ services' = services
  BY Zenon DEF ScanOnly
<1>2. /\ live' = live /\ count' = count /\ state' = state /\ error' = error
      /\ kind' = kind /\ target' = target /\ resolved' = resolved
      /\ promoted' = promoted /\ rolledBack' = rolledBack /\ succeededAt' = succeededAt
  BY <1>1, Zenon DEF storeVars, envVars, execVars, rowVars, historyVars
<1>. QED
  BY <1>1, <1>2 DEF Present

(* run_jobs and remove_jobs: a deletion takes the lock before it plans. *)
LEMMA RunJobsStep ==
    ASSUME RInv, RunJobs
    PROVE  RInv'
<1>1. /\ scan.pc = "jobs" /\ scan \in ScanRecord /\ "plan" \in ScanPc /\ "yield" \in Results
      /\ scan.op \in Ops /\ ScanOnly
  BY ScannedRow DEF RInv, RTypeOK, ScanRecord, ScanPc, Results, RunJobs, ScanOnly
<1>2. CASE EndWith("yield")
  BY <1>1, <1>2, ScanLabels, ScanOnlyStep DEF Quiet
<1>3. CASE GoTo("plan") /\ (scan.op \in promoted \/ LockFree)
  <2>1. scan' \in ScanRecord /\ scan'.pc = "plan" /\ scan'.op = scan.op
    BY <1>1, <1>3, ScanLabels
  <2>2. Executing'
    BY <1>1, <2>1, ScanOnlyReads DEF RInv, Executing
  <2>3. Deleting'
    BY <1>1, <1>3, <2>1, ScanOnlyReads
       DEF RInv, Deleting, NothingLeft, LockFree, PublishedAreDeployments
  <2>4. RollbackPicked' /\ FailureKnown'
    BY <2>1 DEF RollbackPicked, FailureKnown
  <2>. QED
    BY <1>1, <2>1, <2>2, <2>3, <2>4, ScanOnlyStep
<1>. QED
  BY <1>2, <1>3 DEF RunJobs, RemoveJobs

(* One round of execute_operation. *)
LEMMA PlanStep ==
    ASSUME RInv, PlanOperation
    PROVE  RInv'
<1>1. /\ scan.pc = "plan" /\ scan \in ScanRecord
      /\ "yield" \in Results \ {"ok"} /\ ("rollout" \in Errors => "rollout" \in Results \ {"ok"})
      /\ scan.op \in Ops /\ stopped \in BOOLEAN
      /\ kind[scan.op] \in Kinds /\ target[scan.op] \in Targets
  BY ScannedRow DEF RInv, RTypeOK, ScanRecord, Results, PlanOperation, StoreInv, TypeOK
<1>2. ScanOnly
  BY DEF PlanOperation, ScanOnly
<1>3. ASSUME NEW res \in Results \ {"ok"}, EndWith(res) PROVE RInv'
  BY <1>1, <1>2, <1>3, ScanLabels, ScanOnlyStep DEF Quiet, ScanPc
<1>4. ASSUME NEW a \in Action, NEW label \in {"act", "publish"},
             scan' = [scan EXCEPT !.pc = label, !.stopped = stopped, !.action = a],
             IF kind[scan.op] = "delete"
               THEN label = "act" /\ a.act # "ensure" /\ (a = NoAction => Present = {})
               ELSE label = "publish"
      PROVE  RInv'
  <2>1. scan' \in ScanRecord /\ scan'.pc = label /\ scan'.op = scan.op /\ scan'.action = a
    <3>1. label \in ScanPc
      BY DEF ScanPc
    <3>. HIDE DEF Action, Targets, Results, ScanPc, States
    <3>. QED
      BY <1>1, <1>4, <3>1 DEF ScanRecord
  <2>2. Executing'
    BY <1>1, <1>2, <1>4, <2>1, ScanOnlyReads DEF RInv, Executing, Kinds
  <2>3. Deleting'
    BY <1>1, <1>2, <1>4, <2>1, ScanOnlyReads DEF RInv, Deleting, NothingLeft, PastJobs
  <2>4. RollbackPicked' /\ FailureKnown'
    BY <2>1 DEF RollbackPicked, FailureKnown
  <2>. QED
    BY <1>1, <1>2, <2>1, <2>2, <2>3, <2>4, ScanOnlyStep
<1>5. CASE kind[scan.op] = "delete"
  <2>1. \/ EndWith("yield")
        \/ \E a \in First(DeletionActions) :
               scan' = [scan EXCEPT !.pc = "act", !.stopped = stopped, !.action = a]
    BY <1>5 DEF PlanOperation, PlannedStopped
  <2>2. ASSUME NEW a \in First(DeletionActions),
               scan' = [scan EXCEPT !.pc = "act", !.stopped = stopped, !.action = a]
        PROVE  RInv'
    BY <1>4, <1>5, <2>2, DeletionPlan
  <2>. QED
    BY <1>1, <1>3, <2>1, <2>2
<1>6. CASE kind[scan.op] # "delete"
  <2>1. target[scan.op] \in Ops
    BY <1>1, <1>6, MaxOpsAssumption DEF RInv, Executing, Targets, Ops
  <2>2. \/ EndWith("yield")
        \/ "rollout" \in Errors /\ EndWith("rollout")
        \/ \E a \in First(ReconcileActions(target[scan.op], stopped)) :
               scan' = [scan EXCEPT !.pc = "publish", !.stopped = stopped, !.action = a]
    BY <1>6 DEF PlanOperation, PlannedStopped
  <2>3. ASSUME NEW a \in First(ReconcileActions(target[scan.op], stopped)),
               scan' = [scan EXCEPT !.pc = "publish", !.stopped = stopped, !.action = a]
        PROVE  RInv'
    <3>1. a \in Action
      BY <1>1, <2>1, PlannedActions DEF First, Action
    <3>. QED
      BY <1>4, <1>6, <2>3, <3>1
  <2>. QED
    BY <1>1, <1>3, <2>2, <2>3
<1>. QED
  BY <1>5, <1>6

(* publish: no repair is in flight, and those of this operation end. *)
LEMMA PublishStep ==
    ASSUME RInv, StoreInv', Publish
    PROVE  RInv'
<1>1. /\ scan.pc = "publish" /\ scan \in ScanRecord /\ "act" \in ScanPc /\ "yield" \in Results
      /\ scan.op \in Ops /\ scan.op <= count /\ live /\ scan.op # 0 /\ LockFree
      /\ kind[scan.op] = "deploy"
  BY ScannedRow, MaxOpsAssumption
     DEF RInv, RTypeOK, ScanRecord, ScanPc, Results, Publish, CanPublish, Ops, Executing
<1>2. daemon' = daemon /\ repair' = repair /\ services' = services /\ budget' = budget
  BY Zenon DEF Publish
<1>3. CASE EndWith("yield") /\ UNCHANGED storeVars
  <2>1. ScanOnly
    BY <1>2, <1>3 DEF ScanOnly
  <2>. QED
    BY <1>1, <1>3, <2>1, ScanLabels, ScanOnlyStep DEF Quiet
<1>4. CASE PublishPrepared(scan.op) /\ GoTo("act")
  <2>1. scan' \in ScanRecord /\ scan'.pc = "act" /\ scan'.op = scan.op
    BY <1>1, <1>4, ScanLabels
  <2>2. /\ scan.op = count /\ live' = live /\ count' = count /\ kind' = kind
        /\ target' = target /\ target[scan.op] # 0
        /\ resolved' = target[scan.op] /\ promoted' = promoted \cup {scan.op}
    BY <1>4, Zenon DEF PublishPrepared
  <2>3. \A p \in Repairers : repair[p].pc # "mutating"
    BY <1>1 DEF LockFree
  <2>4. RTypeOK'
    BY <1>1, <1>2, <2>1 DEF RInv, RTypeOK, ScanRecord
  <2>5. ScanLives'
    BY <1>1, <1>2, <2>1, <2>2 DEF RInv, ScanLives
  <2>6. RepairsFollow'
    BY <1>2, <2>2 DEF RInv, RepairsFollow
  <2>7. OneRequest'
    BY <1>2, <2>3 DEF OneRequest
  <2>8. PublishedAreDeployments'
    BY <1>1, <2>2 DEF RInv, PublishedAreDeployments
  <2>9. Executing'
    BY <1>1, <2>1, <2>2 DEF Executing
  <2>10. Deleting' /\ RollbackPicked' /\ FailureKnown'
    BY <1>1, <2>1, <2>2 DEF Deleting, RollbackPicked, FailureKnown
  <2>11. UpdatesFailAsRollouts' /\ GoneLeavesNothing'
    BY <1>1, <1>2, <2>2 DEF RInv, UpdatesFailAsRollouts, GoneLeavesNothing
  <2>. QED
    BY <2>4, <2>5, <2>6, <2>7, <2>8, <2>9, <2>10, <2>11 DEF RInv
<1>. QED
  BY <1>3, <1>4 DEF Publish

(* An empty plan, a request and a wait. *)
LEMMA ActStep ==
    ASSUME RInv, NothingToDo \/ SendRequest \/ WaitService
    PROVE  RInv'
<1>1. /\ scan.pc = "act" /\ scan \in ScanRecord /\ scan.op \in Ops
      /\ "mutating" \in ScanPc /\ "plan" \in ScanPc /\ "yield" \in Results /\ "ok" \in Results
  BY ScannedRow DEF RInv, RTypeOK, ScanRecord, ScanPc, Results,
     NothingToDo, SendRequest, WaitService
<1>2. ScanOnly
  BY Zenon DEF NothingToDo, SendRequest, WaitService, ScanOnly
<1>3. ASSUME NEW res \in Results \ {"ok"}, EndWith(res) PROVE RInv'
  BY <1>1, <1>2, <1>3, ScanLabels, ScanOnlyStep DEF Quiet
<1>4. CASE EndWith("ok") /\ scan.action = NoAction
  <2>1. scan' \in ScanRecord /\ scan'.pc = "prune" /\ scan'.op = scan.op /\ scan'.result = "ok"
    BY <1>1, <1>4, ScanLabels
  <2>2. Deleting'
    BY <1>1, <1>2, <1>4, <2>1, ScanOnlyReads DEF RInv, Deleting, PastJobs, NothingLeft
  <2>3. Executing' /\ RollbackPicked' /\ FailureKnown'
    BY <2>1 DEF Executing, RollbackPicked, FailureKnown
  <2>. QED
    BY <1>1, <1>2, <2>1, <2>2, <2>3, ScanOnlyStep
<1>5. CASE GoTo("mutating") /\ LockFree /\ scan.action.act \in {"ensure", "remove"}
  <2>1. scan' \in ScanRecord /\ scan'.pc = "mutating" /\ scan'.op = scan.op
        /\ scan'.action = scan.action
    BY <1>1, <1>5, ScanLabels
  <2>2. Executing'
    BY <1>1, <1>2, <2>1, ScanOnlyReads DEF RInv, Executing
  <2>3. Deleting'
    BY <1>1, <1>2, <1>5, <2>1, ScanOnlyReads DEF RInv, Deleting, PastJobs, NothingLeft
  <2>4. RollbackPicked' /\ FailureKnown'
    BY <2>1 DEF RollbackPicked, FailureKnown
  <2>. QED
    BY <1>1, <1>2, <1>5, <2>1, <2>2, <2>3, <2>4, ScanOnlyStep
<1>6. CASE GoTo("plan")
  <2>1. scan' \in ScanRecord /\ scan'.pc = "plan" /\ scan'.op = scan.op
    BY <1>1, <1>6, ScanLabels
  <2>2. Executing'
    BY <1>1, <1>2, <2>1, ScanOnlyReads DEF RInv, Executing
  <2>3. Deleting'
    BY <1>1, <1>2, <2>1, ScanOnlyReads DEF RInv, Deleting, PastJobs, NothingLeft
  <2>4. RollbackPicked' /\ FailureKnown'
    BY <2>1 DEF RollbackPicked, FailureKnown
  <2>. QED
    BY <1>1, <1>2, <2>1, <2>2, <2>3, <2>4, ScanOnlyStep
<1>7. CASE WaitService /\ EndWith("rollout") /\ services[scan.action.service].conv = "failed"
  <2>1. scan.action \in Action /\ scan.action.act = "wait"
    BY <1>1, <1>7 DEF ScanRecord, WaitService
  <2>2. scan.action.service \in Services
    BY <2>1 DEF Action, NoAction
  <2>3. "rollout" \in Errors
    BY <1>7, <2>2 DEF RInv, UpdatesFailAsRollouts
  <2>4. "rollout" \in Results \ {"ok"}
    BY <2>3 DEF Results
  <2>. QED
    BY <1>3, <1>7, <2>4
<1>8. \/ EndWith("yield") \/ ("retryable" \in Errors /\ EndWith("retryable"))
      \/ EndWith("ok") /\ scan.action = NoAction
      \/ GoTo("mutating") /\ LockFree /\ scan.action.act \in {"ensure", "remove"}
      \/ GoTo("plan")
      \/ WaitService /\ EndWith("rollout") /\ services[scan.action.service].conv = "failed"
  BY Zenon DEF NothingToDo, SendRequest, WaitService
<1>9. "yield" \in Results \ {"ok"} /\ ("retryable" \in Errors => "retryable" \in Results \ {"ok"})
  BY DEF Results
<1>. QED
  BY <1>3, <1>4, <1>5, <1>6, <1>7, <1>8, <1>9

(* execute_and_cleanup prunes files. *)
LEMMA PruneStep ==
    ASSUME RInv, Prune
    PROVE  RInv'
<1>1. /\ scan.pc = "prune" /\ scan \in ScanRecord /\ "settle" \in ScanPc /\ scan.op \in Ops
      /\ budget \in 0 .. Disturbances
  BY ScannedRow DEF RInv, RTypeOK, ScanRecord, ScanPc, Prune
<1>2. UNCHANGED storeVars /\ daemon' = daemon /\ repair' = repair /\ services' = services
  BY Zenon DEF Prune
<1>3. CASE (EndScan \/ GoTo("settle")) /\ UNCHANGED budget
  <2>1. ScanOnly
    BY <1>2, <1>3 DEF ScanOnly
  <2>2. CASE EndScan
    BY <1>1, <2>1, <2>2, ScanLabels, ScanOnlyStep DEF Quiet
  <2>3. CASE GoTo("settle")
    <3>1. scan' \in ScanRecord /\ scan'.pc = "settle" /\ scan'.op = scan.op
          /\ scan'.result = scan.result
      BY <1>1, <2>3, ScanLabels
    <3>2. Deleting'
      BY <1>1, <2>1, <3>1, ScanOnlyReads DEF RInv, Deleting, PastJobs, NothingLeft
    <3>3. Executing' /\ RollbackPicked' /\ FailureKnown'
      BY <3>1 DEF Executing, RollbackPicked, FailureKnown
    <3>. QED
      BY <1>1, <2>1, <3>1, <3>2, <3>3, ScanOnlyStep
  <2>. QED
    BY <1>3, <2>2, <2>3
<1>4. CASE /\ Disturb /\ "retryable" \in Errors
           /\ scan' = [scan EXCEPT !.pc = "settle", !.result = "retryable"]
  <2>1. "retryable" \in Results /\ RowsKept /\ StoreInv'
    BY <1>2, <1>4, UnchangedRows DEF RInv, Results
  <2>2. scan' \in ScanRecord /\ Quiet(scan') /\ scan'.op = scan.op
    <3>. HIDE DEF Action, Targets, Results, ScanPc, States
    <3>. QED
      BY <1>1, <1>4, <2>1 DEF ScanRecord, Quiet
  <2>. QED
    BY <1>1, <1>2, <1>4, <2>1, <2>2, DisturbType, QuietStep
<1>. QED
  BY <1>3, <1>4 DEF Prune

(* The operation succeeds. *)
LEMMA SucceedStep ==
    ASSUME RInv, StoreInv', Succeed
    PROVE  RInv'
<1>1. /\ scan.pc = "settle" /\ scan \in ScanRecord /\ "recheck" \in ScanPc /\ scan.op \in Ops
      /\ budget \in 0 .. Disturbances
  BY ScannedRow DEF RInv, RTypeOK, ScanRecord, ScanPc, Succeed
<1>2. daemon' = daemon /\ repair' = repair /\ services' = services /\ budget' = budget
  BY Zenon DEF Succeed
<1>3. CASE EndScan /\ UNCHANGED storeVars
  <2>1. ScanOnly
    BY <1>2, <1>3 DEF ScanOnly
  <2>. QED
    BY <1>1, <1>3, <2>1, ScanLabels, ScanOnlyStep DEF Quiet
<1>4. CASE TransitionOperation(scan.op, "running", "succeeded", "none") /\ GoTo("recheck")
  <2>1. scan' \in ScanRecord /\ scan'.pc = "recheck" /\ scan'.op = scan.op
    BY <1>1, <1>4, ScanLabels
  <2>2. RowsKept
    BY <1>1, <1>4, StatesOnly DEF RInv
  <2>3. state'[scan.op] = "succeeded"
    BY <1>1, <1>4 DEF RInv, StoreInv, TypeOK, TransitionOperation
  <2>4. Executing' /\ Deleting' /\ RollbackPicked' /\ FailureKnown'
    BY <2>1, <2>3 DEF Executing, Deleting, PastJobs, NothingLeft, RollbackPicked, FailureKnown
  <2>. QED
    BY <1>1, <1>2, <2>1, <2>2, <2>4, ScanKeeps DEF RInv
<1>. QED
  BY <1>3, <1>4 DEF Succeed

(* An automatic rollback picks what it restores. *)
LEMMA PickStep ==
    ASSUME RInv, PickRollback
    PROVE  RInv'
<1>1. /\ scan.pc = "settle" /\ scan \in ScanRecord /\ scan.op \in Ops
      /\ ScanOnly /\ scan.result \in Errors /\ RollsBack(scan.op, scan.result)
  BY ScannedRow DEF RInv, RTypeOK, ScanRecord, PickRollback, ScanOnly
<1>2. PICK d \in Ops : /\ IsRollbackTarget(scan.op, d)
                       /\ scan' = [scan EXCEPT !.pc = "rollback", !.restore = d]
  BY DEF PickRollback
<1>3. /\ scan' \in ScanRecord /\ scan'.pc = "rollback" /\ scan'.op = scan.op
      /\ scan'.result = scan.result /\ scan'.restore = d
  <2>1. "rollback" \in ScanPc /\ d \in Targets
    BY DEF ScanPc, Ops, Targets
  <2>. HIDE DEF Action, Targets, Results, ScanPc, States
  <2>. QED
    BY <1>1, <1>2, <2>1 DEF ScanRecord
<1>4. RollbackPicked'
  BY <1>1, <1>2, <1>3, ScanOnlyReads DEF RollbackPicked, RollsBack, IsRollbackTarget, Restorable
<1>5. Executing' /\ Deleting' /\ FailureKnown'
  BY <1>3 DEF Executing, Deleting, PastJobs, NothingLeft, FailureKnown
<1>. QED
  BY <1>1, <1>3, <1>4, <1>5, ScanOnlyStep

(* A deletion ends with its environment: nothing is left, and no repair is in *)
(* flight.                                                                    *)
LEMMA FinishDeleteStep ==
    ASSUME RInv, StoreInv', FinishDelete
    PROVE  RInv'
<1>1. /\ scan.pc = "settle" /\ scan.result = "ok" /\ kind[scan.op] = "delete"
      /\ scan \in ScanRecord /\ scan.op \in Ops
  BY ScannedRow DEF RInv, RTypeOK, ScanRecord, FinishDelete
<1>2. daemon' = daemon /\ repair' = repair /\ services' = services /\ budget' = budget
      /\ EndScan
  BY Zenon DEF FinishDelete
<1>3. CASE UNCHANGED storeVars
  <2>1. ScanOnly
    BY <1>2, <1>3 DEF ScanOnly
  <2>. QED
    BY <1>1, <1>2, <2>1, IdleTypes, ScanOnlyStep DEF Quiet, EndScan
<1>4. CASE FinishDeleteOperation(scan.op)
  <2>1. live' = FALSE /\ promoted' = {}
    BY <1>4 DEF FinishDeleteOperation
  <2>2. scan' \in ScanRecord /\ scan'.pc = "idle"
    BY <1>2, IdleTypes DEF EndScan
  <2>3. Present = {} /\ \A p \in Repairers : repair[p].pc # "mutating"
    BY <1>1 DEF RInv, Deleting, PastJobs, NothingLeft
  <2>4. RTypeOK'
    BY <1>2, <2>2 DEF RInv, RTypeOK, ScanRecord
  <2>5. ScanLives'
    BY <1>1, <1>2, <2>2 DEF RInv, ScanLives
  <2>6. RepairsFollow'
    BY <1>2, <2>1 DEF RInv, RepairsFollow
  <2>7. OneRequest' /\ PublishedAreDeployments'
    BY <1>2, <2>1, <2>3 DEF OneRequest, PublishedAreDeployments
  <2>8. Executing' /\ Deleting' /\ RollbackPicked' /\ FailureKnown'
    BY <2>2 DEF Executing, Deleting, RollbackPicked, FailureKnown
  <2>9. UpdatesFailAsRollouts' /\ GoneLeavesNothing'
    BY <1>2, <2>3 DEF RInv, UpdatesFailAsRollouts, GoneLeavesNothing, Present
  <2>. QED
    BY <2>4, <2>5, <2>6, <2>7, <2>8, <2>9 DEF RInv
<1>. QED
  BY <1>3, <1>4 DEF FinishDelete

-----------------------------------------------------------------------------
(* Docker, Swarm and the repairs preserve the invariant *)

\* Services change: they go, or a request in flight has its effect.
ServicesMove ==
    /\ services' \in [Services -> Service]
    /\ UpdatesFailAsRollouts'
    /\ \/ Present' \subseteq Present
       \/ ~LockFree

(* What is gone stays gone. *)
LEMMA ServicesGone ==
    ASSUME RInv, ServicesMove, UNCHANGED storeVars
    PROVE  /\ GoneLeavesNothing'
           /\ scan.pc # "idle" /\ kind[scan.op] = "delete" /\ NothingLeft => Present' = {}
<1>1. live' = live
  BY Zenon DEF storeVars, envVars
<1>2. ~live => LockFree
  BY DEF RInv, OneRequest, ScanLives, LockFree
<1>3. scan.pc # "idle" /\ kind[scan.op] = "delete" /\ NothingLeft => LockFree /\ Present = {}
  BY DEF RInv, Deleting, NothingLeft, PastJobs, LockFree
<1>. QED
  BY <1>1, <1>2, <1>3 DEF ServicesMove, RInv, GoneLeavesNothing

(* A request in flight takes effect. *)
LEMMA RequestMoves ==
    ASSUME RInv, NEW a \in Action, a.act \in {"ensure", "remove"},
           NEW t \in Targets, NEW stop \in BOOLEAN, ~LockFree,
           services' \in {services, Mutated(a, t, stop)}
    PROVE  ServicesMove
<1>1. services \in [Services -> Service] /\ UpdatesFailAsRollouts
  BY DEF RInv, RTypeOK
<1>2. /\ services' \in [Services -> Service]
      /\ \A s \in Services : services'[s] = services[s] \/ services'[s].conv # "failed"
  BY <1>1, MutatedServices
<1>. QED
  BY <1>1, <1>2 DEF ServicesMove, UpdatesFailAsRollouts

(* Steps that change services and neither the scan nor a repair. *)
LEMMA ServicesStep ==
    ASSUME RInv, UNCHANGED storeVars, ServicesMove, UNCHANGED procVars,
           budget' \in 0 .. Disturbances
    PROVE  RInv'
<1>1. daemon' = daemon /\ scan' = scan /\ repair' = repair
  BY Zenon DEF procVars
<1>2. /\ live' = live /\ resolved' = resolved /\ state' = state /\ error' = error
      /\ count' = count /\ kind' = kind /\ target' = target
      /\ promoted' = promoted /\ rolledBack' = rolledBack /\ succeededAt' = succeededAt
  BY Zenon DEF storeVars, envVars, execVars, rowVars, historyVars
<1>3. StoreInv'
  BY UnchangedRows DEF RInv
<1>4. RTypeOK'
  BY <1>1 DEF RInv, RTypeOK, ServicesMove
<1>5. ScanLives' /\ RepairsFollow'
  BY <1>1, <1>2 DEF RInv, ScanLives, RepairsFollow
<1>6. OneRequest' /\ PublishedAreDeployments' /\ Executing'
  BY <1>1, <1>2 DEF RInv, OneRequest, PublishedAreDeployments, Executing
<1>7. Deleting'
  <2>1. PastJobs' = PastJobs /\ NothingLeft' = NothingLeft
    BY <1>1 DEF PastJobs, NothingLeft
  <2>. HIDE DEF PastJobs, NothingLeft
  <2>. QED
    BY <1>1, <1>2, <2>1, ServicesGone DEF RInv, Deleting
<1>8. RollbackPicked' /\ FailureKnown'
  BY <1>1, <1>2 DEF RInv, RollbackPicked, FailureKnown, Current, RollsBack,
     IsRollbackTarget, Restorable
<1>. QED
  BY <1>3, <1>4, <1>5, <1>6, <1>7, <1>8, ServicesGone DEF RInv, ServicesMove

(* Swarm finishes or pauses an update; somebody removes a service. *)
LEMMA SwarmStep ==
    ASSUME RInv, NEW s \in Services, Converge(s) \/ UpdateFails(s) \/ Drift(s)
    PROVE  RInv'
<1>1. /\ services \in [Services -> Service] /\ UpdatesFailAsRollouts
      /\ budget \in 0 .. Disturbances
  BY DEF RInv, RTypeOK
<1>2. UNCHANGED storeVars /\ UNCHANGED procVars /\ (UNCHANGED budget \/ Disturb)
  BY Zenon DEF Converge, UpdateFails, Drift
<1>3. budget' \in 0 .. Disturbances
  BY <1>1, <1>2, DisturbType
<1>4. PICK v \in Service : /\ services' = [services EXCEPT ![s] = v]
                           /\ v.conv = "failed" => "rollout" \in Errors
                           /\ v.target \in {services[s].target, 0}
  <2>0. services[s] \in Service /\ Absent \in Service
    BY <1>1, MaxOpsAssumption DEF Service, Absent, Targets
  <2>1. CASE Converge(s)
    <3>1. services' = [services EXCEPT ![s] = [services[s] EXCEPT !.conv = "converged"]]
      BY <2>1 DEF Converge
    <3>2. [services[s] EXCEPT !.conv = "converged"] \in Service
      BY <2>0 DEF Service
    <3>. QED
      BY <2>0, <3>1, <3>2 DEF Service
  <2>2. CASE UpdateFails(s)
    <3>1. services' = [services EXCEPT ![s] = [services[s] EXCEPT !.conv = "failed"]]
          /\ "rollout" \in Errors
      BY <2>2 DEF UpdateFails
    <3>2. [services[s] EXCEPT !.conv = "failed"] \in Service
      BY <2>0 DEF Service
    <3>. QED
      BY <2>0, <3>1, <3>2 DEF Service
  <2>3. CASE Drift(s)
    BY <2>0, <2>3 DEF Drift, Absent
  <2>. QED
    BY <2>1, <2>2, <2>3
<1>5. ServicesMove
  <2>1. services' \in [Services -> Service]
    BY <1>1, <1>4
  <2>2. UpdatesFailAsRollouts'
    BY <1>1, <1>4 DEF UpdatesFailAsRollouts
  <2>3. Present' \subseteq Present
    BY <1>1, <1>4 DEF Present
  <2>. QED
    BY <2>1, <2>2, <2>3 DEF ServicesMove
<1>. QED
  BY <1>2, <1>3, <1>5, ServicesStep

(* Docker answers a request of the operation, or the request fails. *)
LEMMA MutateStep ==
    ASSUME RInv, Mutate \/ MutateFails
    PROVE  RInv'
<1>1. /\ scan.pc = "mutating" /\ scan \in ScanRecord /\ scan.op \in Ops /\ scan.op <= count
      /\ live /\ scan.op # 0
      /\ scan.action \in Action /\ scan.action.act \in {"ensure", "remove"}
      /\ scan.stopped \in BOOLEAN /\ target[scan.op] \in Targets /\ ~LockFree
      /\ budget \in 0 .. Disturbances
  BY ScannedRow, MaxOpsAssumption
     DEF RInv, RTypeOK, ScanRecord, StoreInv, TypeOK, LockFree, Mutate, MutateFails, Ops
<1>2. UNCHANGED storeVars /\ daemon' = daemon /\ repair' = repair
  BY Zenon DEF Mutate, MutateFails
<1>3. ServicesMove
  BY <1>1, RequestMoves DEF Mutate, MutateFails
<1>4. budget' \in 0 .. Disturbances
  BY <1>1, DisturbType DEF Mutate, MutateFails
<1>5. /\ live' = live /\ resolved' = resolved /\ count' = count /\ kind' = kind
      /\ target' = target /\ promoted' = promoted /\ StoreInv'
  <2>1. StoreInv'
    BY <1>2, UnchangedRows DEF RInv
  <2>. QED
    BY <1>2, <2>1, Zenon DEF storeVars, envVars, rowVars
<1>6. /\ scan' \in ScanRecord /\ scan'.pc \in {"plan", "act", "prune"} /\ scan'.op = scan.op
      /\ scan'.pc = "act" => scan'.action = scan.action
      /\ scan'.pc = "prune" => scan'.result # "ok"
  <2>1. "plan" \in ScanPc /\ "act" \in ScanPc
        /\ ("retryable" \in Errors => "retryable" \in Results)
    BY DEF ScanPc, Results
  <2>2. GoTo("plan") \/ GoTo("act") \/ ("retryable" \in Errors /\ EndWith("retryable"))
    BY Zenon DEF Mutate, MutateFails
  <2>. QED
    BY <1>1, <2>1, <2>2, ScanLabels
<1>7. \A p \in Repairers : repair[p].pc # "mutating"
  BY <1>1 DEF RInv, OneRequest
<1>8. RTypeOK'
  BY <1>1, <1>2, <1>3, <1>4, <1>6 DEF RInv, RTypeOK, ScanRecord, ServicesMove
<1>9. ScanLives' /\ RepairsFollow'
  BY <1>1, <1>2, <1>5, <1>6 DEF RInv, ScanLives, RepairsFollow
<1>10. OneRequest' /\ PublishedAreDeployments'
  BY <1>2, <1>5, <1>7 DEF RInv, OneRequest, PublishedAreDeployments
<1>11. Executing'
  BY <1>1, <1>5, <1>6 DEF RInv, Executing
<1>12. Deleting'
  <2>1. ~NothingLeft'
    BY <1>1, <1>6 DEF NothingLeft, NoAction
  <2>. QED
    BY <1>2, <1>7, <2>1 DEF Deleting
<1>13. RollbackPicked' /\ FailureKnown'
  BY <1>6 DEF RollbackPicked, FailureKnown
<1>. QED
  BY <1>2, <1>3, <1>5, <1>8, <1>9, <1>10, <1>11, <1>12, <1>13, ServicesGone DEF RInv, ServicesMove

(* scan_latest_operation reads the operation and repairs. *)
LEMMA ScanOperationStep ==
    ASSUME RInv, ScanOperation
    PROVE  RInv'
<1>1. /\ scan.pc = "scan" /\ scan \in ScanRecord /\ scan.op \in Ops /\ live /\ scan.op <= count
      /\ scan.op # 0 /\ scan.op \in Targets
      /\ state[scan.op] \in States /\ error[scan.op] \in Errors \cup {"none"}
      /\ repair \in [Repairers -> RepairRecord] /\ "scan" \in Repairers
  BY ScannedRow, MaxOpsAssumption
     DEF RInv, RTypeOK, ScanRecord, RepairRecord, ScanOperation, StoreInv, TypeOK, Ops, Targets,
         Repairers
<1>2. UNCHANGED storeVars /\ daemon' = daemon /\ services' = services /\ budget' = budget
  BY Zenon DEF ScanOperation
<1>3. /\ live' = live /\ resolved' = resolved /\ state' = state /\ error' = error
      /\ count' = count /\ kind' = kind /\ target' = target /\ promoted' = promoted
      /\ StoreInv'
  <2>1. StoreInv'
    BY <1>2, UnchangedRows DEF RInv
  <2>. QED
    BY <1>2, <2>1, Zenon DEF storeVars, envVars, execVars, rowVars
<1>4. /\ scan' \in ScanRecord /\ scan'.pc = "repair" /\ scan'.op = scan.op
      /\ scan'.state = state[scan.op] /\ scan'.error = error[scan.op]
  <2>1. scan' = [scan EXCEPT !.pc = "repair", !.state = state[scan.op], !.error = error[scan.op]]
    BY <1>1 DEF ScanOperation
  <2>2. "repair" \in ScanPc
    BY DEF ScanPc
  <2>. HIDE DEF Action, Targets, Results, ScanPc, States
  <2>. QED
    BY <1>1, <2>1, <2>2 DEF ScanRecord
<1>5. /\ repair' \in [Repairers -> RepairRecord]
      /\ repair'["scan"].pc = "check" /\ repair'["scan"].op = scan.op
      /\ \A q \in Repairers : q # "scan" => repair'[q] = repair[q]
  <2>. DEFINE r == [IdleRepair EXCEPT !.pc = "check", !.op = scan.op]
  <2>1. repair' = [repair EXCEPT !["scan"] = r]
    BY <1>1 DEF ScanOperation
  <2>2. "check" \in RepairPc
    BY DEF RepairPc
  <2>3. r \in RepairRecord /\ r.pc = "check" /\ r.op = scan.op
    <3>. HIDE DEF Action, Targets, RepairPc, IdleRepair
    <3>. QED
      BY <1>1, <2>2, IdleTypes DEF RepairRecord
  <2>. HIDE DEF r
  <2>. QED
    BY <1>1, <2>1, <2>3
<1>6. RTypeOK'
  BY <1>1, <1>2, <1>4, <1>5 DEF RInv, RTypeOK, ScanRecord, RepairRecord
<1>7. ScanLives'
  BY <1>1, <1>3, <1>4, <1>5 DEF ScanLives
<1>8. RepairsFollow'
  BY <1>1, <1>3, <1>5 DEF RInv, RepairsFollow
<1>9. OneRequest' /\ PublishedAreDeployments'
  BY <1>1, <1>3, <1>4, <1>5 DEF RInv, OneRequest, PublishedAreDeployments
<1>10. Executing' /\ Deleting' /\ RollbackPicked' /\ FailureKnown'
  BY <1>3, <1>4 DEF Executing, Deleting, PastJobs, NothingLeft, RollbackPicked, FailureKnown
<1>11. UpdatesFailAsRollouts' /\ GoneLeavesNothing'
  BY <1>2, <1>3 DEF RInv, UpdatesFailAsRollouts, GoneLeavesNothing, Present
<1>. QED
  BY <1>3, <1>6, <1>7, <1>8, <1>9, <1>10, <1>11 DEF RInv

(* A discovery pass starts a scan, or cancels the token of one. *)
LEMMA DiscoverStep ==
    ASSUME RInv, Discover
    PROVE  RInv'
<1>1. /\ scan \in ScanRecord /\ live /\ count # 0 /\ count \in Targets
      /\ repair \in [Repairers -> RepairRecord]
  BY DEF RInv, RTypeOK, ScanRecord, RepairRecord, Discover, StoreInv, TypeOK
<1>2. ScanOnly
  BY Zenon DEF Discover, ScanOnly
<1>3. /\ daemon' = daemon /\ budget' = budget /\ UNCHANGED storeVars /\ StoreInv'
  <2>1. daemon' = daemon /\ budget' = budget /\ UNCHANGED storeVars
    BY <1>2, Zenon DEF ScanOnly
  <2>. QED
    BY <2>1, UnchangedRows DEF RInv
<1>4. \/ /\ scan.pc = "idle" /\ scan' \in ScanRecord /\ scan'.pc = "scan" /\ scan'.op = count
      \/ /\ scan' \in ScanRecord /\ scan'.pc = scan.pc /\ scan'.op = scan.op
         /\ scan'.action = scan.action /\ scan'.result = scan.result
         /\ scan'.restore = scan.restore /\ scan'.state = scan.state /\ scan'.error = scan.error
  <2>1. "scan" \in ScanPc /\ TRUE \in BOOLEAN
    BY DEF ScanPc
  <2>2. CASE scan.pc = "idle" /\ scan' = [IdleScan EXCEPT !.pc = "scan", !.op = count]
    <3>. HIDE DEF Action, Targets, Results, ScanPc, States, IdleScan
    <3>. QED
      BY <1>1, <2>1, <2>2, IdleTypes DEF ScanRecord
  <2>3. CASE scan' = [scan EXCEPT !.cancelled = TRUE]
    <3>. HIDE DEF Action, Targets, Results, ScanPc, States
    <3>. QED
      BY <1>1, <2>1, <2>3 DEF ScanRecord
  <2>. QED
    BY <2>2, <2>3 DEF Discover
<1>5. RTypeOK'
  BY <1>1, <1>2, <1>3, <1>4, ScanOnlyReads DEF RInv, RTypeOK, ScanRecord
<1>6. count <= count
  BY <1>1 DEF Targets
<1>7. ScanLives' /\ RepairsFollow'
  BY <1>1, <1>2, <1>4, <1>6, ScanOnlyReads DEF RInv, ScanLives, RepairsFollow
<1>8. OneRequest' /\ PublishedAreDeployments' /\ Executing'
  BY <1>2, <1>4, ScanOnlyReads DEF RInv, OneRequest, PublishedAreDeployments, Executing
<1>9. Deleting'
  BY <1>2, <1>4, ScanOnlyReads DEF RInv, Deleting, PastJobs, NothingLeft
<1>10. RollbackPicked'
  BY <1>2, <1>4, ScanOnlyReads DEF RInv, RollbackPicked, Current, RollsBack, IsRollbackTarget,
     Restorable
<1>11. FailureKnown'
  BY <1>2, <1>4, ScanOnlyReads DEF RInv, FailureKnown
<1>12. UpdatesFailAsRollouts' /\ GoneLeavesNothing'
  BY <1>2, ScanOnlyReads DEF RInv, UpdatesFailAsRollouts, GoneLeavesNothing
<1>. QED
  BY <1>3, <1>5, <1>7, <1>8, <1>9, <1>10, <1>11, <1>12 DEF RInv

\* What the invariant says of one repair in the next state.
RepairRight(p) ==
    LET r == repair'[p]
    IN  /\ r.pc # "idle" /\ live => r.op \in Ops /\ r.op <= count
        /\ r.pc \in {"lock", "mutating"} => r.action.act \in {"ensure", "remove"}
        /\ r.pc \in {"plan", "lock", "mutating"} =>
               /\ r.target # 0
               /\ live => /\ kind[r.op] = "deploy"
                          /\ r.op = count /\ r.op \notin promoted => r.target = resolved
        /\ r.pc = "mutating" => LockFree /\ live /\ r.op = count /\ r.op \notin promoted

(* A step of one repair preserves the invariant. *)
LEMMA RepairMoves ==
    ASSUME RInv, UNCHANGED storeVars, daemon' = daemon, ServicesMove,
           budget' \in 0 .. Disturbances, NEW p \in Repairers,
           repair' \in [Repairers -> RepairRecord],
           \A q \in Repairers : q # p => repair'[q] = repair[q],
           RepairRight(p),
           \/ scan' = scan /\ (p = "health" \/ (repair[p].pc # "idle" /\ repair'[p].pc # "idle"))
           \/ p = "scan" /\ repair[p].pc # "idle" /\ repair'[p].pc = "idle" /\ GoTo("decide")
    PROVE  RInv'
<1>1. scan \in ScanRecord /\ "decide" \in ScanPc
  BY DEF RInv, RTypeOK, ScanRecord, ScanPc
<1>2. /\ live' = live /\ resolved' = resolved /\ state' = state /\ error' = error
      /\ count' = count /\ kind' = kind /\ target' = target
      /\ promoted' = promoted /\ rolledBack' = rolledBack /\ succeededAt' = succeededAt
  BY Zenon DEF storeVars, envVars, execVars, rowVars, historyVars
<1>3. StoreInv'
  BY UnchangedRows DEF RInv
<1>4. /\ scan' \in ScanRecord /\ scan'.op = scan.op /\ scan'.action = scan.action
      /\ scan'.result = scan.result /\ scan'.restore = scan.restore
      /\ scan'.state = scan.state /\ scan'.error = scan.error
      /\ \/ /\ scan'.pc = scan.pc
            /\ p = "health" \/ (repair[p].pc # "idle" /\ repair'[p].pc # "idle")
         \/ /\ scan.pc = "repair" /\ scan'.pc = "decide"
            /\ p = "scan" /\ repair'[p].pc = "idle"
  <2>1. CASE scan' = scan /\ (p = "health" \/ (repair[p].pc # "idle" /\ repair'[p].pc # "idle"))
    BY <1>1, <2>1
  <2>2. CASE p = "scan" /\ repair[p].pc # "idle" /\ repair'[p].pc = "idle" /\ GoTo("decide")
    <3>1. scan.pc = "repair"
      BY <2>2 DEF RInv, ScanLives
    <3>. QED
      BY <1>1, <2>2, <3>1, ScanLabels
  <2>. QED
    BY <2>1, <2>2
<1>5. RTypeOK'
  BY <1>4 DEF RInv, RTypeOK, ScanRecord, RepairRecord, ServicesMove, RepairRight
<1>6. ScanLives'
  <2>1. "scan" \in Repairers /\ "health" # "scan"
    BY DEF Repairers
  <2>2. scan'.pc = "repair" <=> repair'["scan"].pc # "idle"
    BY <1>4, <2>1 DEF RInv, ScanLives
  <2>3. scan'.pc # "idle" => live /\ scan.op <= count
    BY <1>4 DEF RInv, ScanLives
  <2>. QED
    BY <1>2, <1>4, <2>2, <2>3 DEF ScanLives
<1>7. RepairsFollow'
  BY <1>2 DEF RInv, RepairsFollow, RepairRight
<1>8. OneRequest'
  <2>1. ASSUME NEW q \in Repairers, repair'[q].pc = "mutating"
        PROVE  /\ live /\ repair'[q].target = resolved /\ repair'[q].op \notin promoted
               /\ scan'.pc # "mutating"
    BY <1>4, <2>1 DEF RInv, OneRequest, RepairRight, LockFree
  <2>2. \A q, s \in Repairers :
            repair'[q].pc = "mutating" /\ repair'[s].pc = "mutating" => q = s
    BY DEF RInv, OneRequest, RepairRight, LockFree
  <2>. QED
    BY <1>2, <2>1, <2>2 DEF OneRequest
<1>9. PublishedAreDeployments' /\ Executing'
  BY <1>2, <1>4 DEF RInv, PublishedAreDeployments, Executing
<1>10. Deleting'
  <2>1. SUFFICES ASSUME scan'.pc # "idle", kind[scan.op] = "delete"
                 PROVE  /\ PastJobs' => \A q \in Repairers : repair'[q].pc # "mutating"
                        /\ NothingLeft' => Present' = {}
    BY <1>2, <1>4 DEF Deleting
  <2>2. scan.pc # "idle" /\ scan.op \in Ops
    BY <1>4, <2>1, ScannedRow
  <2>3. scan.op = count
    BY <2>1, <2>2 DEF RInv, StoreInv, DeletionIsTheLastIntent
  <2>4. (PastJobs' => PastJobs) /\ (NothingLeft' => NothingLeft)
    BY <1>4 DEF PastJobs, NothingLeft
  <2>5. repair'[p].pc # "mutating"
    BY <2>1, <2>3 DEF RepairRight, RInv, StoreInv, RowsEndAtCount
  <2>. HIDE DEF PastJobs, NothingLeft
  <2>. QED
    BY <2>1, <2>2, <2>4, <2>5, ServicesGone DEF RInv, Deleting
<1>11. RollbackPicked' /\ FailureKnown'
  BY <1>2, <1>4 DEF RInv, RollbackPicked, FailureKnown, Current, RollsBack,
     IsRollbackTarget, Restorable
<1>. QED
  BY <1>3, <1>5, <1>6, <1>7, <1>8, <1>9, <1>10, <1>11, ServicesGone DEF RInv, ServicesMove

(* A full pass starts a health job. *)
LEMMA RefreshHealthStep ==
    ASSUME RInv, RefreshHealth
    PROVE  RInv'
<1>1. /\ repair \in [Repairers -> RepairRecord] /\ count \in Targets /\ count # 0
      /\ "health" \in Repairers /\ services \in [Services -> Service]
      /\ budget \in 0 .. Disturbances
  BY DEF RInv, RTypeOK, RepairRecord, RefreshHealth, StoreInv, TypeOK, Repairers
<1>2. /\ UNCHANGED storeVars /\ daemon' = daemon /\ scan' = scan /\ services' = services
      /\ budget' = budget
  BY Zenon DEF RefreshHealth
<1>3. /\ repair' \in [Repairers -> RepairRecord]
      /\ repair'["health"].pc = "check" /\ repair'["health"].op = count
      /\ \A q \in Repairers : q # "health" => repair'[q] = repair[q]
  <2>. DEFINE r == [IdleRepair EXCEPT !.pc = "check", !.op = count]
  <2>1. repair' = [repair EXCEPT !["health"] = r]
    BY DEF RefreshHealth
  <2>2. "check" \in RepairPc
    BY DEF RepairPc
  <2>3. r \in RepairRecord /\ r.pc = "check" /\ r.op = count
    <3>. HIDE DEF Action, Targets, RepairPc, IdleRepair
    <3>. QED
      BY <1>1, <2>2, IdleTypes DEF RepairRecord
  <2>. HIDE DEF r
  <2>. QED
    BY <1>1, <2>1, <2>3
<1>4. ServicesMove
  BY <1>1, <1>2 DEF RInv, ServicesMove, UpdatesFailAsRollouts, Present
<1>5. count \in Ops /\ count <= count
  BY <1>1 DEF Ops, Targets
<1>6. RepairRight("health")
  BY <1>3, <1>5 DEF RepairRight
<1>. QED
  BY <1>1, <1>2, <1>3, <1>4, <1>6, RepairMoves

(* A repair ends. *)
LEMMA EndRepairStep ==
    ASSUME RInv, UNCHANGED storeVars, daemon' = daemon, ServicesMove,
           budget' \in 0 .. Disturbances, NEW p \in Repairers, repair[p].pc # "idle",
           EndRepair(p)
    PROVE  RInv'
<1>1. repair \in [Repairers -> RepairRecord]
  BY DEF RInv, RTypeOK, RepairRecord
<1>2. /\ repair' \in [Repairers -> RepairRecord] /\ repair'[p].pc = "idle"
      /\ \A q \in Repairers : q # p => repair'[q] = repair[q]
  BY <1>1, IdleTypes DEF EndRepair
<1>3. RepairRight(p)
  BY <1>2 DEF RepairRight
<1>4. (scan' = scan /\ p = "health") \/ (p = "scan" /\ GoTo("decide"))
  BY DEF EndRepair, GoTo, Repairers
<1>. QED
  BY <1>2, <1>3, <1>4, RepairMoves

(* The repair of the active target. *)
LEMMA RepairStepInv ==
    ASSUME RInv, NEW p \in Repairers, RepairStep(p) \/ RepairFails(p)
    PROVE  RInv'
<1>. DEFINE r == repair[p]
<1>1. /\ repair \in [Repairers -> RepairRecord] /\ r \in RepairRecord
      /\ services \in [Services -> Service] /\ budget \in 0 .. Disturbances
      /\ resolved \in Targets /\ stopped \in BOOLEAN /\ kind \in [Ops -> Kinds]
      /\ r.pc # "idle"
  BY DEF RInv, RTypeOK, RepairRecord, StoreInv, TypeOK, RepairStep, RepairFails, MaintainActive,
     PlanRepair, LockRepair, Repaired
<1>2. UNCHANGED storeVars /\ daemon' = daemon
  BY Zenon DEF RepairStep, RepairFails, MaintainActive, PlanRepair, LockRepair, Repaired
<1>3. budget' \in 0 .. Disturbances
  <2>1. budget' = budget \/ Disturb
    BY Zenon DEF RepairStep, RepairFails, MaintainActive, PlanRepair, LockRepair, Repaired
  <2>. QED
    BY <1>1, <2>1, DisturbType
<1>4. ServicesMove
  <2>1. \/ services' = services
        \/ /\ r.pc = "mutating"
           /\ services' \in {services, Mutated(r.action, r.target, r.stopped)}
    BY Zenon DEF RepairStep, RepairFails, MaintainActive, PlanRepair, LockRepair, Repaired
  <2>2. CASE services' = services
    BY <1>1, <2>2 DEF RInv, ServicesMove, UpdatesFailAsRollouts, Present
  <2>3. CASE /\ r.pc = "mutating"
             /\ services' \in {services, Mutated(r.action, r.target, r.stopped)}
    <3>1. ~LockFree /\ r.action \in Action /\ r.action.act \in {"ensure", "remove"}
          /\ r.target \in Targets /\ r.stopped \in BOOLEAN
      BY <1>1, <2>3 DEF LockFree, RepairRecord, RInv, RTypeOK
    <3>. QED
      BY <2>3, <3>1, RequestMoves
  <2>. QED
    BY <2>1, <2>2, <2>3
<1>5. CASE EndRepair(p)
  BY <1>1, <1>2, <1>3, <1>4, <1>5, EndRepairStep
<1>6. ASSUME NEW s \in RepairRecord, repair' = [repair EXCEPT ![p] = s], scan' = scan,
             s.pc # "idle", RepairRight(p)
      PROVE  RInv'
  <2>1. /\ repair' \in [Repairers -> RepairRecord] /\ repair'[p] = s
        /\ \A q \in Repairers : q # p => repair'[q] = repair[q]
    BY <1>1, <1>6
  <2>. QED
    BY <1>1, <1>2, <1>3, <1>4, <1>6, <2>1, RepairMoves
<1>7. CASE MaintainActive(p) /\ ~EndRepair(p)
  <2>1. /\ r.pc = "check" /\ live /\ kind[r.op] # "delete" /\ resolved # 0 /\ scan' = scan
        /\ repair' = [repair EXCEPT ![p].pc = "plan", ![p].target = resolved]
    BY <1>7 DEF MaintainActive
  <2>. DEFINE s == [r EXCEPT !.pc = "plan", !.target = resolved]
  <2>2. repair' = [repair EXCEPT ![p] = s]
    BY <1>1, <2>1
  <2>3. s \in RepairRecord /\ s.pc = "plan" /\ s.target = resolved /\ s.op = r.op
    <3>1. "plan" \in RepairPc
      BY DEF RepairPc
    <3>. HIDE DEF Action, Targets, RepairPc
    <3>. QED
      BY <1>1, <3>1 DEF RepairRecord
  <2>4. r.op \in Ops /\ r.op <= count
    BY <2>1 DEF RInv, RepairsFollow
  <2>5. repair'[p] = s
    BY <1>1, <2>2
  <2>. HIDE DEF s
  <2>6. RepairRight(p)
    BY <1>1, <2>1, <2>3, <2>4, <2>5 DEF RepairRight, Kinds
  <2>. QED
    BY <1>6, <2>1, <2>2, <2>3, <2>6
<1>8. CASE PlanRepair(p) /\ ~EndRepair(p)
  <2>1. r.pc = "plan" /\ live /\ scan' = scan
    BY <1>8 DEF PlanRepair
  <2>2. PICK a \in Repairs(r.target, stopped) :
            repair' = [repair EXCEPT ![p].pc = "lock", ![p].stopped = stopped, ![p].action = a]
    BY <1>8 DEF PlanRepair
  <2>. DEFINE s == [r EXCEPT !.pc = "lock", !.stopped = stopped, !.action = a]
  <2>3. repair' = [repair EXCEPT ![p] = s]
    BY <1>1, <2>2
  <2>4. r.target \in Ops
    BY <1>1, <2>1, MaxOpsAssumption DEF RInv, RepairsFollow, RepairRecord, Targets, Ops
  <2>5. a \in Action /\ a.act \in {"ensure", "remove"}
    BY <1>1, <2>4, PlannedActions
  <2>6. s \in RepairRecord /\ s.pc = "lock" /\ s.target = r.target /\ s.op = r.op /\ s.action = a
    <3>1. "lock" \in RepairPc
      BY DEF RepairPc
    <3>. HIDE DEF Action, Targets, RepairPc
    <3>. QED
      BY <1>1, <2>5, <3>1 DEF RepairRecord
  <2>7. repair'[p] = s
    BY <1>1, <2>3
  <2>. HIDE DEF s
  <2>8. RepairRight(p)
    BY <2>1, <2>5, <2>6, <2>7 DEF RepairRight, RInv, RepairsFollow
  <2>. QED
    BY <1>6, <2>1, <2>3, <2>6, <2>8
<1>9. CASE LockRepair(p) /\ ~EndRepair(p)
  <2>1. /\ r.pc = "lock" /\ LockFree /\ RepairStillDue(r) /\ scan' = scan
        /\ repair' = [repair EXCEPT ![p].pc = "mutating"]
    BY <1>9 DEF LockRepair
  <2>. DEFINE s == [r EXCEPT !.pc = "mutating"]
  <2>2. repair' = [repair EXCEPT ![p] = s]
    BY <1>1, <2>1
  <2>3. /\ s \in RepairRecord /\ s.pc = "mutating" /\ s.target = r.target /\ s.op = r.op
        /\ s.action = r.action
    <3>1. "mutating" \in RepairPc
      BY DEF RepairPc
    <3>. HIDE DEF Action, Targets, RepairPc
    <3>. QED
      BY <1>1, <3>1 DEF RepairRecord
  <2>4. repair'[p] = s
    BY <1>1, <2>2
  <2>. HIDE DEF s
  <2>5. RepairRight(p)
    BY <2>1, <2>3, <2>4 DEF RepairRight, RepairStillDue, RInv, RepairsFollow, RTypeOK
  <2>. QED
    BY <1>6, <2>1, <2>2, <2>3, <2>5
<1>10. CASE Repaired(p) /\ ~EndRepair(p)
  <2>1. /\ r.pc = "mutating" /\ scan' = scan
        /\ repair' = [repair EXCEPT ![p].pc = "plan"]
    BY <1>10 DEF Repaired
  <2>. DEFINE s == [r EXCEPT !.pc = "plan"]
  <2>2. repair' = [repair EXCEPT ![p] = s]
    BY <1>1, <2>1
  <2>3. s \in RepairRecord /\ s.pc = "plan" /\ s.target = r.target /\ s.op = r.op
    <3>1. "plan" \in RepairPc
      BY DEF RepairPc
    <3>. HIDE DEF Action, Targets, RepairPc
    <3>. QED
      BY <1>1, <3>1 DEF RepairRecord
  <2>4. repair'[p] = s
    BY <1>1, <2>2
  <2>. HIDE DEF s
  <2>5. RepairRight(p)
    BY <2>1, <2>3, <2>4 DEF RepairRight, RInv, RepairsFollow
  <2>. QED
    BY <1>6, <2>1, <2>2, <2>3, <2>5
<1>. QED
  BY <1>5, <1>7, <1>8, <1>9, <1>10 DEF RepairStep, RepairFails

-----------------------------------------------------------------------------
(* Crashes, recovery and clients preserve the invariant *)

(* The daemon stops; a request in flight took effect or did not. *)
LEMMA CrashStep ==
    ASSUME RInv, Crash
    PROVE  RInv'
<1>1. UNCHANGED storeVars /\ daemon' = "starting" /\ Disturb
  BY Zenon DEF Crash
<1>2. scan' \in ScanRecord /\ scan'.pc = "idle"
  BY IdleTypes DEF Crash
<1>3. repair' \in [Repairers -> RepairRecord] /\ \A p \in Repairers : repair'[p].pc = "idle"
  BY IdleTypes DEF Crash
<1>4. ServicesMove
  <2>1. CASE services' = services
    BY <2>1 DEF RInv, RTypeOK, ServicesMove, UpdatesFailAsRollouts, Present
  <2>2. CASE /\ scan.pc = "mutating"
             /\ services' = Mutated(scan.action, target[scan.op], scan.stopped)
    <3>1. scan.action \in Action /\ scan.action.act \in {"ensure", "remove"} /\ ~LockFree
          /\ target[scan.op] \in Targets /\ scan.stopped \in BOOLEAN
      BY <2>2, ScannedRow DEF RInv, RTypeOK, StoreInv, TypeOK, LockFree
    <3>. QED
      BY <2>2, <3>1, RequestMoves
  <2>3. ASSUME NEW p \in Repairers, repair[p].pc = "mutating",
               services' = Mutated(repair[p].action, repair[p].target, repair[p].stopped)
        PROVE  ServicesMove
    <3>1. repair[p].action \in Action /\ repair[p].action.act \in {"ensure", "remove"}
          /\ ~LockFree /\ repair[p].target \in Targets /\ repair[p].stopped \in BOOLEAN
      BY <2>3 DEF RInv, RTypeOK, LockFree
    <3>. QED
      BY <2>3, <3>1, RequestMoves
  <2>. QED
    BY <2>1, <2>2, <2>3 DEF Crash
<1>5. live' = live /\ kind' = kind /\ promoted' = promoted /\ StoreInv'
  <2>1. StoreInv'
    BY <1>1, UnchangedRows DEF RInv
  <2>. QED
    BY <1>1, <2>1, Zenon DEF storeVars, envVars, rowVars
<1>6. RTypeOK'
  BY <1>1, <1>2, <1>3, <1>4, DisturbType
     DEF RInv, RTypeOK, ScanRecord, RepairRecord, ServicesMove
<1>7. ScanLives' /\ RepairsFollow' /\ OneRequest'
  <2>1. "scan" \in Repairers
    BY DEF Repairers
  <2>. QED
    BY <1>2, <1>3, <2>1 DEF ScanLives, RepairsFollow, OneRequest
<1>8. PublishedAreDeployments'
  BY <1>5 DEF RInv, PublishedAreDeployments
<1>9. Executing' /\ Deleting' /\ RollbackPicked' /\ FailureKnown'
  BY <1>2 DEF Executing, Deleting, RollbackPicked, FailureKnown
<1>. QED
  BY <1>1, <1>4, <1>5, <1>6, <1>7, <1>8, <1>9, ServicesGone DEF RInv, ServicesMove

(* Transactions of others that keep what the scan and the repairs have read. *)
LEMMA OthersStep ==
    ASSUME RInv, StoreInv', RowsKept, OutcomesKept, daemon' \in {"starting", "up"},
           scan' = scan, repair' = repair, services' = services,
           budget' \in 0 .. Disturbances
    PROVE  RInv'
<1>1. scan.pc # "idle" => scan.op \in Ops /\ scan.op <= count /\ live
  BY ScannedRow
<1>2. /\ count \in Nat /\ count' \in Nat
      /\ \A o \in Ops : o \in Nat
      /\ \A o \in promoted : o \in Ops /\ o <= count
      /\ \A o \in succeededAt : o \in Ops /\ o <= count
  BY DEF RInv, StoreInv, TypeOK, RowsEndAtCount, Ops, Targets
<1>3. RTypeOK'
  BY DEF RInv, RTypeOK
<1>4. ScanLives'
  BY <1>1, <1>2 DEF RInv, ScanLives, RowsKept
<1>5. RepairsFollow'
  BY <1>2 DEF RInv, RepairsFollow, RowsKept
<1>6. OneRequest'
  BY DEF RInv, OneRequest, RowsKept
<1>7. PublishedAreDeployments'
  <2>1. \A o \in promoted : kind'[o] = kind[o] /\ kind[o] = "deploy"
    BY <1>2 DEF RInv, PublishedAreDeployments, RowsKept
  <2>2. promoted' = promoted
    BY DEF RowsKept
  <2>. QED
    BY <2>1, <2>2 DEF PublishedAreDeployments
<1>8. Executing'
  BY <1>1 DEF RInv, Executing, RowsKept
<1>9. Deleting'
  BY <1>1 DEF RInv, Deleting, PastJobs, NothingLeft, Present, RowsKept
<1>10. RollbackPicked'
  <2>1. SUFFICES ASSUME scan.pc = "rollback", Current'
                 PROVE  RollsBack(scan.op, scan.result)' /\ IsRollbackTarget(scan.op, scan.restore)'
    BY DEF RInv, RollbackPicked
  <2>2. scan.op \in Ops /\ scan.op <= count
    BY <1>1, <2>1
  <2>3. scan.op = count /\ state'[scan.op] = "running"
    BY <1>2, <2>1, <2>2 DEF Current, RowsKept
  <2>4. Current
    BY <2>1, <2>2, <2>3 DEF Current, RowsKept, OutcomesKept
  <2>5. RollsBack(scan.op, scan.result) /\ IsRollbackTarget(scan.op, scan.restore)
    BY <2>1, <2>4 DEF RInv, RollbackPicked
  <2>6. \A e \in Ops : Restorable(e)' <=> Restorable(e)
    BY <1>2 DEF Restorable, OutcomesKept
  <2>7. scan.restore \in Ops
    BY <2>1 DEF RInv, RollbackPicked
  <2>. QED
    BY <2>2, <2>5, <2>6, <2>7 DEF RollsBack, IsRollbackTarget, OutcomesKept
<1>11. FailureKnown'
  BY <1>1 DEF RInv, FailureKnown, OutcomesKept
<1>12. UpdatesFailAsRollouts' /\ GoneLeavesNothing'
  BY DEF RInv, UpdatesFailAsRollouts, GoneLeavesNothing, RowsKept, Present
<1>. QED
  BY <1>3, <1>4, <1>5, <1>6, <1>7, <1>8, <1>9, <1>10, <1>11, <1>12 DEF RInv

(* Clients request, stop and start; the first pass recovers what was left. *)
LEMMA ClientStep ==
    ASSUME RInv, StoreInv', ClientRequest \/ Recover
    PROVE  RInv'
<1>1. scan' = scan /\ repair' = repair /\ services' = services
  BY Zenon DEF ClientRequest, Recover, procVars
<1>2. daemon' = daemon \/ daemon' = "up"
  BY Zenon DEF ClientRequest, Recover, procVars
<1>3. UNCHANGED budget \/ Disturb
  BY Zenon DEF ClientRequest, Recover
<1>4. daemon' \in {"starting", "up"} /\ budget' \in 0 .. Disturbances
  BY <1>2, <1>3, DisturbType DEF RInv, RTypeOK
<1>5. CASE ClientRequest
  <2>1. Request
    BY <1>5, Zenon DEF ClientRequest, Request
  <2>. QED
    BY <1>1, <1>4, <2>1, RequestKeeps, OthersStep DEF RInv
<1>6. CASE Recover /\ UNCHANGED storeVars
  BY <1>1, <1>4, <1>6, UnchangedRows, OthersStep DEF RInv
<1>7. CASE Recover /\ RecoverInterrupted
  <2>1. PICK o \in Ops : state[o] = "running"
    BY <1>7 DEF RecoverInterrupted
  <2>2. RowsKept
    BY <1>7, <2>1, StatesOnly DEF RInv
  <2>. QED
    BY <1>1, <1>4, <1>7, <2>2, RecoverKeeps, OthersStep DEF RInv
<1>. QED
  BY <1>5, <1>6, <1>7 DEF Recover

-----------------------------------------------------------------------------
(* The invariant *)

LEMMA RInitInv == Init => RInv
<1>. SUFFICES ASSUME Init PROVE RInv
  OBVIOUS
<1>1. StoreInv /\ live = TRUE /\ promoted = {}
  BY InitInv DEF Init, StoreInit
<1>2. scan \in ScanRecord /\ scan.pc = "idle"
  BY IdleTypes DEF Init
<1>3. repair \in [Repairers -> RepairRecord] /\ \A p \in Repairers : repair[p].pc = "idle"
  BY IdleTypes DEF Init
<1>4. Absent \in Service /\ Absent.conv # "failed"
  BY MaxOpsAssumption DEF Absent, Service, Targets
<1>5. services \in [Services -> Service] /\ UpdatesFailAsRollouts
  BY <1>4 DEF Init, UpdatesFailAsRollouts
<1>6. daemon \in {"starting", "up"} /\ budget \in 0 .. Disturbances
  BY DisturbancesAssumption DEF Init
<1>7. RTypeOK
  BY <1>2, <1>3, <1>5, <1>6 DEF RTypeOK, ScanRecord, RepairRecord
<1>8. ScanLives /\ RepairsFollow /\ OneRequest
  <2>1. "scan" \in Repairers
    BY DEF Repairers
  <2>. QED
    BY <1>2, <1>3, <2>1 DEF ScanLives, RepairsFollow, OneRequest
<1>9. PublishedAreDeployments /\ GoneLeavesNothing
  BY <1>1 DEF PublishedAreDeployments, GoneLeavesNothing
<1>10. Executing /\ Deleting /\ RollbackPicked /\ FailureKnown
  BY <1>2 DEF Executing, Deleting, RollbackPicked, FailureKnown
<1>. QED
  BY <1>1, <1>5, <1>7, <1>8, <1>9, <1>10 DEF RInv

LEMMA RStepInv == RInv /\ [Next]_vars => RInv'
<1>. SUFFICES ASSUME RInv, [Next]_vars PROVE RInv'
  OBVIOUS
<1>1. StoreInv'
  BY StepRefines, StepInv DEF RInv
<1>2. CASE UNCHANGED vars
  <2>1. UNCHANGED storeVars /\ UNCHANGED procVars /\ services' = services /\ budget' = budget
    BY <1>2, Zenon DEF vars
  <2>2. ServicesMove
    BY <2>1 DEF RInv, RTypeOK, ServicesMove, UpdatesFailAsRollouts, Present
  <2>. QED
    BY <2>1, <2>2, ServicesStep DEF RInv, RTypeOK
<1>3. CASE Discover
  BY <1>3, DiscoverStep
<1>4. CASE RefreshHealth
  BY <1>4, RefreshHealthStep
<1>5. ASSUME NEW p \in Repairers, RepairStep(p) \/ RepairFails(p) PROVE RInv'
  BY <1>5, RepairStepInv
<1>6. CASE ScanOperation
  BY <1>6, ScanOperationStep
<1>7. CASE DecideRun \/ DecideRetry \/ DecideNotDue \/ DecidePlan
  BY <1>1, <1>7, DecideStep
<1>8. CASE BeginRequested \/ BeginRunning
  BY <1>1, <1>8, BeginStep
<1>9. CASE Prepare
  BY <1>1, <1>9, PrepareStep
<1>10. CASE RunJobs
  BY <1>10, RunJobsStep
<1>11. CASE PlanOperation
  BY <1>11, PlanStep
<1>12. CASE Publish
  BY <1>1, <1>12, PublishStep
<1>13. CASE NothingToDo \/ SendRequest \/ WaitService
  BY <1>13, ActStep
<1>14. CASE Mutate \/ MutateFails
  BY <1>14, MutateStep
<1>15. CASE Prune
  BY <1>15, PruneStep
<1>16. CASE Succeed
  BY <1>1, <1>16, SucceedStep
<1>17. CASE FinishDelete
  BY <1>1, <1>17, FinishDeleteStep
<1>18. CASE SettleCancelled \/ Yield \/ Fail \/ AcceptRollback \/ Recheck
  BY <1>1, <1>18, EndStep
<1>19. CASE PickRollback
  BY <1>19, PickStep
<1>20. CASE JobFails \/ ExecutionFails
  BY <1>1, <1>20, ExecutionFailsStep
<1>21. ASSUME NEW s \in Services, Converge(s) \/ UpdateFails(s) \/ Drift(s) PROVE RInv'
  BY <1>21, SwarmStep
<1>22. CASE Crash
  BY <1>22, CrashStep
<1>23. CASE ClientRequest \/ Recover
  BY <1>1, <1>23, ClientStep
<1>. QED
  BY <1>2, <1>3, <1>4, <1>5, <1>6, <1>7, <1>8, <1>9, <1>10, <1>11, <1>12, <1>13, <1>14,
     <1>15, <1>16, <1>17, <1>18, <1>19, <1>20, <1>21, <1>22, <1>23
     DEF Next, ExecutionStep, Failure

(* The inductive invariant holds throughout. *)
THEOREM ReconcilerInvariant == Spec => []RInv
<1>1. Init => RInv
  BY RInitInv
<1>2. RInv /\ [Next]_vars => RInv'
  BY RStepInv
<1>. QED
  BY <1>1, <1>2, PTL DEF Spec

(* Every step of the reconciler is a transaction the store allows             *)
(* (apps/piqueld/src/reconcile over apps/piqueld/src/store).                  *)
THEOREM ReconcilerImplementsStore == Spec => ImplementsStore
<1>1. Init => StoreInit
  BY DEF Init
<1>2. RInv /\ [Next]_vars => [StoreNext]_storeVars
  BY StepRefines
<1>. QED
  BY <1>1, <1>2, ReconcilerInvariant, PTL DEF Spec, ImplementsStore, StoreSpec

(* What is proved of the store's rows holds while the reconciler runs:        *)
(* automatic rollbacks happen once, and recorded outcomes agree with the      *)
(* operations.                                                                *)
THEOREM ReconciledRows ==
    Spec => /\ []NewestIntentWins
            /\ []ActiveTargetIsLastPublished
            /\ []RolledBackOnce
            /\ []OutcomeAgreesWithState
            /\ SupersededIsFinal
BY ReconcilerImplementsStore, StoreNewestIntentWins, StoreActiveTarget, StoreRolledBackOnce,
   StoreOutcomes, StoreSupersededIsFinal, PTL DEF ImplementsStore

(* Docker requests follow the active target, one at a time (publish,          *)
(* repair_once, retry).                                                       *)
THEOREM ReconcilerRequestsFollow == Spec => []RequestsFollowActiveTarget
<1>1. RInv => RequestsFollowActiveTarget
  <2>. SUFFICES ASSUME RInv PROVE RequestsFollowActiveTarget
    OBVIOUS
  <2>. DEFINE F == {p \in Repairers : repair[p].pc = "mutating"}
  <2>1. Cardinality(F) <= 1
    <3>1. CASE F = {}
      BY <3>1, FS_EmptySet
    <3>2. CASE F # {}
      <4>1. PICK p : p \in F
        BY <3>2
      <4>2. F = {p}
        BY <4>1 DEF RInv, OneRequest
      <4>3. Cardinality(F) = 1
        BY <4>2, FS_Singleton
      <4>. QED
        BY <4>3
    <3>. QED
      BY <3>1, <3>2
  <2>2. scan.pc = "mutating" /\ scan.action.act = "ensure"
            => target[scan.op] = resolved /\ kind[scan.op] = "deploy"
    BY ScannedRow DEF RInv, Executing, StoreInv, TypeOK, Kinds
  <2>. QED
    BY <2>1, <2>2 DEF RequestsFollowActiveTarget, RInv, OneRequest
<1>. QED
  BY <1>1, ReconcilerInvariant, PTL

(* A finished deletion leaves nothing in Docker and no request that could     *)
(* bring something back (remove_jobs, finish_delete_operation).               *)
THEOREM ReconcilerDeletionLeavesNothing == Spec => []DeletionLeavesNothing
<1>1. RInv => DeletionLeavesNothing
  BY DEF RInv, DeletionLeavesNothing, GoneLeavesNothing, LockFree, ScanLives, OneRequest
<1>. QED
  BY <1>1, ReconcilerInvariant, PTL

-----------------------------------------------------------------------------
(* A failed job waits for a client *)

(* No transaction but a reset or the end of the environment takes an          *)
(* operation out of the failed state.                                         *)
LEMMA FailedStays ==
    ASSUME StoreInv, NEW o \in Ops, state[o] = "failed", NEW p \in Ops, Execute(p),
           ~RequestReconcile(p), live'
    PROVE  state'[o] = "failed"
<1>1. state \in [Ops -> States]
  BY DEF StoreInv, TypeOK
<1>2. ASSUME NEW from \in {"requested", "running"}, NEW to, NEW code,
             TransitionOperation(p, from, to, code)
      PROVE  state'[o] = "failed"
  <2>1. state[p] = from /\ state' = [state EXCEPT ![p] = to]
    BY <1>2 DEF TransitionOperation
  <2>. QED
    BY <1>1, <2>1
<1>3. ASSUME NEW code, NEW d, RollBack(p, code, d) PROVE state'[o] = "failed"
  <2>1. PICK st, er, oc : st = [state EXCEPT ![p] = "failed"]
                          /\ StartOperation(st, er, oc, "deploy")
    BY <1>3 DEF RollBack, AcceptRestore
  <2>2. st[o] = "failed"
    BY <1>1, <2>1
  <2>3. o # count + 1
    BY DEF StoreInv, TypeOK, RowsEndAtCount, Ops, Targets
  <2>. QED
    BY <2>1, <2>2, <2>3 DEF StartOperation, Open
<1>4. ASSUME NEW code, RecordOperationError(p, code) PROVE state'[o] = "failed"
  BY <1>4 DEF RecordOperationError
<1>5. ~FinishDeleteOperation(p)
  BY DEF FinishDeleteOperation
<1>6. CASE PrepareTarget(p)
  BY <1>6 DEF PrepareTarget, SavePrepared, execVars
<1>7. CASE PublishPrepared(p)
  BY <1>7 DEF PublishPrepared, execVars
<1>. QED
  BY <1>2, <1>3, <1>4, <1>5, <1>6, <1>7 DEF Execute

(* The scan never reopens an operation that a failed job ended.               *)
LEMMA JobFailureNotReopened ==
    ASSUME RInv, ExecutionStep \/ DecideRetry \/ JobFails,
           scan.pc # "idle", state[scan.op] = "failed", error[scan.op] = "job"
    PROVE  ~RequestReconcile(scan.op) \/ UNCHANGED storeVars
<1>1. CASE DecideRetry \/ DecidePlan
  <2>1. scan.pc = "decide"
    BY <1>1 DEF DecideRetry, DecidePlan
  <2>2. scan.state = "failed" /\ scan.error = "job"
    BY <2>1 DEF RInv, FailureKnown
  <2>3. ~RetryDue(scan.error) /\ ~NeedsWork
    BY <2>2 DEF RetryDue, NeedsWork, WasBlocked
  <2>. QED
    BY <1>1, <2>3 DEF DecideRetry, DecidePlan
<1>2. CASE Recheck
  BY <1>2 DEF Recheck, RInv, FailureKnown
<1>3. CASE UNCHANGED storeVars
  BY <1>3
<1>4. CASE /\ ~UNCHANGED storeVars
           /\ \/ BeginRequested \/ BeginRunning \/ Prepare \/ JobFails \/ Publish
              \/ Succeed \/ Yield \/ FinishDelete \/ Fail \/ AcceptRollback
  \* Each of these writes only rows of a running or requested operation.
  <2>1. state[scan.op] \in {"running", "requested"}
    <3>1. \/ \E from \in {"running", "requested"} : \E to, code :
                 TransitionOperation(scan.op, from, to, code)
          \/ \E code : RecordOperationError(scan.op, code)
          \/ PrepareTarget(scan.op) \/ PublishPrepared(scan.op)
          \/ FinishDeleteOperation(scan.op)
          \/ \E code, d : RollBack(scan.op, code, d)
      BY <1>4 DEF BeginRequested, BeginRunning, Prepare, JobFails, Publish, Succeed, Yield,
         FinishDelete, Fail, AcceptRollback, FailOperation
    <3>. QED
      BY <3>1 DEF TransitionOperation, RecordOperationError, PrepareTarget, SavePrepared,
         PublishPrepared, FinishDeleteOperation, RollBack
  <2>. QED
    BY <2>1
<1>5. CASE \/ ScanOperation \/ DecideRun \/ RunJobs \/ PlanOperation \/ NothingToDo
           \/ SendRequest \/ Mutate \/ WaitService \/ Prune \/ SettleCancelled \/ PickRollback
  BY <1>5, Zenon DEF ScanOperation, DecideRun, RunJobs, PlanOperation, NothingToDo,
     SendRequest, Mutate, WaitService, Prune, SettleCancelled, PickRollback
<1>. QED
  BY <1>1, <1>2, <1>3, <1>4, <1>5 DEF ExecutionStep

(* So only a client does.                                                     *)
LEMMA JobFailureStep ==
    ASSUME RInv, [Next]_vars, NEW o \in Ops, state[o] = "failed", error[o] = "job", live'
    PROVE  state'[o] = "failed" \/ (Request /\ UNCHANGED procVars)
<1>1. CASE ExecutionStep \/ DecideRetry \/ JobFails
  <2>1. CASE UNCHANGED storeVars
    BY <2>1 DEF storeVars, execVars
  <2>2. CASE ~UNCHANGED storeVars
    <3>1. scan.pc # "idle" /\ Execute(scan.op) /\ scan.op \in Ops
      BY <1>1, <2>2, ScanRefines, ScannedRow
    <3>2. CASE ~RequestReconcile(scan.op)
      BY <3>1, <3>2, FailedStays DEF RInv
    <3>3. CASE RequestReconcile(scan.op)
      <4>1. o # scan.op
        BY <1>1, <2>2, <3>1, <3>3, JobFailureNotReopened
      <4>2. state' = [state EXCEPT ![scan.op] = "requested"]
        BY <3>3 DEF RequestReconcile, RetryOperation, ResetToRequested
      <4>. QED
        BY <3>1, <4>1, <4>2 DEF RInv, StoreInv, TypeOK
    <3>. QED
      BY <3>2, <3>3
  <2>. QED
    BY <2>1, <2>2
<1>2. CASE ClientRequest
  BY <1>2, Zenon DEF ClientRequest, Request, procVars
<1>3. CASE Recover
  <2>1. CASE UNCHANGED storeVars
    BY <2>1 DEF storeVars, execVars
  <2>2. CASE RecoverInterrupted
    BY <2>2 DEF RecoverInterrupted
  <2>. QED
    BY <1>3, <2>1, <2>2 DEF Recover
<1>4. ASSUME UNCHANGED storeVars PROVE state'[o] = "failed"
  BY <1>4 DEF storeVars, execVars
<1>5. CASE Discover \/ RefreshHealth \/ DecideNotDue \/ ExecutionFails \/ MutateFails \/ Crash
  BY <1>4, <1>5, Zenon DEF Discover, RefreshHealth, DecideNotDue, ExecutionFails, MutateFails,
     Crash
<1>6. ASSUME NEW p \in Repairers, RepairStep(p) \/ RepairFails(p) PROVE UNCHANGED storeVars
  BY <1>6, Zenon DEF RepairStep, RepairFails, MaintainActive, PlanRepair, LockRepair, Repaired
<1>7. ASSUME NEW s \in Services, Converge(s) \/ UpdateFails(s) \/ Drift(s)
      PROVE  UNCHANGED storeVars
  BY <1>7, Zenon DEF Converge, UpdateFails, Drift
<1>8. CASE UNCHANGED vars
  BY <1>4, <1>8 DEF vars
<1>. QED
  BY <1>1, <1>2, <1>3, <1>4, <1>5, <1>6, <1>7, <1>8 DEF Next, Failure

(* A deployment that a failed job ended runs again only when a client asks    *)
(* (scan_latest_operation).                                                   *)
THEOREM ReconcilerJobFailuresWait == Spec => JobFailuresWaitForClients
<1>1. RInv /\ [Next]_vars =>
          [\A o \in Ops :
              state[o] = "failed" /\ error[o] = "job" /\ state'[o] # "failed" /\ live'
                => Request /\ UNCHANGED procVars]_vars
  BY JobFailureStep
<1>. QED
  BY <1>1, ReconcilerInvariant, PTL DEF Spec, JobFailuresWaitForClients

=============================================================================
