---------------------------- MODULE JobRunsProofs ----------------------------
(***************************************************************************)
(* Proofs about JobRuns, for every number of jobs, operations and          *)
(* disturbances and every set of exclusive jobs: a run starts when nothing *)
(* of any run is left, the application never shares its volume with an     *)
(* exclusive run, a deletion leaves no run, and a success is not run again.*)
(*                                                                         *)
(* The inductive invariant says what each stage of the scan has            *)
(* established and nobody undoes meanwhile: once a service is gone no task *)
(* of it appears, and once its tasks are gone no container does; only the  *)
(* scan, and the repair of the application, create services, under one     *)
(* lock; and what is cleaned up belongs to an operation that is superseded,*)
(* recorded a job's failure, or has only recorded runs.                    *)
(***************************************************************************)
EXTENDS JobRuns, OperationStoreProofs

Quiet(u) == ~docker[u].svc /\ ~docker[u].task /\ ~docker[u].ctr

CleaningUp == scan.pc \in {"cleanup", "stop", "stopped"}

\* The scan has chosen a job that it has not recorded.
WithJob ==
    \/ scan.pc \in {"job", "await", "start", "starting", "wait", "record"}
    \/ CleaningUp /\ scan.back = "job"

\* A run's outcome is recorded, and its cleanup is attempted.
AfterJob == scan.pc \in {"request", "after"} \/ (CleaningUp /\ scan.back = "after")

\* Where the operation's failure may have been recorded already.
JobFailed == scan.pc = "record" /\ scan.result = "job"

\* Every run of `o' is recorded or was never started.
Finished(o) == \A r \in RunsOf(o) : r \in recorded \/ docker[r] = Gone

\* Operations whose runs may be removed.
ToCleanUp == cleanup \cup (IF CleaningUp THEN scan.pending ELSE {})

\* Where the scan is: on an operation that has a row, with a step of its stage.
ScanInv ==
    /\ daemon = "starting" => scan.pc = "idle"
    /\ scan.pc # "idle" => live /\ scan.op \in Ops /\ scan.op <= count
    /\ scan.cancelled => scan.pc # "idle" /\ scan.op # count
    /\ scan.pc \in {"stop", "stopped"} => scan.step \in Ops
    /\ scan.pc = "starting" => scan.step \in 1 .. Len(CheckStart(scan.job)) + 1
    /\ scan.pc = "ensuring" => scan.step \in 1 .. 4
    /\ repair # 0 => scan.pc \notin {"starting", "ensuring"}

\* The chosen job, and how its run ended.
JobInv ==
    /\ WithJob => /\ scan.job \in Jobs /\ Run \notin recorded
                  /\ \A k \in Jobs : k < scan.job => <<k, scan.op>> \in recorded
                  /\ kind[scan.op] = "deploy" /\ target[scan.op] = scan.op
    /\ AfterJob \/ scan.pc = "ensuring" => kind[scan.op] = "deploy"
    /\ scan.result = "job" => scan.op \in ended
    /\ scan.pc = "record" =>
           /\ scan.result \in {"ok", "job", "yield", "retryable"}
           /\ scan.result = "ok" => docker[Run].exit = "ok"
    /\ scan.pc = "request" =>
           /\ scan.result \in {"ok", "job", "yield"}
           /\ scan.result = "ok" => Finished(scan.op)
           /\ scan.result = "yield" => scan.op # count
    /\ /\ \/ scan.pc \in {"stale", "staleStopped", "next"}
          \/ WithJob /\ ~JobFailed
          \/ AfterJob /\ scan.result = "ok"
       /\ kind[scan.op] = "deploy" /\ scan.op = count
       => state[count] = "running"

\* Removing what is to be cleaned up loses no success that is needed.
LosesNothing ==
    live => \A o \in ToCleanUp : o <= count /\ (o \in ended \/ o # count \/ Finished(o))

\* What is pending of cleanup.
CleanupInv ==
    /\ CleaningUp /\ scan.back = "job" => cleanup \subseteq scan.pending
    /\ WithJob /\ ~CleaningUp /\ ~JobFailed => cleanup = {}
    /\ LosesNothing

\* What stopped before a job or the rollout of a deletion.
StoppedInv ==
    /\ scan.pc \in {"stale", "staleStopped"} => \A r \in Stale(scan.op) : ~docker[r].svc
    /\ scan.pc = "staleStopped" => \A r \in Stale(scan.op) : ~docker[r].task
    /\ scan.pc = "next" \/ WithJob \/ AfterJob =>
           \A r \in Runs : r[2] # scan.op => Quiet(r)
    /\ /\ scan.pc \in {"next", "rollout"} \/ (scan.pc = "settle" /\ scan.result = "ok")
       /\ kind[scan.op] = "delete"
       => \A r \in Runs : Quiet(r)

\* What `step - 1' reads of check_volumes_free found of the exclusive runs.
Checked(step) ==
    \A r \in Runs : r[1] \in Exclusive =>
        /\ step > 1 => ~docker[r].svc
        /\ step > 2 => ~docker[r].task
        /\ step > 3 => ~docker[r].ctr

\* The reads of a check stay true while the lock is held.
LockInv ==
    /\ scan.pc = "starting" =>
           /\ Run \notin done \/ scan.op \in ended
           /\ \A o \in Ops :
                  /\ ~docker[<<scan.job, o>>].svc
                  /\ scan.step > 1 => ~docker[<<scan.job, o>>].task
                  /\ scan.step > 2 => ~docker[<<scan.job, o>>].ctr
           /\ scan.step > 3 => ~docker[App].svc
           /\ scan.step > 4 => ~docker[App].task
           /\ scan.step > 5 => ~docker[App].ctr
    /\ scan.pc = "ensuring" => Checked(scan.step)
    /\ Checked(repair)

\* A run that exited stays so; jobs start in their order; a success of the
\* latest operation is recorded or can still be read from Docker.
WorldInv ==
    /\ \A r \in Runs :
           /\ docker[r].exit # "none" => ~docker[r].task /\ ~docker[r].ctr
           /\ docker[r].exit = "ok" => r \in done
           /\ r \in recorded => docker[r].exit = "ok"
           /\ docker[r] # Gone => \A k \in Jobs : k < r[1] => <<k, r[2]>> \in recorded
           /\ live /\ docker[r] # Gone =>
                  kind[r[2]] = "deploy" /\ target[r[2]] = r[2] /\ r[2] <= count
           /\ live /\ r \in done =>
                  \/ r[2] \in ended
                  \/ r[2] # count
                  \/ docker[r].exit = "ok" /\ (r \in recorded \/ docker[r].svc)
           /\ live /\ r \in done => r[2] <= count
           /\ ~live => Quiet(r)
           /\ r[1] \in Exclusive => Quiet(r) \/ Quiet(App)
    /\ \A o \in promoted : kind[o] = "deploy"

JInv ==
    /\ StoreInv
    /\ JTypeOK
    /\ ScanInv
    /\ JobInv
    /\ CleanupInv
    /\ StoppedInv
    /\ LockInv
    /\ WorldInv

-----------------------------------------------------------------------------
(* Units of Docker *)

UnitRecord == [svc : BOOLEAN, task : BOOLEAN, ctr : BOOLEAN, exit : {"none", "ok", "failed"}]

LEMMA RunFacts ==
    /\ \A r \in Runs : r[1] \in Jobs /\ r[2] \in Ops /\ r = <<r[1], r[2]>> /\ r \in Units /\ r # App
    /\ \A j \in Jobs, o \in Ops : <<j, o>> \in Runs /\ <<j, o>>[1] = j /\ <<j, o>>[2] = o
    /\ App \in Units
    /\ \A u \in Units : u \in Runs \/ u = App
BY MaxJobsAssumption, MaxOpsAssumption DEF Runs, Units, App, Jobs, Ops

LEMMA UnitEta ==
    ASSUME NEW v \in UnitRecord
    PROVE  /\ v = [svc |-> v.svc, task |-> v.task, ctr |-> v.ctr, exit |-> v.exit]
           /\ v.svc \in BOOLEAN /\ v.task \in BOOLEAN /\ v.ctr \in BOOLEAN
           /\ v.exit \in {"none", "ok", "failed"}
BY DEF UnitRecord

LEMMA UnitExcept ==
    ASSUME NEW v \in UnitRecord, NEW b
    PROVE  /\ [v EXCEPT !.svc = b] = [svc |-> b, task |-> v.task, ctr |-> v.ctr, exit |-> v.exit]
           /\ [v EXCEPT !.task = b] = [svc |-> v.svc, task |-> b, ctr |-> v.ctr, exit |-> v.exit]
           /\ [v EXCEPT !.ctr = b] = [svc |-> v.svc, task |-> v.task, ctr |-> b, exit |-> v.exit]
           /\ [v EXCEPT !.exit = b] = [svc |-> v.svc, task |-> v.task, ctr |-> v.ctr, exit |-> b]
BY DEF UnitRecord

LEMMA GoneFacts ==
    /\ Gone \in UnitRecord /\ ~Gone.svc /\ ~Gone.task /\ ~Gone.ctr /\ Gone.exit = "none"
    /\ Created \in UnitRecord /\ Created.svc /\ ~Created.task /\ ~Created.ctr
    /\ Created.exit = "none"
    /\ \A v \in UnitRecord : ~v.svc /\ ~v.task /\ ~v.ctr /\ v.exit = "none" => v = Gone
<1>1. /\ Gone \in UnitRecord /\ ~Gone.svc /\ ~Gone.task /\ ~Gone.ctr /\ Gone.exit = "none"
  BY DEF Gone, UnitRecord
<1>2. Created = [svc |-> TRUE, task |-> FALSE, ctr |-> FALSE, exit |-> "none"]
  <2>1. Created = [svc |-> TRUE, task |-> Gone.task, ctr |-> Gone.ctr, exit |-> Gone.exit]
    BY <1>1, UnitExcept DEF Created
  <2>. QED
    BY <2>1 DEF Gone
<1>3. ASSUME NEW v \in UnitRecord, ~v.svc, ~v.task, ~v.ctr, v.exit = "none" PROVE v = Gone
  <2>1. v.svc = FALSE /\ v.task = FALSE /\ v.ctr = FALSE
    BY <1>3, UnitEta
  <2>. QED
    BY <1>3, <2>1, UnitEta DEF Gone
<1>4. /\ Created \in UnitRecord /\ Created.svc /\ ~Created.task /\ ~Created.ctr
      /\ Created.exit = "none"
  BY <1>2 DEF UnitRecord
<1>. QED
  BY <1>1, <1>3, <1>4

\* A step of Docker in which no service appears: tasks come from services and
\* containers from tasks, and what exited stays as it is.
Calm(removed) ==
    /\ docker' \in [Units -> UnitRecord]
    /\ \A u \in Units :
           /\ docker'[u].svc => docker[u].svc
           /\ docker[u].svc /\ u \notin removed => docker'[u].svc
           /\ docker'[u].task => docker[u].task \/ docker[u].svc
           /\ docker'[u].ctr => docker[u].ctr \/ docker[u].task
           /\ docker[u] = Gone => docker'[u] = Gone
    /\ \A r \in Runs :
           /\ docker[r].exit # "none" =>
                  /\ docker'[r].exit = docker[r].exit
                  /\ docker'[r].task => docker[r].task
                  /\ docker'[r].ctr => docker[r].ctr
           /\ docker'[r].exit # docker[r].exit =>
                  /\ ~docker'[r].task /\ ~docker'[r].ctr
                  /\ docker'[r].exit = "ok" => r \in done'

\* Removing the services of a run that succeeded is safe once it is recorded or
\* its operation cannot run it again.
Safe(removed) ==
    live => \A r \in Runs : r \in removed /\ r \in done =>
        r \in recorded \/ r[2] \in ended' \/ r[2] # count

LEMMA WithoutCalm ==
    ASSUME JInv, NEW rs, docker' = WithoutServices(rs)
    PROVE  Calm(rs) /\ \A u \in Units : u \in rs => ~docker'[u].svc
<1>1. docker \in [Units -> UnitRecord]
  BY DEF JInv, JTypeOK, UnitRecord
<1>2. docker' = [u \in Units |-> IF u \in rs THEN [docker[u] EXCEPT !.svc = FALSE] ELSE docker[u]]
  BY DEF WithoutServices
<1>3. ASSUME NEW u \in Units
      PROVE  /\ docker'[u] \in UnitRecord
             /\ docker'[u].task = docker[u].task /\ docker'[u].ctr = docker[u].ctr
             /\ docker'[u].exit = docker[u].exit
             /\ u \in rs => ~docker'[u].svc
             /\ u \notin rs => docker'[u] = docker[u]
  <2>1. docker[u] \in UnitRecord
    BY <1>1
  <2>2. [docker[u] EXCEPT !.svc = FALSE]
          = [svc |-> FALSE, task |-> docker[u].task, ctr |-> docker[u].ctr, exit |-> docker[u].exit]
    BY <2>1, UnitExcept
  <2>3. CASE u \in rs
    <3>1. docker'[u] = [svc |-> FALSE, task |-> docker[u].task, ctr |-> docker[u].ctr,
                        exit |-> docker[u].exit]
      BY <1>2, <2>2, <2>3
    <3>. QED
      BY <2>1, <2>3, <3>1 DEF UnitRecord
  <2>4. CASE u \notin rs
    BY <1>2, <2>1, <2>4
  <2>. QED
    BY <2>3, <2>4
<1>4. docker' \in [Units -> UnitRecord]
  BY <1>2, <1>3
<1>5. ASSUME NEW u \in Units
      PROVE  /\ docker'[u].svc => docker[u].svc
             /\ docker[u] = Gone => docker'[u] = Gone
  BY <1>3, GoneFacts
<1>. QED
  BY <1>3, <1>4, <1>5, RunFacts DEF Calm

LEMMA StillCalm ==
    ASSUME JInv, docker' = docker
    PROVE  \A rs : Calm(rs)
<1>1. docker \in [Units -> UnitRecord]
  BY DEF JInv, JTypeOK, UnitRecord
<1>. QED
  BY <1>1 DEF Calm

\* The rows of operations that were there stay as they are.
RowsStill ==
    /\ live' = live
    /\ count \in Nat /\ count' \in Nat /\ count <= count'
    /\ \A o \in Ops : o <= count => kind'[o] = kind[o] /\ (target[o] = o => target'[o] = o)

LEMMA CalmQuiet ==
    ASSUME NEW rs, Calm(rs), NEW u \in Units
    PROVE  /\ Quiet(u) => Quiet(u)'
           /\ ~docker[u].svc => ~docker'[u].svc
           /\ ~docker[u].svc /\ ~docker[u].task => ~docker'[u].task
BY DEF Calm, Quiet

LEMMA CalmFinished ==
    ASSUME NEW rs, Calm(rs), recorded \subseteq recorded', NEW o \in Ops, Finished(o)
    PROVE  Finished(o)'
<1>1. RunsOf(o) \subseteq Units
  BY RunFacts DEF RunsOf
<1>. QED
  BY <1>1 DEF Finished, Calm

LEMMA CalmChecked ==
    ASSUME NEW rs, Calm(rs)
    PROVE  /\ repair' = repair /\ repair \in Nat /\ Checked(repair) => Checked(repair)'
           /\ scan'.step = scan.step /\ scan.step \in Nat /\ Checked(scan.step) => Checked(scan.step)'
<1>1. \A r \in Runs : r \in Units
  BY RunFacts
<1>. QED
  BY <1>1, CalmQuiet DEF Checked, Quiet

(* Nothing of what Docker or clients do undoes what is known of the runs.    *)
LEMMA CalmWorld ==
    ASSUME JInv, NEW removed, Calm(removed), Safe(removed), RowsStill,
           recorded \subseteq recorded', \A r \in recorded' : r \in recorded \/ docker[r].exit = "ok",
           done \subseteq done', ended \subseteq ended',
           \A r \in done' : r \in done \/ (docker[r].svc /\ docker'[r].exit = "ok" /\ docker'[r].svc),
           \A o \in promoted' : kind'[o] = "deploy"
    PROVE  WorldInv'
<1>. SUFFICES ASSUME NEW r \in Runs
     PROVE  /\ docker'[r].exit # "none" => ~docker'[r].task /\ ~docker'[r].ctr
            /\ docker'[r].exit = "ok" => r \in done'
            /\ r \in recorded' => docker'[r].exit = "ok"
            /\ docker'[r] # Gone => \A k \in Jobs : k < r[1] => <<k, r[2]>> \in recorded'
            /\ live' /\ docker'[r] # Gone =>
                   kind'[r[2]] = "deploy" /\ target'[r[2]] = r[2] /\ r[2] <= count'
            /\ live' /\ r \in done' =>
                   \/ r[2] \in ended'
                   \/ r[2] # count'
                   \/ docker'[r].exit = "ok" /\ (r \in recorded' \/ docker'[r].svc)
            /\ live' /\ r \in done' => r[2] <= count'
            /\ ~live' => Quiet(r)'
            /\ r[1] \in Exclusive => Quiet(r)' \/ Quiet(App)'
  BY DEF WorldInv
<1>0. r \in Units /\ r[2] \in Ops /\ r[2] \in Nat /\ App \in Units
  BY RunFacts, MaxOpsAssumption DEF Ops
<1>1. /\ docker[r].exit # "none" => ~docker[r].task /\ ~docker[r].ctr
      /\ docker[r].exit = "ok" => r \in done
      /\ r \in recorded => docker[r].exit = "ok"
      /\ docker[r] # Gone => \A k \in Jobs : k < r[1] => <<k, r[2]>> \in recorded
      /\ live /\ docker[r] # Gone =>
             kind[r[2]] = "deploy" /\ target[r[2]] = r[2] /\ r[2] <= count
      /\ live /\ r \in done =>
             \/ r[2] \in ended
             \/ r[2] # count
             \/ docker[r].exit = "ok" /\ (r \in recorded \/ docker[r].svc)
      /\ live /\ r \in done => r[2] <= count
      /\ ~live => Quiet(r)
      /\ r[1] \in Exclusive => Quiet(r) \/ Quiet(App)
  BY DEF JInv, WorldInv
<1>2. /\ docker[r].exit # "none" =>
             /\ docker'[r].exit = docker[r].exit
             /\ docker'[r].task => docker[r].task
             /\ docker'[r].ctr => docker[r].ctr
      /\ docker'[r].exit # docker[r].exit =>
             /\ ~docker'[r].task /\ ~docker'[r].ctr
             /\ docker'[r].exit = "ok" => r \in done'
      /\ docker[r] = Gone => docker'[r] = Gone
      /\ docker[r].svc /\ r \notin removed => docker'[r].svc
  BY <1>0 DEF Calm
<1>3. (Quiet(r) => Quiet(r)') /\ (Quiet(App) => Quiet(App)')
  BY <1>0, CalmQuiet
<1>4. docker[r].svc => docker[r] # Gone
  BY GoneFacts
<1>5. /\ docker'[r].exit # "none" => ~docker'[r].task /\ ~docker'[r].ctr
      /\ docker'[r].exit = "ok" => r \in done'
      /\ r \in recorded' => docker'[r].exit = "ok"
      /\ docker'[r] # Gone => \A k \in Jobs : k < r[1] => <<k, r[2]>> \in recorded'
  BY <1>1, <1>2
<1>6. live' /\ docker'[r] # Gone =>
          kind'[r[2]] = "deploy" /\ target'[r[2]] = r[2] /\ r[2] <= count'
  BY <1>0, <1>1, <1>2 DEF RowsStill
<1>7. live' /\ r \in done' => r[2] <= count'
  BY <1>0, <1>1, <1>4 DEF RowsStill
<1>8. live' /\ r \in done' =>
          \/ r[2] \in ended'
          \/ r[2] # count'
          \/ docker'[r].exit = "ok" /\ (r \in recorded' \/ docker'[r].svc)
  BY <1>0, <1>1, <1>2 DEF RowsStill, Safe
<1>9. (~live' => Quiet(r)') /\ (r[1] \in Exclusive => Quiet(r)' \/ Quiet(App)')
  BY <1>1, <1>3 DEF RowsStill
<1>. QED
  BY <1>5, <1>6, <1>7, <1>8, <1>9

(* Nor does it undo what the scan or a repair has established.               *)
LEMMA StageStill ==
    ASSUME JInv, NEW removed, Calm(removed), RowsStill,
           UNCHANGED <<scan, repair, daemon, recorded, promoted, cleanup>>,
           done \subseteq done', \A r \in done' : r \in done \/ docker[r].svc,
           ended \subseteq ended',
           \A o \in Ops : o <= count => target'[o] = target[o],
           state[count] = "running" /\ kind[count] = "deploy" /\ count' = count
             => state'[count] = "running"
    PROVE  ScanInv' /\ JobInv' /\ CleanupInv' /\ StoppedInv' /\ LockInv'
<1>0. /\ scan' = scan /\ repair' = repair /\ daemon' = daemon /\ recorded' = recorded
      /\ promoted' = promoted /\ cleanup' = cleanup
  OBVIOUS
<1>1. /\ WithJob' <=> WithJob
      /\ AfterJob' <=> AfterJob
      /\ CleaningUp' <=> CleaningUp
      /\ JobFailed' <=> JobFailed
      /\ Run' = Run /\ ToCleanUp' = ToCleanUp
  BY <1>0 DEF WithJob, AfterJob, CleaningUp, JobFailed, Run, ToCleanUp
<1>2. ScanInv'
  BY <1>0, MaxOpsAssumption DEF JInv, ScanInv, RowsStill, Ops, CheckStart
<1>3. scan.pc # "idle" => /\ live /\ scan.op \in Ops /\ scan.op \in Nat /\ scan.op <= count
                          /\ kind'[scan.op] = kind[scan.op] /\ target'[scan.op] = target[scan.op]
                          /\ (scan.op = count' => scan.op = count /\ count' = count)
  BY MaxOpsAssumption DEF JInv, ScanInv, RowsStill, Ops
<1>4. scan.pc # "idle" => Stale(scan.op)' = Stale(scan.op)
  BY <1>0, <1>3 DEF Stale, PendingJobs
<1>5. \A o \in Ops : Finished(o) => Finished(o)'
  BY <1>0, CalmFinished
<1>6. \A r \in Runs : /\ Quiet(r) => Quiet(r)'
                      /\ ~docker[r].svc => ~docker'[r].svc
                      /\ ~docker[r].svc /\ ~docker[r].task => ~docker'[r].task
                      /\ docker[r].exit = "ok" => docker'[r].exit = "ok"
  BY CalmQuiet, RunFacts DEF Calm
<1>7. JobInv'
  <2>1. WithJob \/ AfterJob \/ JobFailed \/ scan.pc \in {"stale", "staleStopped", "next", "record", "request"}
          => scan.pc # "idle"
    BY DEF WithJob, AfterJob, CleaningUp, JobFailed
  <2>2. WithJob => Run \in Runs
    BY <1>3, <2>1, RunFacts DEF JInv, JobInv, Run
  <2>3. /\ WithJob => /\ scan.job \in Jobs /\ Run \notin recorded
                      /\ \A k \in Jobs : k < scan.job => <<k, scan.op>> \in recorded
                      /\ kind'[scan.op] = "deploy" /\ target'[scan.op] = scan.op
        /\ AfterJob \/ scan.pc = "ensuring" => kind'[scan.op] = "deploy"
        /\ scan.result = "job" => scan.op \in ended'
    BY <1>3, <2>1 DEF JInv, JobInv
  <2>4. scan.pc = "record" =>
            /\ scan.result \in {"ok", "job", "yield", "retryable"}
            /\ scan.result = "ok" => docker'[Run].exit = "ok"
    BY <1>6, <2>2 DEF JInv, JobInv, WithJob
  <2>5. scan.pc = "request" =>
            /\ scan.result \in {"ok", "job", "yield"}
            /\ scan.result = "ok" => Finished(scan.op)'
            /\ scan.result = "yield" => scan.op # count'
    <3>1. scan.op \in Ops => (Finished(scan.op) => Finished(scan.op)')
      BY <1>5
    <3>. QED
      BY <1>3, <3>1 DEF JInv, JobInv
  <2>6. /\ \/ scan.pc \in {"stale", "staleStopped", "next"}
           \/ WithJob /\ ~JobFailed
           \/ AfterJob /\ scan.result = "ok"
        /\ kind'[scan.op] = "deploy" /\ scan.op = count'
        => state'[count'] = "running"
    BY <1>3, <2>1 DEF JInv, JobInv
  <2>. QED
    BY <1>0, <1>1, <2>3, <2>4, <2>5, <2>6 DEF JobInv, Finished
<1>8. CleanupInv'
  <2>1. ASSUME live, NEW o \in ToCleanUp
        PROVE  o <= count' /\ (o \in ended' \/ o # count' \/ Finished(o)')
    <3>1. ToCleanUp \subseteq Ops
      BY DEF ToCleanUp, JInv, JTypeOK, StoreInv, TypeOK
    <3>2. o \in Ops /\ o \in Nat /\ o <= count /\ (o \in ended \/ o # count \/ Finished(o))
      BY <2>1, <3>1, MaxOpsAssumption DEF JInv, CleanupInv, LosesNothing, Ops
    <3>. QED
      BY <1>5, <3>2 DEF RowsStill
  <2>. QED
    BY <1>0, <1>1, <2>1 DEF JInv, CleanupInv, LosesNothing, RowsStill
<1>9. StoppedInv'
  <2>1. \A r \in Stale(scan.op) : r \in Runs
    BY DEF Stale
  <2>2. WithJob \/ AfterJob \/ scan.pc \in {"stale", "staleStopped", "next", "rollout", "settle"}
          => scan.pc # "idle"
    BY DEF WithJob, AfterJob, CleaningUp
  <2>3. /\ scan.pc \in {"stale", "staleStopped"} => \A r \in Stale(scan.op)' : ~docker'[r].svc
        /\ scan.pc = "staleStopped" => \A r \in Stale(scan.op)' : ~docker'[r].task
    BY <1>4, <1>6, <2>1 DEF JInv, StoppedInv
  <2>4. scan.pc = "next" \/ WithJob \/ AfterJob =>
            \A r \in Runs : r[2] # scan.op => Quiet(r)'
    BY <1>6 DEF JInv, StoppedInv
  <2>5. /\ scan.pc \in {"next", "rollout"} \/ (scan.pc = "settle" /\ scan.result = "ok")
        /\ kind'[scan.op] = "delete"
        => \A r \in Runs : Quiet(r)'
    BY <1>3, <1>6, <2>2 DEF JInv, StoppedInv
  <2>. QED
    BY <1>0, <1>1, <2>3, <2>4, <2>5 DEF StoppedInv, Stale, PendingJobs
<1>10. LockInv'
  <2>1. App \in Units /\ \A o \in Ops : scan.pc = "starting" => <<scan.job, o>> \in Runs
    BY RunFacts DEF JInv, JobInv, WithJob
  <2>2. /\ ~docker[App].svc => ~docker'[App].svc
        /\ ~docker[App].svc /\ ~docker[App].task => ~docker'[App].task
        /\ Quiet(App) => Quiet(App)'
    BY <2>1, CalmQuiet
  <2>3. scan.pc = "starting" =>
           /\ Run \notin done' \/ scan.op \in ended'
           /\ \A o \in Ops :
                  /\ ~docker'[<<scan.job, o>>].svc
                  /\ scan.step > 1 => ~docker'[<<scan.job, o>>].task
                  /\ scan.step > 2 => ~docker'[<<scan.job, o>>].ctr
    <3>1. SUFFICES ASSUME scan.pc = "starting"
          PROVE  /\ Run \notin done' \/ scan.op \in ended'
                 /\ \A o \in Ops :
                        /\ ~docker'[<<scan.job, o>>].svc
                        /\ scan.step > 1 => ~docker'[<<scan.job, o>>].task
                        /\ scan.step > 2 => ~docker'[<<scan.job, o>>].ctr
      OBVIOUS
    <3>2. scan.step \in Nat
      <4>1. Len(CheckStart(scan.job)) \in Nat
        BY DEF CheckStart
      <4>. QED
        BY <3>1, <4>1 DEF JInv, ScanInv
    <3>3. Run \notin done' \/ scan.op \in ended'
      <4>1. ~docker[Run].svc
        BY <1>3, <3>1 DEF JInv, LockInv, Run
      <4>. QED
        BY <3>1, <4>1 DEF JInv, LockInv
    <3>4. ASSUME NEW o \in Ops
          PROVE  /\ ~docker'[<<scan.job, o>>].svc
                 /\ scan.step > 1 => ~docker'[<<scan.job, o>>].task
                 /\ scan.step > 2 => ~docker'[<<scan.job, o>>].ctr
      <4>. DEFINE r == <<scan.job, o>>
      <4>1. r \in Runs
        BY <2>1, <3>1
      <4>2. /\ ~docker[r].svc
            /\ scan.step > 1 => ~docker[r].task
            /\ scan.step > 2 => ~docker[r].ctr
        BY <3>1 DEF JInv, LockInv
      <4>. HIDE DEF r
      <4>3. /\ ~docker'[r].svc
            /\ scan.step > 1 => ~docker'[r].task
            /\ scan.step > 2 => ~docker'[r].ctr
        BY <1>6, <3>2, <4>1, <4>2 DEF Quiet
      <4>. QED
        BY <4>3 DEF r
    <3>. QED
      BY <3>3, <3>4
  <2>4. scan.pc = "starting" =>
           /\ scan.step > 3 => ~docker'[App].svc
           /\ scan.step > 4 => ~docker'[App].task
           /\ scan.step > 5 => ~docker'[App].ctr
    <3>1. scan.pc = "starting" => scan.step \in Nat
      <4>1. Len(CheckStart(scan.job)) \in Nat
        BY DEF CheckStart
      <4>. QED
        BY <4>1 DEF JInv, ScanInv
    <3>. QED
      BY <2>2, <3>1 DEF JInv, LockInv, Quiet
  <2>5. (scan.pc = "ensuring" => Checked(scan.step)') /\ Checked(repair)'
    <3>1. repair \in Nat /\ (scan.pc = "ensuring" => scan.step \in Nat)
      BY DEF JInv, JTypeOK, ScanInv
    <3>2. (scan.pc = "ensuring" => Checked(scan.step)) /\ Checked(repair)
      BY DEF JInv, LockInv
    <3>3. (Checked(repair) => Checked(repair)') /\ (Checked(scan.step) /\ scan.step \in Nat => Checked(scan.step)')
      BY <1>0, <3>1, CalmChecked
    <3>. QED
      BY <3>1, <3>2, <3>3
  <2>. QED
    BY <1>0, <1>1, <2>3, <2>4, <2>5 DEF LockInv
<1>. QED
  BY <1>2, <1>7, <1>8, <1>9, <1>10

-----------------------------------------------------------------------------
(* The rows of the store *)

Kept ==
    /\ live' = live /\ count' = count /\ kind' = kind /\ target' = target
    /\ promoted' = promoted /\ cleanup' = cleanup /\ state' = state

LEMMA KeptRows ==
    ASSUME StoreInv, UNCHANGED storeVars
    PROVE  StoreInv' /\ Kept /\ RowsStill
<1>1. StoreInv'
  BY StepInv
<1>2. Kept
  BY Zenon DEF storeVars, envVars, execVars, rowVars, historyVars, Kept
<1>3. count \in Nat
  BY MaxOpsAssumption DEF StoreInv, TypeOK, Targets
<1>. QED
  BY <1>1, <1>2, <1>3 DEF Kept, RowsStill

(* The cleanup intent is no other row's concern. *)
LEMMA CleanupRows ==
    ASSUME StoreInv, NEW o \in Ops, RequestJobCleanup(o) \/ FinishJobCleanup(o)
    PROVE  /\ StoreInv' /\ RowsStill
           /\ live' = live /\ count' = count /\ kind' = kind /\ target' = target
           /\ promoted' = promoted /\ state' = state
           /\ RequestJobCleanup(o) => cleanup' = cleanup \cup {o}
           /\ FinishJobCleanup(o) => cleanup' = cleanup \ {o}
<1>1. /\ live' = live /\ deleteIntent' = deleteIntent /\ stopped' = stopped
      /\ resolved' = resolved /\ state' = state /\ error' = error /\ attempt' = attempt
      /\ count' = count /\ kind' = kind /\ target' = target
      /\ promoted' = promoted /\ rolledBack' = rolledBack
      /\ succeededAt' = succeededAt /\ outcome' = outcome
      /\ RequestJobCleanup(o) => cleanup' = cleanup \cup {o}
      /\ FinishJobCleanup(o) => cleanup' = cleanup \ {o}
  BY Zenon DEF RequestJobCleanup, FinishJobCleanup, envVars, rowVars, historyVars
<1>2. cleanup' \in SUBSET Ops
  BY <1>1 DEF StoreInv, TypeOK
<1>3. StoreInv'
  <2>1. TypeOK'
    BY <1>1, <1>2 DEF StoreInv, TypeOK
  <2>. QED
    BY <1>1, <2>1 DEF StoreInv, RowsEndAtCount, FutureAttemptsBlank,
       NewestIntentWins, ActiveTargetIsLastPublished, RestoresOnlySucceededTargets,
       RolledBackOnce, DeletionIsTheLastIntent, OutcomeAgreesWithState, Restorable
<1>4. count \in Nat
  BY MaxOpsAssumption DEF StoreInv, TypeOK, Targets
<1>. QED
  BY <1>1, <1>3, <1>4 DEF RowsStill

(* A transition of an operation, an error of it, and recovery.               *)
LEMMA StateRows ==
    ASSUME StoreInv, NEW o \in Ops, NEW code,
           \/ \E from, to : TransitionOperation(o, from, to, code)
           \/ RecordOperationError(o, code)
           \/ RequestReconcile(o)
           \/ RecoverInterrupted
    PROVE  /\ RowsStill
           /\ live' = live /\ count' = count /\ kind' = kind /\ target' = target
           /\ promoted' = promoted
           /\ cleanup' \in {cleanup, cleanup \cup {o}}
           /\ code # "job" => cleanup' = cleanup
<1>1. /\ live' = live /\ count' = count /\ kind' = kind /\ target' = target
      /\ promoted' = promoted
      /\ cleanup' = cleanup \/ (code = "job" /\ cleanup' = cleanup \cup {o})
  <2>1. CASE \E from, to : TransitionOperation(o, from, to, code)
    <3>1. PICK from, to : TransitionOperation(o, from, to, code)
      BY <2>1
    <3>. QED
      BY <3>1, Zenon DEF TransitionOperation, envVars, rowVars
  <2>2. CASE RecordOperationError(o, code)
    BY <2>2, Zenon DEF RecordOperationError, envVars, rowVars
  <2>3. CASE RequestReconcile(o)
    BY <2>3, Zenon DEF RequestReconcile, RetryOperation, envVars, rowVars
  <2>4. CASE RecoverInterrupted
    BY <2>4, Zenon DEF RecoverInterrupted, envVars, rowVars
  <2>. QED
    BY <2>1, <2>2, <2>3, <2>4
<1>2. count \in Nat
  BY MaxOpsAssumption DEF StoreInv, TypeOK, Targets
<1>. QED
  BY <1>1, <1>2 DEF RowsStill

(* A request of a client changes no row of a deployment that runs, except to *)
(* supersede it.                                                             *)
LEMMA ClientRows ==
    ASSUME StoreInv, RequestDeploy \/ RequestDelete \/ StartEnvironment
                       \/ \E d \in Ops : RequestRestore(d)
    PROVE  /\ StoreInv' /\ RowsStill
           /\ promoted' = promoted /\ cleanup' = cleanup
           /\ \A o \in Ops : o <= count => target'[o] = target[o]
           /\ state[count] = "running" /\ kind[count] = "deploy" /\ count' = count
                => state'[count] = "running"
<1>1. StoreInv'
  BY StepInv DEF StoreNext, Request
<1>2. /\ count \in Nat /\ count \in Targets
      /\ kind \in [Ops -> Kinds] /\ target \in [Ops -> Targets]
      /\ \A o \in Ops : o <= count => o # count + 1
      /\ MaxOps \in Nat
  BY MaxOpsAssumption DEF StoreInv, TypeOK, Targets, Ops
<1>3. CASE StartEnvironment
  <2>1. /\ live' = live /\ promoted' = promoted /\ cleanup' = cleanup
        /\ count' = count /\ kind' = kind /\ target' = target
    BY <1>3, Zenon DEF StartEnvironment, rowVars
  <2>2. count > 0 /\ count \in Ops
    BY <1>2, <1>3 DEF StartEnvironment, Targets, Ops
  <2>3. state[count] = "running" /\ kind[count] = "deploy" => ~Retriable(count)
    BY <2>2 DEF StoreInv, TypeOK, Retriable
  <2>4. ~Retriable(count) => state' = state
    BY <1>3 DEF StartEnvironment
  <2>. QED
    BY <1>1, <1>2, <2>1, <2>3, <2>4 DEF RowsStill
<1>4. CASE RequestDeploy \/ RequestDelete \/ \E d \in Ops : RequestRestore(d)
  <2>1. /\ live' = live /\ promoted' = promoted /\ cleanup' = cleanup
        /\ \E k : count' = count + 1 /\ kind' = [kind EXCEPT ![count + 1] = k]
        /\ \/ target' = target
           \/ \E t : target' = [target EXCEPT ![count + 1] = t]
    <3>1. CASE RequestDeploy \/ RequestDelete
      BY <3>1, Zenon DEF RequestDeploy, RequestDelete, StartOperation
    <3>2. CASE \E d \in Ops : RequestRestore(d)
      BY <3>2, Zenon DEF RequestRestore, AcceptRestore, StartOperation
    <3>. QED
      BY <1>4, <3>1, <3>2
  <2>. QED
    BY <1>1, <1>2, <2>1 DEF RowsStill
<1>. QED
  BY <1>3, <1>4

-----------------------------------------------------------------------------
(* Swarm, clients and somebody who removes a run *)

ScanRecord ==
    [pc : ScanPc, op : Targets, job : 0 .. MaxJobs,
     cancelled : BOOLEAN, back : {"scan", "job", "after"},
     pending : SUBSET Ops, step : (0 .. 6) \cup Ops,
     result : {"ok", "yield"} \cup Errors]

LEMMA CalmType ==
    ASSUME JInv, NEW rs, Calm(rs), daemon' \in {"starting", "up"}, scan' \in ScanRecord,
           repair' \in 0 .. 4, recorded' \in SUBSET done', done' \in SUBSET Runs,
           ended' \in SUBSET Ops, budget' \in 0 .. Disturbances
    PROVE  JTypeOK'
<1>1. docker' \in [Units -> UnitRecord]
  BY DEF Calm
<1>2. \A r, q \in Runs : docker'[r].svc /\ docker'[q].svc /\ r[1] = q[1] => r = q
  BY RunFacts DEF JInv, JTypeOK, Calm
<1>. HIDE DEF ScanRecord
<1>. QED
  BY <1>1, <1>2, Zenon DEF JTypeOK, ScanRecord, UnitRecord

LEMMA DisturbType ==
    ASSUME JInv, Disturb \/ UNCHANGED budget
    PROVE  budget' \in 0 .. Disturbances
BY JobDisturbancesAssumption DEF JInv, JTypeOK, Disturb

LEMMA OneUnit ==
    ASSUME JInv, NEW u \in Units, NEW v \in UnitRecord, docker' = [docker EXCEPT ![u] = v]
    PROVE  /\ docker' \in [Units -> UnitRecord] /\ docker'[u] = v
           /\ docker[u] \in UnitRecord
           /\ \A w \in Units : w # u => docker'[w] = docker[w]
BY DEF JInv, JTypeOK, UnitRecord

LEMMA StoppedUnit ==
    ASSUME NEW v \in UnitRecord, NEW a, NEW b
    PROVE  [v EXCEPT !.ctr = a, !.task = b]
             = [svc |-> v.svc, task |-> b, ctr |-> a, exit |-> v.exit]
<1>. DEFINE w == [svc |-> v.svc, task |-> v.task, ctr |-> a, exit |-> v.exit]
            x == [svc |-> v.svc, task |-> b, ctr |-> a, exit |-> v.exit]
<1>1. [v EXCEPT !.ctr = a, !.task = b] = [[v EXCEPT !.ctr = a] EXCEPT !.task = b]
  OBVIOUS
<1>2. [v EXCEPT !.ctr = a] = w
  BY UnitExcept
<1>3. [w EXCEPT !.task = b] = x
  OBVIOUS
<1>. HIDE DEF w, x
<1>4. [v EXCEPT !.ctr = a, !.task = b] = x
  BY <1>1, <1>2, <1>3, Zenon
<1>. QED
  BY <1>4, Zenon DEF x

\* A change of one unit that is calm at it.
CalmUnit(u, v) ==
    /\ v.svc = docker[u].svc
    /\ v.task => docker[u].task \/ docker[u].svc
    /\ v.ctr => docker[u].ctr \/ docker[u].task
    /\ docker[u] # Gone
    /\ u \in Runs /\ docker[u].exit # "none" =>
           /\ v.exit = docker[u].exit
           /\ v.task => docker[u].task
           /\ v.ctr => docker[u].ctr
    /\ u \in Runs /\ v.exit # docker[u].exit =>
           /\ ~v.task /\ ~v.ctr
           /\ v.exit = "ok" => u \in done'

LEMMA UnitCalm ==
    ASSUME JInv, NEW u \in Units, NEW v \in UnitRecord, docker' = [docker EXCEPT ![u] = v],
           CalmUnit(u, v)
    PROVE  Calm({})
<1>1. /\ docker' \in [Units -> UnitRecord] /\ docker'[u] = v
      /\ \A w \in Units : w # u => docker'[w] = docker[w]
  BY OneUnit
<1>. QED
  BY <1>1, RunFacts DEF Calm, CalmUnit

LEMMA SwarmCalm ==
    ASSUME JInv, NEW u \in Units, SwarmStep(u)
    PROVE  Calm({})
<1>. DEFINE d == docker[u]
<1>1. d \in UnitRecord /\ docker \in [Units -> UnitRecord]
  BY DEF JInv, JTypeOK, UnitRecord
<1>2. /\ d.svc \in BOOLEAN /\ d.task \in BOOLEAN /\ d.ctr \in BOOLEAN
      /\ d.exit \in {"none", "ok", "failed"}
  BY <1>1, UnitEta
<1>3. d.svc \/ d.task \/ d.ctr => d # Gone
  BY GoneFacts
<1>4. u \in Runs /\ d.exit # "none" => ~d.task /\ ~d.ctr
  BY DEF JInv, WorldInv
<1>5. CASE Schedule(u)
  <2>. DEFINE v == [svc |-> d.svc, task |-> TRUE, ctr |-> d.ctr, exit |-> d.exit]
  <2>1. v = [d EXCEPT !.task = TRUE]
    BY <1>1, UnitExcept
  <2>2. docker' = [docker EXCEPT ![u] = v]
    BY <1>5, <2>1, Zenon DEF Schedule
  <2>3. d.svc /\ (u # App => d.exit = "none" /\ ~d.ctr)
    BY <1>5 DEF Schedule
  <2>4. v \in UnitRecord
    BY <1>2 DEF UnitRecord
  <2>5. CalmUnit(u, v)
    BY <1>2, <1>3, <2>3, RunFacts DEF CalmUnit
  <2>. HIDE DEF v
  <2>. QED
    BY <2>2, <2>4, <2>5, UnitCalm
<1>6. CASE StartContainer(u)
  <2>. DEFINE v == [svc |-> d.svc, task |-> d.task, ctr |-> TRUE, exit |-> d.exit]
  <2>1. v = [d EXCEPT !.ctr = TRUE]
    BY <1>1, UnitExcept
  <2>2. docker' = [docker EXCEPT ![u] = v]
    BY <1>6, <2>1, Zenon DEF StartContainer
  <2>3. d.task /\ d.exit = "none"
    BY <1>6 DEF StartContainer
  <2>4. v \in UnitRecord
    BY <1>2 DEF UnitRecord
  <2>5. CalmUnit(u, v)
    BY <1>2, <1>3, <2>3, RunFacts DEF CalmUnit
  <2>. HIDE DEF v
  <2>. QED
    BY <2>2, <2>4, <2>5, UnitCalm
<1>7. CASE Reap(u)
  <2>. DEFINE v == [svc |-> d.svc, task |-> FALSE, ctr |-> d.ctr, exit |-> d.exit]
  <2>1. v = [d EXCEPT !.task = FALSE]
    BY <1>1, UnitExcept
  <2>2. docker' = [docker EXCEPT ![u] = v]
    BY <1>7, <2>1, Zenon DEF Reap
  <2>3. d.task
    BY <1>7 DEF Reap
  <2>4. v \in UnitRecord
    BY <1>2 DEF UnitRecord
  <2>5. CalmUnit(u, v)
    BY <1>2, <1>3, <2>3, RunFacts DEF CalmUnit
  <2>. HIDE DEF v
  <2>. QED
    BY <2>2, <2>4, <2>5, UnitCalm
<1>8. CASE Stop(u)
  <2>. DEFINE v == [svc |-> d.svc, task |-> FALSE, ctr |-> FALSE, exit |-> d.exit]
  <2>1. v = [d EXCEPT !.ctr = FALSE, !.task = FALSE]
    BY <1>1, StoppedUnit
  <2>2. docker' = [docker EXCEPT ![u] = v]
    BY <1>8, <2>1, Zenon DEF Stop
  <2>3. d.ctr
    BY <1>8 DEF Stop
  <2>4. v \in UnitRecord
    BY <1>2 DEF UnitRecord
  <2>5. CalmUnit(u, v)
    BY <1>2, <1>3, <2>3, RunFacts DEF CalmUnit
  <2>. HIDE DEF v
  <2>. QED
    BY <2>2, <2>4, <2>5, UnitCalm
<1>. QED
  BY <1>5, <1>6, <1>7, <1>8 DEF SwarmStep

LEMMA ExitCalm ==
    ASSUME JInv, NEW r \in Runs, NEW code \in {"ok", "failed"}, Exit(r, code)
    PROVE  /\ Calm({}) /\ docker[r].svc /\ docker'[r].svc /\ docker'[r].exit = code
           /\ done' = IF code = "ok" THEN done \cup {r} ELSE done
<1>. DEFINE d == docker[r]
            x == [d EXCEPT !.ctr = FALSE, !.task = FALSE]
            v == [svc |-> x.svc, task |-> x.task, ctr |-> x.ctr, exit |-> code]
<1>1. d \in UnitRecord /\ docker \in [Units -> UnitRecord] /\ r \in Units
  BY RunFacts DEF JInv, JTypeOK, UnitRecord
<1>2. x = [svc |-> d.svc, task |-> FALSE, ctr |-> FALSE, exit |-> d.exit]
  BY <1>1, StoppedUnit
<1>3. d.svc /\ d.ctr /\ done' = IF code = "ok" THEN done \cup {r} ELSE done
  BY DEF Exit
<1>4. x \in UnitRecord /\ x.svc = d.svc /\ ~x.task /\ ~x.ctr
  <2>. HIDE DEF x
  <2>. QED
    BY <1>1, <1>2 DEF UnitRecord
<1>5. docker' = [docker EXCEPT ![r] = v]
  <2>1. [d EXCEPT !.ctr = FALSE, !.task = FALSE, !.exit = code] = [x EXCEPT !.exit = code]
    OBVIOUS
  <2>. HIDE DEF x
  <2>2. [x EXCEPT !.exit = code] = v
    BY <1>4, UnitExcept
  <2>. HIDE DEF v
  <2>. QED
    BY <2>1, <2>2, Zenon DEF Exit
<1>. HIDE DEF x
<1>6. /\ v \in UnitRecord /\ v.svc = d.svc /\ v.exit = code
      /\ ~v.task /\ ~v.ctr
  BY <1>4, UnitEta DEF UnitRecord
<1>. HIDE DEF v
<1>7. d.exit = "none"
  BY <1>3 DEF JInv, WorldInv
<1>8. CalmUnit(r, v)
  BY <1>3, <1>7, <1>6, GoneFacts DEF CalmUnit
<1>9. Calm({}) /\ docker'[r] = v
  BY <1>1, <1>8, <1>5, <1>6, UnitCalm, OneUnit
<1>. QED
  BY <1>3, <1>9, <1>6

LEMMA ScanTyped ==
    ASSUME JInv
    PROVE  /\ scan \in ScanRecord /\ daemon \in {"starting", "up"} /\ repair \in 0 .. 4
           /\ recorded \in SUBSET done /\ done \in SUBSET Runs /\ ended \in SUBSET Ops
           /\ budget \in 0 .. Disturbances /\ \A o \in promoted : kind[o] = "deploy"
           /\ StoreInv
<1>. HIDE DEF ScanPc
<1>. QED
  BY Zenon DEF JInv, JTypeOK, WorldInv, ScanRecord

LEMMA PromotedRows ==
    ASSUME JInv
    PROVE  \A o \in promoted : o \in Ops /\ o <= count
BY MaxOpsAssumption DEF JInv, StoreInv, TypeOK, RowsEndAtCount, Targets, Ops

(* A step of Swarm.                                                          *)
LEMMA SwarmInv ==
    ASSUME JInv, NEW u \in Units, SwarmStep(u)
    PROVE  JInv'
<1>1. Calm({})
  BY SwarmCalm
<1>2. /\ UNCHANGED storeVars
      /\ daemon' = daemon /\ scan' = scan /\ repair' = repair /\ recorded' = recorded
      /\ done' = done /\ ended' = ended /\ budget' = budget
  BY Zenon DEF SwarmStep, Schedule, StartContainer, Reap, Stop
<1>3. StoreInv' /\ Kept /\ RowsStill
  BY <1>2, ScanTyped, KeptRows
<1>4. JTypeOK'
  BY <1>1, <1>2, ScanTyped, CalmType
<1>5. WorldInv'
  <2>1. Safe({})
    BY DEF Safe
  <2>2. \A o \in promoted' : kind'[o] = "deploy"
    BY <1>3, ScanTyped DEF Kept
  <2>. QED
    BY <1>1, <1>2, <1>3, <2>1, <2>2, CalmWorld
<1>6. ScanInv' /\ JobInv' /\ CleanupInv' /\ StoppedInv' /\ LockInv'
  BY <1>1, <1>2, <1>3, StageStill DEF Kept
<1>. QED
  BY <1>3, <1>4, <1>5, <1>6 DEF JInv

(* A run exits.                                                              *)
LEMMA ExitInv ==
    ASSUME JInv, NEW r \in Runs, NEW code \in {"ok", "failed"}, Exit(r, code)
    PROVE  JInv'
<1>1. /\ Calm({}) /\ docker[r].svc /\ docker'[r].svc /\ docker'[r].exit = code
      /\ done' = IF code = "ok" THEN done \cup {r} ELSE done
  BY ExitCalm
<1>2. /\ UNCHANGED storeVars
      /\ daemon' = daemon /\ scan' = scan /\ repair' = repair /\ recorded' = recorded
      /\ ended' = ended
  BY Zenon DEF Exit
<1>3. StoreInv' /\ Kept /\ RowsStill
  BY <1>2, ScanTyped, KeptRows
<1>4. JTypeOK'
  <2>1. budget' \in 0 .. Disturbances
    BY DisturbType DEF Exit
  <2>2. done' \in SUBSET Runs /\ recorded' \in SUBSET done'
    BY <1>1, <1>2, ScanTyped
  <2>. QED
    BY <1>1, <1>2, <2>1, <2>2, ScanTyped, CalmType
<1>5. WorldInv'
  <2>1. Safe({})
    BY DEF Safe
  <2>2. \A o \in promoted' : kind'[o] = "deploy"
    BY <1>3, ScanTyped DEF Kept
  <2>. QED
    BY <1>1, <1>2, <1>3, <2>1, <2>2, CalmWorld
<1>6. ScanInv' /\ JobInv' /\ CleanupInv' /\ StoppedInv' /\ LockInv'
  BY <1>1, <1>2, <1>3, StageStill DEF Kept
<1>. QED
  BY <1>3, <1>4, <1>5, <1>6 DEF JInv

(* Somebody removes the service of a run.                                    *)
LEMMA VanishInv ==
    ASSUME JInv, NEW r \in Runs, RunVanishes(r)
    PROVE  JInv'
<1>1. Calm({r})
  BY WithoutCalm DEF RunVanishes
<1>2. /\ UNCHANGED storeVars
      /\ daemon' = daemon /\ scan' = scan /\ repair' = repair /\ recorded' = recorded
      /\ done' = done /\ ended' = ended \cup {r[2]} /\ Disturb
  BY Zenon DEF RunVanishes
<1>3. StoreInv' /\ Kept /\ RowsStill
  BY <1>2, ScanTyped, KeptRows
<1>4. JTypeOK'
  <2>1. budget' \in 0 .. Disturbances
    BY <1>2, DisturbType
  <2>2. ended' \in SUBSET Ops
    BY <1>2, RunFacts, ScanTyped
  <2>. QED
    BY <1>1, <1>2, <2>1, <2>2, ScanTyped, CalmType
<1>5. WorldInv'
  <2>1. Safe({r})
    BY <1>2 DEF Safe
  <2>2. \A o \in promoted' : kind'[o] = "deploy"
    BY <1>3, ScanTyped DEF Kept
  <2>. QED
    BY <1>1, <1>2, <1>3, <2>1, <2>2, CalmWorld
<1>6. ScanInv' /\ JobInv' /\ CleanupInv' /\ StoppedInv' /\ LockInv'
  BY <1>1, <1>2, <1>3, StageStill DEF Kept
<1>. QED
  BY <1>3, <1>4, <1>5, <1>6 DEF JInv

(* A client's request.                                                       *)
LEMMA ClientInv ==
    ASSUME JInv, ClientRequest
    PROVE  JInv'
<1>1. /\ daemon' = daemon /\ scan' = scan /\ repair' = repair /\ docker' = docker
      /\ recorded' = recorded /\ done' = done /\ ended' = ended /\ budget' = budget
  BY Zenon DEF ClientRequest, jobVars
<1>2. Calm({})
  BY <1>1, StillCalm
<1>3. /\ StoreInv' /\ RowsStill
      /\ promoted' = promoted /\ cleanup' = cleanup
      /\ \A o \in Ops : o <= count => target'[o] = target[o]
      /\ state[count] = "running" /\ kind[count] = "deploy" /\ count' = count
           => state'[count] = "running"
  BY ScanTyped, ClientRows DEF ClientRequest
<1>4. JTypeOK'
  BY <1>1, <1>2, ScanTyped, CalmType
<1>5. WorldInv'
  <2>1. Safe({})
    BY DEF Safe
  <2>2. \A o \in promoted' : kind'[o] = "deploy"
    BY <1>3, ScanTyped, PromotedRows DEF RowsStill
  <2>. QED
    BY <1>1, <1>2, <1>3, <2>1, <2>2, CalmWorld
<1>6. ScanInv' /\ JobInv' /\ CleanupInv' /\ StoppedInv' /\ LockInv'
  BY <1>1, <1>2, <1>3, StageStill
<1>. QED
  BY <1>3, <1>4, <1>5, <1>6 DEF JInv

-----------------------------------------------------------------------------
(* Where the scan goes *)

At(l, j, c, b, p, s, res) ==
    /\ scan' \in ScanRecord
    /\ scan'.pc = l /\ scan'.op = scan.op /\ scan'.job = j /\ scan'.cancelled = c
    /\ scan'.back = b /\ scan'.pending = p /\ scan'.step = s /\ scan'.result = res

LEMMA GoToAt ==
    ASSUME JInv, NEW l \in ScanPc, GoTo(l)
    PROVE  At(l, scan.job, scan.cancelled, scan.back, scan.pending, scan.step, scan.result)
<1>1. scan \in ScanRecord /\ scan' = [scan EXCEPT !.pc = l]
  BY ScanTyped DEF GoTo
<1>. HIDE DEF ScanPc
<1>. QED
  BY <1>1 DEF At, ScanRecord

LEMMA EndWithAt ==
    ASSUME JInv, NEW res \in {"ok", "yield"} \cup Errors, EndWith(res)
    PROVE  At("settle", scan.job, scan.cancelled, scan.back, scan.pending, scan.step, res)
<1>1. scan \in ScanRecord /\ scan' = [scan EXCEPT !.pc = "settle", !.result = res]
  BY ScanTyped DEF EndWith
<1>2. "settle" \in ScanPc
  BY DEF ScanPc
<1>. HIDE DEF ScanPc
<1>. QED
  BY <1>1, <1>2 DEF At, ScanRecord

LEMMA ResultAt ==
    ASSUME JInv, NEW l \in ScanPc, NEW res \in {"ok", "yield"} \cup Errors,
           scan' = [scan EXCEPT !.pc = l, !.result = res]
    PROVE  At(l, scan.job, scan.cancelled, scan.back, scan.pending, scan.step, res)
<1>1. scan \in ScanRecord
  BY ScanTyped
<1>. HIDE DEF ScanPc
<1>. QED
  BY <1>1 DEF At, ScanRecord

LEMMA StepAt ==
    ASSUME JInv, NEW l \in ScanPc, NEW s \in (0 .. 6) \cup Ops,
           scan' = [scan EXCEPT !.pc = l, !.step = s]
    PROVE  At(l, scan.job, scan.cancelled, scan.back, scan.pending, s, scan.result)
<1>1. scan \in ScanRecord
  BY ScanTyped
<1>. HIDE DEF ScanPc, Ops
<1>. QED
  BY <1>1 DEF At, ScanRecord

LEMMA FailAt ==
    ASSUME JInv, NEW l \in ScanPc, NEW res \in {"ok", "yield"} \cup Errors,
           scan' = [scan EXCEPT !.pc = l, !.result = res, !.step = 0]
    PROVE  At(l, scan.job, scan.cancelled, scan.back, scan.pending, 0, res)
<1>1. scan \in ScanRecord /\ 0 \in (0 .. 6) \cup Ops
  BY ScanTyped
<1>. HIDE DEF ScanPc, Ops
<1>. QED
  BY <1>1 DEF At, ScanRecord

LEMMA ReadAt ==
    ASSUME JInv, NEW s \in (0 .. 6) \cup Ops, scan' = [scan EXCEPT !.step = s]
    PROVE  At(scan.pc, scan.job, scan.cancelled, scan.back, scan.pending, s, scan.result)
<1>1. scan \in ScanRecord
  BY ScanTyped
<1>. HIDE DEF ScanPc, Ops
<1>. QED
  BY <1>1 DEF At, ScanRecord

LEMMA PendingAt ==
    ASSUME JInv, NEW l \in ScanPc, NEW p \in SUBSET Ops,
           scan' = [scan EXCEPT !.pc = l, !.step = 0, !.pending = p]
    PROVE  At(l, scan.job, scan.cancelled, scan.back, p, 0, scan.result)
<1>1. scan \in ScanRecord /\ 0 \in (0 .. 6) \cup Ops
  BY ScanTyped
<1>. HIDE DEF ScanPc, Ops
<1>. QED
  BY <1>1 DEF At, ScanRecord

LEMMA BackAt ==
    ASSUME JInv, NEW b \in {"scan", "job", "after"}, NEW p \in SUBSET Ops,
           scan' = [scan EXCEPT !.pc = "cleanup", !.back = b, !.pending = p]
    PROVE  At("cleanup", scan.job, scan.cancelled, b, p, scan.step, scan.result)
<1>1. scan \in ScanRecord /\ "cleanup" \in ScanPc
  BY ScanTyped DEF ScanPc
<1>. HIDE DEF ScanPc, Ops
<1>. QED
  BY <1>1 DEF At, ScanRecord

LEMMA JobAt ==
    ASSUME JInv, NEW j \in 0 .. MaxJobs, NEW p \in SUBSET Ops,
           scan' = [scan EXCEPT !.pc = "cleanup", !.back = "job", !.job = j, !.pending = p]
    PROVE  At("cleanup", j, scan.cancelled, "job", p, scan.step, scan.result)
<1>1. scan \in ScanRecord /\ "cleanup" \in ScanPc
  BY ScanTyped DEF ScanPc
<1>. HIDE DEF ScanPc, Ops
<1>. QED
  BY <1>1 DEF At, ScanRecord

LEMMA CancelAt ==
    ASSUME JInv, scan' = [scan EXCEPT !.cancelled = TRUE]
    PROVE  At(scan.pc, scan.job, TRUE, scan.back, scan.pending, scan.step, scan.result)
<1>1. scan \in ScanRecord
  BY ScanTyped
<1>. HIDE DEF ScanPc, Ops
<1>. QED
  BY <1>1 DEF At, ScanRecord

LEMMA IdleAt ==
    /\ IdleScan \in ScanRecord /\ IdleScan.pc = "idle" /\ ~IdleScan.cancelled
    /\ IdleScan.result = "ok" /\ IdleScan.back = "scan"
<1>1. 0 \in Targets /\ "idle" \in ScanPc /\ 0 \in 0 .. MaxJobs /\ 0 \in (0 .. 6) \cup Ops
  BY MaxOpsAssumption, MaxJobsAssumption DEF Targets, ScanPc
<1>. HIDE DEF ScanPc, Targets, Ops
<1>. QED
  BY <1>1 DEF IdleScan, ScanRecord

LEMMA DiscoverAt ==
    ASSUME JInv, NEW o \in Targets, NEW p \in SUBSET Ops,
           scan' = [IdleScan EXCEPT !.pc = "cleanup", !.op = o, !.pending = p]
    PROVE  /\ scan' \in ScanRecord /\ scan'.pc = "cleanup" /\ scan'.op = o
           /\ scan'.pending = p /\ scan'.back = "scan" /\ scan'.result = "ok"
           /\ ~scan'.cancelled /\ scan'.job = 0
<1>1. "cleanup" \in ScanPc /\ 0 \in 0 .. MaxJobs /\ 0 \in (0 .. 6) \cup Ops
  BY MaxJobsAssumption DEF ScanPc
<1>. HIDE DEF ScanPc, Targets, Ops
<1>. QED
  BY <1>1 DEF IdleScan, ScanRecord

-----------------------------------------------------------------------------
(* What every step of the scan but a creation does *)

Moves(removed) ==
    /\ StoreInv' /\ RowsStill /\ Calm(removed) /\ Safe(removed)
    /\ scan' \in ScanRecord /\ daemon' \in {"starting", "up"} /\ repair' \in 0 .. 4
    /\ budget' \in 0 .. Disturbances
    /\ recorded \subseteq recorded'
    /\ \A r \in recorded' : r \in recorded \/ (r \in Runs /\ docker[r].exit = "ok")
    /\ done' = done
    /\ ended \subseteq ended' /\ ended' \in SUBSET Ops
    /\ \A o \in promoted' : kind'[o] = "deploy"

LEMMA MovesInv ==
    ASSUME JInv, NEW removed, Moves(removed)
    PROVE  StoreInv' /\ JTypeOK' /\ WorldInv'
<1>1. recorded' \in SUBSET done'
  <2>1. \A r \in Runs : docker[r].exit = "ok" => r \in done
    BY DEF JInv, WorldInv
  <2>. QED
    BY <2>1, ScanTyped DEF Moves
<1>2. JTypeOK'
  BY <1>1, ScanTyped, CalmType DEF Moves
<1>3. WorldInv'
  <2>1. /\ \A r \in recorded' : r \in recorded \/ docker[r].exit = "ok"
        /\ done \subseteq done'
        /\ \A r \in done' : r \in done \/ (docker[r].svc /\ docker'[r].exit = "ok" /\ docker'[r].svc)
    BY DEF Moves
  <2>. QED
    BY <2>1, CalmWorld DEF Moves
<1>. QED
  BY <1>2, <1>3 DEF Moves

(* A step that changes only the scan and, perhaps, removes services.         *)
LEMMA ScanMoves ==
    ASSUME JInv, UNCHANGED storeVars, NEW removed, Calm(removed), Safe(removed),
           scan' \in ScanRecord, UNCHANGED <<daemon, recorded, done, ended>>,
           repair' \in {0, repair}, budget' \in 0 .. Disturbances
    PROVE  Moves(removed) /\ Kept
<1>1. StoreInv' /\ Kept /\ RowsStill
  BY ScanTyped, KeptRows
<1>2. \A o \in promoted' : kind'[o] = "deploy"
  BY <1>1, ScanTyped DEF Kept
<1>3. repair' \in 0 .. 4
  BY ScanTyped
<1>. QED
  BY <1>1, <1>2, <1>3, ScanTyped DEF Moves

LEMMA Carried ==
    ASSUME JInv, NEW removed, Moves(removed)
    PROVE  /\ \A o \in Ops : Finished(o) => Finished(o)'
           /\ \A u \in Units : /\ Quiet(u) => Quiet(u)'
                               /\ ~docker[u].svc => ~docker'[u].svc
                               /\ ~docker[u].svc /\ ~docker[u].task => ~docker'[u].task
           /\ \A r \in Runs : docker[r].exit = "ok" => docker'[r].exit = "ok"
           /\ repair' = repair => Checked(repair)'
<1>1. Calm(removed) /\ recorded \subseteq recorded'
  BY DEF Moves
<1>2. \A o \in Ops : Finished(o) => Finished(o)'
  BY <1>1, CalmFinished
<1>3. \A u \in Units : /\ Quiet(u) => Quiet(u)'
                       /\ ~docker[u].svc => ~docker'[u].svc
                       /\ ~docker[u].svc /\ ~docker[u].task => ~docker'[u].task
  BY <1>1, CalmQuiet
<1>4. \A r \in Runs : docker[r].exit = "ok" => docker'[r].exit = "ok"
  BY <1>1 DEF Calm
<1>5. repair' = repair => Checked(repair)'
  <2>1. Checked(repair) /\ repair \in Nat
    BY DEF JInv, LockInv, JTypeOK
  <2>. QED
    BY <1>1, <2>1, CalmChecked
<1>. QED
  BY <1>2, <1>3, <1>4, <1>5

LEMMA CleanupCarried ==
    ASSUME JInv, NEW removed, Moves(removed),
           \A o \in ToCleanUp' :
               o \in ToCleanUp \/ (o \in ended' /\ o \in Ops /\ o <= count')
    PROVE  LosesNothing'
<1>. SUFFICES ASSUME live', NEW o \in ToCleanUp'
     PROVE  o <= count' /\ (o \in ended' \/ o # count' \/ Finished(o)')
  BY DEF LosesNothing
<1>1. CASE o \in ended' /\ o \in Ops /\ o <= count'
  BY <1>1
<1>2. CASE o \in ToCleanUp
  <2>1. o \in Ops /\ o \in Nat
    BY <1>2, ScanTyped, MaxOpsAssumption DEF ToCleanUp, JInv, JTypeOK, StoreInv, TypeOK, Ops
  <2>2. o <= count /\ (o \in ended \/ o # count \/ Finished(o))
    BY <1>2 DEF JInv, CleanupInv, LosesNothing, Moves, RowsStill
  <2>3. Finished(o) => Finished(o)'
    BY <2>1, Carried
  <2>. QED
    BY <2>1, <2>2, <2>3 DEF Moves, RowsStill
<1>. QED
  BY <1>1, <1>2

(* Where no stage has established anything.                                  *)
LEMMA NoStage ==
    ASSUME JInv, NEW removed, Moves(removed), repair' \in {0, repair},
           \/ scan'.pc \in {"idle", "scan", "prepare", "jobs"}
           \/ scan'.pc = "settle" /\ scan'.result # "ok"
           \/ scan'.pc \in {"rollout", "settle"} /\ kind'[scan'.op] = "deploy",
           \/ scan'.pc = "idle" /\ ~scan'.cancelled
           \/ /\ scan.pc # "idle" /\ scan'.pc # "idle" /\ scan'.op = scan.op
              /\ scan'.cancelled = scan.cancelled /\ daemon' = daemon /\ count' = count,
           scan'.result = "job" => scan'.op \in ended',
           \A o \in cleanup' : o \in ToCleanUp \/ (o \in ended' /\ o \in Ops /\ o <= count')
    PROVE  JInv'
<1>1. StoreInv' /\ JTypeOK' /\ WorldInv'
  BY MovesInv
<1>2. /\ ~WithJob' /\ ~AfterJob' /\ ~CleaningUp' /\ ~JobFailed'
      /\ scan'.pc \notin {"stale", "staleStopped", "next", "record", "request", "starting",
                          "ensuring", "stop", "stopped"}
  BY DEF WithJob, AfterJob, CleaningUp, JobFailed
<1>3. ScanInv'
  BY <1>2 DEF JInv, ScanInv, Moves, RowsStill
<1>4. JobInv'
  BY <1>2 DEF JobInv
<1>5. CleanupInv'
  <2>1. ToCleanUp' = cleanup'
    BY <1>2 DEF ToCleanUp
  <2>2. LosesNothing'
    BY <2>1, CleanupCarried
  <2>. QED
    BY <1>2, <2>2 DEF CleanupInv
<1>6. StoppedInv'
  BY <1>2 DEF StoppedInv
<1>7. LockInv'
  <2>1. Checked(repair)'
    <3>1. CASE repair' = repair
      BY <3>1, Carried
    <3>2. CASE repair' = 0
      BY <3>2 DEF Checked
    <3>. QED
      BY <3>1, <3>2
  <2>. QED
    BY <1>2, <2>1 DEF LockInv
<1>. QED
  BY <1>1, <1>3, <1>4, <1>5, <1>6, <1>7 DEF JInv

(* Where the scan keeps what its stage has established.                      *)
LEMMA SameStage ==
    ASSUME JInv, NEW removed, Moves(removed), repair' = repair, daemon' = daemon,
           live' = live, count' = count, kind' = kind, target' = target, state' = state,
           recorded' = recorded,
           scan.pc # "idle", scan'.op = scan.op, scan'.job = scan.job,
           scan'.cancelled => scan.op # count,
           scan'.pc \in {"cleanup", "stop", "stopped", "next", "job", "await", "start",
                         "wait", "record", "after"},
           scan'.pc \in {"stop", "stopped"} => scan'.step \in Ops,
           WithJob' => WithJob /\ ~JobFailed,
           AfterJob' => AfterJob /\ scan'.result = scan.result,
           scan'.pc = "next" => AfterJob /\ scan.result = "ok",
           scan'.pc = "record" =>
               \/ scan'.result \in {"yield", "retryable"}
               \/ scan'.result = "ok" /\ docker[Run].exit = "ok",
           scan'.result = "job" => scan.result = "job",
           CleaningUp' /\ scan'.back = "job" => cleanup' \subseteq scan'.pending,
           WithJob' /\ ~CleaningUp' => cleanup' = {},
           \A o \in ToCleanUp' : o \in ToCleanUp
    PROVE  JInv'
<1>1. StoreInv' /\ JTypeOK' /\ WorldInv'
  BY MovesInv
<1>2. /\ \A r \in Runs : /\ Quiet(r) => Quiet(r)'
                         /\ docker[r].exit = "ok" => docker'[r].exit = "ok"
      /\ Checked(repair)'
  BY Carried, RunFacts
<1>3. scan.op \in Ops /\ scan.op <= count /\ live /\ daemon = daemon' /\ daemon # "starting"
  BY DEF JInv, ScanInv
<1>4. ScanInv'
  BY <1>3 DEF JInv, ScanInv
<1>5. /\ Run' = Run
      /\ WithJob => Run \in Runs
  BY <1>3, RunFacts DEF Run, JInv, JobInv
<1>6. JobInv'
  <2>1. WithJob' => /\ scan'.job \in Jobs /\ Run' \notin recorded'
                    /\ \A k \in Jobs : k < scan'.job => <<k, scan'.op>> \in recorded'
                    /\ kind'[scan'.op] = "deploy" /\ target'[scan'.op] = scan'.op
    BY <1>5 DEF JInv, JobInv
  <2>2. AfterJob' \/ scan'.pc = "ensuring" => kind'[scan'.op] = "deploy"
    BY DEF JInv, JobInv
  <2>3. scan'.result = "job" => scan'.op \in ended'
    BY DEF JInv, JobInv, Moves
  <2>4. scan'.pc = "record" =>
            /\ scan'.result \in {"ok", "job", "yield", "retryable"}
            /\ scan'.result = "ok" => docker'[Run'].exit = "ok"
    <3>1. scan'.pc = "record" => WithJob'
      BY DEF WithJob
    <3>. QED
      BY <1>2, <1>5, <3>1
  <2>5. /\ \/ scan'.pc \in {"stale", "staleStopped", "next"}
           \/ WithJob' /\ ~JobFailed'
           \/ AfterJob' /\ scan'.result = "ok"
        /\ kind'[scan'.op] = "deploy" /\ scan'.op = count'
        => state'[count'] = "running"
    BY DEF JInv, JobInv
  <2>. QED
    BY <2>1, <2>2, <2>3, <2>4, <2>5 DEF JobInv
<1>7. CleanupInv'
  <2>1. LosesNothing'
    BY CleanupCarried
  <2>. QED
    BY <2>1 DEF CleanupInv
<1>8. StoppedInv'
  <2>1. scan'.pc = "next" \/ WithJob' \/ AfterJob' =>
            \A r \in Runs : r[2] # scan'.op => Quiet(r)'
    BY <1>2 DEF JInv, StoppedInv
  <2>2. scan'.pc = "next" => kind'[scan'.op] # "delete"
    BY DEF JInv, JobInv
  <2>. QED
    BY <2>1, <2>2 DEF StoppedInv
<1>9. LockInv'
  BY <1>2 DEF LockInv
<1>. QED
  BY <1>1, <1>4, <1>6, <1>7, <1>8, <1>9 DEF JInv

-----------------------------------------------------------------------------
(* The steps of the scan *)

LEMMA DiscoverInv ==
    ASSUME JInv, Discover
    PROVE  JInv'
<1>1. /\ daemon = "up" /\ live /\ count # 0 /\ count \in Ops
      /\ UNCHANGED storeVars /\ UNCHANGED <<daemon, recorded, done, ended>>
      /\ daemon' = daemon /\ recorded' = recorded /\ done' = done /\ ended' = ended
      /\ docker' = docker /\ repair' = repair /\ budget' = budget
  BY MaxOpsAssumption DEF Discover, JInv, StoreInv, TypeOK, Targets, Ops
<1>2. Calm({}) /\ Safe({})
  BY <1>1, StillCalm DEF Safe
<1>3. CASE /\ scan.pc = "idle"
           /\ scan' = [IdleScan EXCEPT !.pc = "cleanup", !.op = count, !.pending = PendingCleanup]
  <2>1. /\ scan' \in ScanRecord /\ scan'.pc = "cleanup" /\ scan'.op = count
        /\ scan'.pending = cleanup /\ scan'.back = "scan" /\ scan'.result = "ok"
        /\ ~scan'.cancelled
    BY <1>3, DiscoverAt DEF PendingCleanup, JInv, StoreInv, TypeOK
  <2>2. Moves({}) /\ Kept
    BY <1>1, <1>2, <2>1, ScanTyped, ScanMoves
  <2>3. StoreInv' /\ JTypeOK' /\ WorldInv'
    BY <2>2, MovesInv
  <2>4. ~WithJob' /\ ~AfterJob' /\ CleaningUp' /\ ~JobFailed' /\ ToCleanUp' = cleanup
    BY <2>1, <2>2 DEF WithJob, AfterJob, CleaningUp, JobFailed, ToCleanUp, Kept
  <2>5. ScanInv'
    BY <1>1, <2>1, <2>2 DEF JInv, ScanInv, Kept, Ops
  <2>6. JobInv'
    BY <2>1, <2>4 DEF JobInv
  <2>7. CleanupInv'
    <3>1. LosesNothing'
      BY <2>2, <2>4, CleanupCarried DEF ToCleanUp
    <3>. QED
      BY <2>1, <2>4, <3>1 DEF CleanupInv
  <2>8. StoppedInv'
    BY <2>1, <2>4 DEF StoppedInv
  <2>9. LockInv'
    BY <1>1, <2>1, <2>2, Carried DEF LockInv
  <2>. QED
    BY <2>3, <2>5, <2>6, <2>7, <2>8, <2>9 DEF JInv
<1>4. CASE /\ scan.pc # "idle" /\ scan.op # count /\ ~scan.cancelled
           /\ scan' = [scan EXCEPT !.cancelled = TRUE]
  <2>1. At(scan.pc, scan.job, TRUE, scan.back, scan.pending, scan.step, scan.result)
    BY <1>4, CancelAt
  <2>2. /\ scan'.pc = scan.pc /\ scan'.job = scan.job /\ scan'.op = scan.op
        /\ scan'.back = scan.back /\ scan'.pending = scan.pending
        /\ scan'.step = scan.step /\ scan'.result = scan.result /\ scan' \in ScanRecord
    BY <2>1 DEF At
  <2>3. Moves({}) /\ Kept
    BY <1>1, <1>2, <2>2, ScanTyped, ScanMoves
  <2>4. StoreInv' /\ JTypeOK' /\ WorldInv'
    BY <2>3, MovesInv
  <2>5. /\ WithJob' <=> WithJob
        /\ AfterJob' <=> AfterJob
        /\ CleaningUp' <=> CleaningUp
        /\ JobFailed' <=> JobFailed
        /\ Run' = Run /\ ToCleanUp' = ToCleanUp
        /\ \A o : Finished(o)' <=> Finished(o)
        /\ \A r : Quiet(r)' <=> Quiet(r)
        /\ \A o : Stale(o)' = Stale(o)
    BY <1>1, <2>2, <2>3 DEF WithJob, AfterJob, CleaningUp, JobFailed, Run, ToCleanUp, Kept,
       Finished, Quiet, Stale, PendingJobs
  <2>6. ScanInv'
    BY <1>1, <1>4, <2>2, <2>3 DEF JInv, ScanInv, Kept, CheckStart
  <2>7. JobInv'
    BY <1>1, <2>2, <2>3, <2>5 DEF JInv, JobInv, Kept, Finished
  <2>8. CleanupInv'
    <3>1. LosesNothing'
      BY <2>3, <2>5, CleanupCarried
    <3>. QED
      BY <2>2, <2>3, <2>5, <3>1 DEF JInv, CleanupInv, Kept
  <2>9. StoppedInv'
    BY <1>1, <2>2, <2>3, <2>5 DEF JInv, StoppedInv, Kept, Stale, PendingJobs
  <2>10. LockInv'
    BY <1>1, <2>2, <2>5 DEF JInv, LockInv, Checked
  <2>. QED
    BY <2>4, <2>6, <2>7, <2>8, <2>9, <2>10 DEF JInv
<1>. QED
  BY <1>3, <1>4 DEF Discover

LEMMA CleanUpInv ==
    ASSUME JInv, CleanUp
    PROVE  JInv'
<1>1. /\ scan.pc = "cleanup" /\ CleaningUp /\ ~JobFailed
      /\ UNCHANGED storeVars /\ UNCHANGED <<daemon, recorded, done, ended>>
      /\ daemon' = daemon /\ recorded' = recorded /\ done' = done /\ ended' = ended
      /\ repair' = repair /\ budget' = budget
  BY DEF CleanUp, CleaningUp, JobFailed
<1>2. scan.back \in {"scan", "job", "after"} /\ scan.pending \in SUBSET Ops
  BY DEF JInv, JTypeOK
<1>3. CASE scan.pending = {} /\ GoTo(scan.back) /\ UNCHANGED docker
  <2>1. scan.back \in ScanPc
    BY <1>2 DEF ScanPc
  <2>2. At(scan.back, scan.job, scan.cancelled, scan.back, scan.pending, scan.step, scan.result)
    BY <1>3, <2>1, GoToAt
  <2>3. Calm({}) /\ Safe({})
    BY <1>3, StillCalm DEF Safe
  <2>4. Moves({}) /\ Kept
    BY <1>1, <2>2, <2>3, ScanTyped, ScanMoves DEF At
  <2>5. ToCleanUp' \subseteq ToCleanUp /\ ~CleaningUp'
    BY <1>1, <1>2, <2>2, <2>4 DEF At, ToCleanUp, CleaningUp, Kept
  <2>6. CASE scan.back = "scan"
    <3>1. scan.result = "job" => scan.op \in ended
      BY DEF JInv, JobInv
    <3>. QED
      BY <1>1, <2>2, <2>4, <2>5, <2>6, <3>1, NoStage DEF At, Kept, ToCleanUp
  <2>7. CASE scan.back # "scan"
    <3>1. scan.back = "job" => cleanup = {}
      BY <1>1, <1>3 DEF JInv, CleanupInv
    <3>2. (WithJob' => WithJob) /\ (AfterJob' => AfterJob)
      BY <1>1, <1>2, <2>2, <2>7 DEF At, WithJob, AfterJob, CleaningUp
    <3>3. WithJob' => cleanup' = {}
      BY <1>2, <2>2, <2>4, <2>5, <2>7, <3>1 DEF At, WithJob, Kept
    <3>4. scan.cancelled => scan.op # count
      BY DEF JInv, ScanInv
    <3>. QED
      BY <1>1, <1>2, <2>2, <2>4, <2>5, <2>7, <3>2, <3>3, <3>4, SameStage DEF At, Kept
  <2>. QED
    BY <2>6, <2>7
<1>4. ASSUME LockFree, NEW o \in scan.pending,
             scan' = [scan EXCEPT !.pc = "stop", !.step = o],
             docker' = WithoutServices(RunsOf(o))
      PROVE  JInv'
  <2>1. o \in Ops /\ "stop" \in ScanPc
    BY <1>2, <1>4 DEF ScanPc
  <2>2. At("stop", scan.job, scan.cancelled, scan.back, scan.pending, o, scan.result)
    BY <1>4, <2>1, StepAt
  <2>3. Calm(RunsOf(o))
    BY <1>4, WithoutCalm
  <2>4. Safe(RunsOf(o))
    <3>. SUFFICES ASSUME live, NEW r \in Runs, r \in RunsOf(o), r \in done
         PROVE  r \in recorded \/ r[2] \in ended' \/ r[2] # count
      BY DEF Safe
    <3>1. o \in ended \/ o # count \/ Finished(o)
      BY <1>1 DEF JInv, CleanupInv, LosesNothing, ToCleanUp
    <3>2. \/ r[2] \in ended
          \/ r[2] # count
          \/ docker[r].exit = "ok"
      BY DEF JInv, WorldInv
    <3>. QED
      BY <1>1, <3>1, <3>2, GoneFacts DEF RunsOf, Finished
  <2>5. Moves(RunsOf(o)) /\ Kept
    BY <1>1, <2>2, <2>3, <2>4, ScanTyped, ScanMoves DEF At
  <2>6. ToCleanUp' = ToCleanUp
    BY <1>1, <2>2, <2>5 DEF At, ToCleanUp, CleaningUp, Kept
  <2>7. (WithJob' => WithJob) /\ (AfterJob' => AfterJob) /\ CleaningUp'
    BY <1>1, <2>2 DEF At, WithJob, AfterJob, CleaningUp
  <2>8. scan.back = "job" => cleanup \subseteq scan.pending
    BY <1>1 DEF JInv, CleanupInv
  <2>9. scan.cancelled => scan.op # count
    BY DEF JInv, ScanInv
  <2>. QED
    BY <1>1, <2>1, <2>2, <2>5, <2>6, <2>7, <2>8, <2>9, SameStage DEF At, Kept
<1>. QED
  BY <1>3, <1>4 DEF CleanUp

(* As ScanMoves, for a step that also changes the rows.                      *)
LEMMA RowMoves ==
    ASSUME JInv, StoreInv', RowsStill, \A o \in promoted' : kind'[o] = "deploy",
           docker' = docker, scan' \in ScanRecord, UNCHANGED <<daemon, recorded, done>>,
           repair' = repair, budget' \in 0 .. Disturbances,
           ended \subseteq ended', ended' \in SUBSET Ops
    PROVE  Moves({})
<1>1. Calm({}) /\ Safe({})
  BY StillCalm DEF Safe
<1>2. repair' \in 0 .. 4
  BY ScanTyped
<1>. QED
  BY <1>1, <1>2, ScanTyped DEF Moves

LEMMA FinishStoppingInv ==
    ASSUME JInv, FinishStopping
    PROVE  JInv'
<1>. DEFINE o == scan.step
<1>1. /\ scan.pc \in {"stop", "stopped"} /\ CleaningUp /\ ~JobFailed
      /\ UNCHANGED <<daemon, recorded, done, ended>>
      /\ daemon' = daemon /\ recorded' = recorded /\ done' = done /\ ended' = ended
      /\ repair' = repair /\ budget' = budget /\ docker' = docker
  BY DEF FinishStopping, RunsStopped, CleaningUp, JobFailed
<1>2. o \in Ops /\ scan.pending \in SUBSET Ops /\ (scan.cancelled => scan.op # count)
  BY <1>1 DEF JInv, JTypeOK, ScanInv
<1>3. scan.back = "job" => cleanup \subseteq scan.pending
  BY <1>1 DEF JInv, CleanupInv
<1>4. ASSUME NEW l \in {"stop", "stopped"}, GoTo(l), UNCHANGED storeVars
      PROVE  JInv'
  <2>1. At(l, scan.job, scan.cancelled, scan.back, scan.pending, scan.step, scan.result)
    BY <1>4, GoToAt DEF ScanPc
  <2>2. Calm({}) /\ Safe({})
    BY <1>1, StillCalm DEF Safe
  <2>3. Moves({}) /\ Kept
    BY <1>1, <1>4, <2>1, <2>2, ScanTyped, ScanMoves DEF At
  <2>4. (WithJob' => WithJob) /\ (AfterJob' => AfterJob) /\ CleaningUp' /\ ToCleanUp' = ToCleanUp
    BY <1>1, <2>1, <2>3 DEF At, WithJob, AfterJob, CleaningUp, ToCleanUp, Kept
  <2>. QED
    BY <1>1, <1>2, <1>3, <2>1, <2>3, <2>4, SameStage DEF At, Kept
<1>5. ASSUME scan.pc = "stopped",
             scan' = [scan EXCEPT !.pc = "cleanup", !.step = 0, !.pending = @ \ {o}],
             IF o \in cleanup THEN FinishJobCleanup(o) ELSE UNCHANGED storeVars
      PROVE  JInv'
  <2>1. At("cleanup", scan.job, scan.cancelled, scan.back, scan.pending \ {o}, 0, scan.result)
    <3>1. scan' = [scan EXCEPT !.pc = "cleanup", !.step = 0, !.pending = scan.pending \ {o}]
      BY <1>5
    <3>. QED
      BY <1>2, <3>1, PendingAt DEF ScanPc
  <2>2. /\ StoreInv' /\ RowsStill
        /\ live' = live /\ count' = count /\ kind' = kind /\ target' = target
        /\ promoted' = promoted /\ state' = state /\ cleanup' = cleanup \ {o}
    <3>1. CASE o \in cleanup
      BY <1>2, <1>5, <3>1, CleanupRows, ScanTyped
    <3>2. CASE o \notin cleanup
      BY <1>5, <3>2, KeptRows, ScanTyped DEF Kept
    <3>. QED
      BY <3>1, <3>2
  <2>3. Moves({})
    BY <1>1, <2>1, <2>2, ScanTyped, RowMoves DEF At
  <2>4. (WithJob' => WithJob) /\ (AfterJob' => AfterJob) /\ CleaningUp'
        /\ ToCleanUp' \subseteq ToCleanUp
    BY <1>1, <2>1, <2>2 DEF At, WithJob, AfterJob, CleaningUp, ToCleanUp
  <2>. QED
    BY <1>1, <1>2, <1>3, <2>1, <2>2, <2>3, <2>4, SameStage DEF At
<1>. QED
  BY <1>4, <1>5 DEF FinishStopping, RunsStopped

(* A wait or a request of the cleanup fails.                                 *)
LEMMA CleanUpFailsInv ==
    ASSUME JInv, CleanUpFails
    PROVE  JInv'
<1>1. /\ CleaningUp /\ ~JobFailed /\ scan.pc # "idle" /\ UNCHANGED storeVars
      /\ UNCHANGED <<daemon, recorded, done, ended>>
      /\ daemon' = daemon /\ recorded' = recorded /\ done' = done /\ ended' = ended
      /\ repair' = repair /\ docker' = docker /\ budget' \in 0 .. Disturbances
  BY DisturbType DEF CleanUpFails, CleaningUp, JobFailed
<1>2. /\ scan.back \in {"scan", "job", "after"} /\ (scan.cancelled => scan.op # count)
      /\ (scan.result = "job" => scan.op \in ended)
  BY DEF JInv, JTypeOK, ScanInv, JobInv
<1>3. Calm({}) /\ Safe({})
  BY <1>1, StillCalm DEF Safe
<1>4. CASE scan.back = "job"
  <2>1. scan' = [scan EXCEPT !.pc = "settle", !.result = "retryable", !.step = 0]
    BY <1>4 DEF CleanUpFails
  <2>2. At("settle", scan.job, scan.cancelled, scan.back, scan.pending, 0, "retryable")
    BY <2>1, FailAt, JobErrorsAssumption DEF ScanPc
  <2>3. Moves({}) /\ Kept
    BY <1>1, <1>3, <2>2, ScanTyped, ScanMoves DEF At
  <2>. QED
    BY <1>1, <2>2, <2>3, NoStage DEF At, Kept, ToCleanUp
<1>5. CASE scan.back # "job"
  <2>1. scan' = [scan EXCEPT !.pc = scan.back, !.step = 0, !.pending = {}]
    BY <1>5 DEF CleanUpFails
  <2>2. At(scan.back, scan.job, scan.cancelled, scan.back, {}, 0, scan.result)
    BY <1>2, <2>1, PendingAt DEF ScanPc
  <2>3. Moves({}) /\ Kept
    BY <1>1, <1>3, <2>2, ScanTyped, ScanMoves DEF At
  <2>4. CASE scan.back = "scan"
    BY <1>1, <1>2, <2>2, <2>3, <2>4, NoStage DEF At, Kept, ToCleanUp
  <2>5. CASE scan.back = "after"
    <3>1. ~WithJob' /\ (AfterJob' => AfterJob) /\ ~CleaningUp' /\ ToCleanUp' \subseteq ToCleanUp
      BY <1>1, <2>2, <2>3, <2>5 DEF At, WithJob, AfterJob, CleaningUp, ToCleanUp, Kept
    <3>. QED
      BY <1>1, <1>2, <2>2, <2>3, <2>5, <3>1, SameStage DEF At, Kept
  <2>. QED
    BY <1>2, <1>5, <2>4, <2>5
<1>. QED
  BY <1>4, <1>5

LEMMA ScannedRow ==
    ASSUME JInv, scan.pc # "idle"
    PROVE  /\ scan.op \in Ops /\ scan.op <= count /\ live
           /\ scan.cancelled => scan.op # count
           /\ scan.result = "job" => scan.op \in ended
           /\ \A o \in cleanup : o \in ToCleanUp
BY DEF JInv, ScanInv, JobInv, ToCleanUp

(* A transition of the scanned operation that asks for no cleanup.           *)
LEMMA TransitionMoves ==
    ASSUME JInv, NEW o \in Ops, NEW code, code # "job",
           \/ TransitionOperation(o, "requested", "running", code) /\ code = "none"
           \/ TransitionOperation(o, "running", "requested", code) /\ code = "none"
           \/ TransitionOperation(o, "running", "succeeded", code) /\ code = "none"
           \/ TransitionOperation(o, "running", "cancelled", code) /\ code = "none"
           \/ TransitionOperation(o, "running", "failed", code) /\ code \in Errors
           \/ kind[o] = "delete" /\ RecordOperationError(o, code) /\ code \in Errors
           \/ RequestReconcile(o)
           \/ RecoverInterrupted
    PROVE  /\ StoreInv' /\ RowsStill
           /\ live' = live /\ count' = count /\ kind' = kind /\ target' = target
           /\ promoted' = promoted /\ cleanup' = cleanup
           /\ \A p \in promoted' : kind'[p] = "deploy"
<1>1. StoreInv'
  <2>1. Execute(o) \/ RecoverInterrupted
    BY DEF Execute
  <2>. QED
    BY <2>1, StepInv, ScanTyped DEF StoreNext
<1>2. /\ RowsStill
      /\ live' = live /\ count' = count /\ kind' = kind /\ target' = target
      /\ promoted' = promoted /\ cleanup' = cleanup
  <2>1. \/ \E from, to : TransitionOperation(o, from, to, code)
        \/ RecordOperationError(o, code)
        \/ RequestReconcile(o)
        \/ RecoverInterrupted
    OBVIOUS
  <2>. QED
    BY <2>1, StateRows, ScanTyped
<1>. QED
  BY <1>1, <1>2, ScanTyped

LEMMA ScanOperationInv ==
    ASSUME JInv, ScanOperation
    PROVE  JInv'
<1>1. /\ scan.pc = "scan" /\ scan.pc # "idle"
      /\ UNCHANGED <<daemon, recorded, done>>
      /\ daemon' = daemon /\ recorded' = recorded /\ done' = done /\ ended' = ended
      /\ repair' = repair /\ budget' = budget /\ docker' = docker
  BY DEF ScanOperation
<1>2. /\ scan.op \in Ops /\ scan.op <= count /\ live
      /\ scan.cancelled => scan.op # count
      /\ scan.result = "job" => scan.op \in ended
      /\ \A o \in cleanup : o \in ToCleanUp
  BY <1>1, ScannedRow
<1>3. CASE EndScan /\ UNCHANGED storeVars
  <2>1. scan' = IdleScan /\ scan' \in ScanRecord
    BY <1>3, IdleAt DEF EndScan
  <2>2. Calm({}) /\ Safe({})
    BY <1>1, StillCalm DEF Safe
  <2>3. Moves({}) /\ Kept
    BY <1>1, <1>3, <2>1, <2>2, ScanTyped, ScanMoves
  <2>. QED
    BY <1>1, <1>2, <2>1, <2>3, IdleAt, NoStage DEF Kept
<1>4. CASE /\ TransitionOperation(scan.op, "requested", "running", "none")
           /\ GoTo("prepare")
  <2>1. At("prepare", scan.job, scan.cancelled, scan.back, scan.pending, scan.step, scan.result)
    BY <1>4, GoToAt DEF ScanPc
  <2>2. /\ StoreInv' /\ RowsStill
        /\ live' = live /\ count' = count /\ kind' = kind /\ target' = target
        /\ promoted' = promoted /\ cleanup' = cleanup
        /\ \A p \in promoted' : kind'[p] = "deploy"
    BY <1>2, <1>4, TransitionMoves
  <2>3. Moves({})
    BY <1>1, <2>1, <2>2, ScanTyped, RowMoves DEF At
  <2>. QED
    BY <1>1, <1>2, <2>1, <2>2, <2>3, NoStage DEF At
<1>5. CASE /\ \/ RequestReconcile(scan.op)
              \/ TransitionOperation(scan.op, "running", "requested", "none")
           /\ UNCHANGED scan
  <2>1. /\ StoreInv' /\ RowsStill
        /\ live' = live /\ count' = count /\ kind' = kind /\ target' = target
        /\ promoted' = promoted /\ cleanup' = cleanup
        /\ \A p \in promoted' : kind'[p] = "deploy"
    <3>. DEFINE code == "none"
    <3>1. code # "job" /\ code = "none"
      OBVIOUS
    <3>2. \/ RequestReconcile(scan.op)
          \/ TransitionOperation(scan.op, "running", "requested", code)
      BY <1>5
    <3>. HIDE DEF code
    <3>. QED
      BY <1>2, <3>1, <3>2, TransitionMoves
  <2>2. Moves({})
    BY <1>1, <1>5, <2>1, ScanTyped, RowMoves
  <2>. QED
    BY <1>1, <1>2, <1>5, <2>1, <2>2, NoStage
<1>. QED
  BY <1>3, <1>4, <1>5, Zenon DEF ScanOperation

(* The execution ends without success; its rows are as they were.            *)
LEMMA EndsInv ==
    ASSUME JInv, scan.pc # "idle", UNCHANGED storeVars, UNCHANGED <<daemon, docker, done, ended, repair>>,
           budget' \in 0 .. Disturbances, recorded \subseteq recorded',
           \A r \in recorded' : r \in recorded \/ (r \in Runs /\ docker[r].exit = "ok"),
           NEW s, NEW res, res # "ok", res = "job" => scan.result = "job",
           At("settle", scan.job, scan.cancelled, scan.back, scan.pending, s, res)
    PROVE  JInv'
<1>1. /\ scan.op \in Ops /\ scan.op <= count /\ live
      /\ scan.result = "job" => scan.op \in ended
      /\ \A o \in cleanup : o \in ToCleanUp
  BY ScannedRow
<1>2. Calm({}) /\ Safe({})
  BY StillCalm DEF Safe
<1>3. StoreInv' /\ Kept /\ RowsStill
  BY ScanTyped, KeptRows
<1>4. \A o \in promoted' : kind'[o] = "deploy"
  BY <1>3, ScanTyped DEF Kept
<1>5. Moves({})
  BY <1>2, <1>3, <1>4, ScanTyped DEF Moves, At
<1>. QED
  BY <1>1, <1>3, <1>5, NoStage DEF At, Kept

LEMMA PrepareScanInv ==
    ASSUME JInv, Prepare
    PROVE  JInv'
<1>1. /\ scan.pc = "prepare" /\ scan.pc # "idle"
      /\ UNCHANGED <<daemon, recorded, done>>
      /\ daemon' = daemon /\ recorded' = recorded /\ done' = done /\ ended' = ended
      /\ repair' = repair /\ docker' = docker
  BY DEF Prepare
<1>2. /\ scan.op \in Ops /\ scan.op <= count /\ live
      /\ scan.cancelled => scan.op # count
      /\ scan.result = "job" => scan.op \in ended
      /\ \A o \in cleanup : o \in ToCleanUp
  BY <1>1, ScannedRow
<1>3. CASE EndWith("yield") /\ UNCHANGED <<storeVars, budget>>
  <2>1. At("settle", scan.job, scan.cancelled, scan.back, scan.pending, scan.step, "yield")
    BY <1>3, EndWithAt
  <2>. QED
    BY <1>1, <1>3, <2>1, ScanTyped, EndsInv
<1>4. CASE "other" \in Errors /\ Disturb /\ EndWith("other") /\ UNCHANGED storeVars
  <2>1. At("settle", scan.job, scan.cancelled, scan.back, scan.pending, scan.step, "other")
    BY <1>4, EndWithAt
  <2>. QED
    BY <1>1, <1>4, <2>1, DisturbType, EndsInv
<1>5. CASE /\ Current /\ GoTo("jobs") /\ UNCHANGED budget
           /\ IF kind[scan.op] = "delete" \/ target[scan.op] # 0
                THEN UNCHANGED storeVars
                ELSE PrepareTarget(scan.op)
  <2>1. At("jobs", scan.job, scan.cancelled, scan.back, scan.pending, scan.step, scan.result)
    BY <1>5, GoToAt DEF ScanPc
  <2>2. /\ StoreInv' /\ RowsStill
        /\ live' = live /\ count' = count /\ kind' = kind
        /\ promoted' = promoted /\ cleanup' = cleanup
    <3>1. CASE UNCHANGED storeVars
      BY <3>1, ScanTyped, KeptRows DEF Kept
    <3>2. CASE PrepareTarget(scan.op)
      <4>1. /\ live' = live /\ count' = count /\ kind' = kind
            /\ promoted' = promoted /\ cleanup' = cleanup
            /\ target[scan.op] = 0 /\ target' = [target EXCEPT ![scan.op] = scan.op]
        BY <3>2, Zenon DEF PrepareTarget, SavePrepared, envVars, execVars
      <4>2. StoreInv' /\ count \in Nat /\ target \in [Ops -> Targets]
        BY <1>2, <3>2, ScanTyped, PrepareInv, MaxOpsAssumption DEF StoreInv, TypeOK, Targets
      <4>. QED
        BY <1>2, <4>1, <4>2 DEF RowsStill
    <3>. QED
      BY <1>5, <3>1, <3>2
  <2>3. \A p \in promoted' : kind'[p] = "deploy"
    BY <2>2, ScanTyped
  <2>4. Moves({})
    BY <1>1, <1>5, <2>1, <2>2, <2>3, ScanTyped, RowMoves DEF At
  <2>. QED
    BY <1>1, <1>2, <2>1, <2>2, <2>4, NoStage DEF At
<1>. QED
  BY <1>3, <1>4, <1>5, Zenon DEF Prepare

LEMMA RemoveStaleInv ==
    ASSUME JInv, RemoveStale
    PROVE  JInv'
<1>1. /\ scan.pc = "jobs" /\ scan.pc # "idle" /\ UNCHANGED storeVars
      /\ UNCHANGED <<daemon, recorded, done, ended>>
      /\ daemon' = daemon /\ recorded' = recorded /\ done' = done /\ ended' = ended
      /\ repair' = repair /\ budget' = budget
  BY DEF RemoveStale
<1>2. /\ scan.op \in Ops /\ scan.op <= count /\ live
      /\ scan.cancelled => scan.op # count
      /\ scan.result = "job" => scan.op \in ended
      /\ \A o \in cleanup : o \in ToCleanUp
  BY <1>1, ScannedRow
<1>3. CASE scan.op \in promoted /\ GoTo("rollout") /\ UNCHANGED docker
  <2>1. At("rollout", scan.job, scan.cancelled, scan.back, scan.pending, scan.step, scan.result)
    BY <1>3, GoToAt DEF ScanPc
  <2>2. Calm({}) /\ Safe({})
    BY <1>3, StillCalm DEF Safe
  <2>3. Moves({}) /\ Kept
    BY <1>1, <2>1, <2>2, ScanTyped, ScanMoves DEF At
  <2>4. kind[scan.op] = "deploy"
    BY <1>3, ScanTyped
  <2>. QED
    BY <1>1, <1>2, <2>1, <2>3, <2>4, NoStage DEF At, Kept
<1>4. CASE EndWith("yield") /\ UNCHANGED docker
  <2>1. At("settle", scan.job, scan.cancelled, scan.back, scan.pending, scan.step, "yield")
    BY <1>4, EndWithAt
  <2>. QED
    BY <1>1, <1>4, <2>1, ScanTyped, EndsInv
<1>5. CASE /\ scan.op \notin promoted /\ MayWrite
           /\ docker' = WithoutServices(Stale(scan.op)) /\ GoTo("stale")
  <2>. DEFINE stale == Stale(scan.op)
  <2>1. At("stale", scan.job, scan.cancelled, scan.back, scan.pending, scan.step, scan.result)
    BY <1>5, GoToAt DEF ScanPc
  <2>2. Calm(stale) /\ \A u \in Units : u \in stale => ~docker'[u].svc
    BY <1>5, WithoutCalm
  <2>3. scan.op = count /\ state[count] = "running"
    BY <1>5 DEF MayWrite, Current
  <2>4. Safe(stale)
    <3>. SUFFICES ASSUME NEW r \in Runs, r \in stale, r \in done, r[2] = count, r[2] \notin ended
         PROVE  r \in recorded
      BY <1>1 DEF Safe
    <3>1. docker[r].exit = "ok"
      BY <1>2 DEF JInv, WorldInv
    <3>2. docker[r] # Gone
      BY <3>1, GoneFacts
    <3>3. kind[r[2]] = "deploy" /\ target[r[2]] = r[2]
      BY <1>2, <3>2 DEF JInv, WorldInv
    <3>4. PendingJobs(scan.op) = {}
      BY <2>3 DEF Stale, RunsOf
    <3>5. <<r[1], r[2]>> \in recorded
      BY <1>5, <2>3, <3>3, <3>4, RunFacts DEF PendingJobs, Kinds
    <3>. QED
      BY <3>5, RunFacts
  <2>5. Moves(stale) /\ Kept
    BY <1>1, <2>1, <2>2, <2>4, ScanTyped, ScanMoves DEF At
  <2>6. StoreInv' /\ JTypeOK' /\ WorldInv'
    BY <2>5, MovesInv
  <2>7. ~WithJob' /\ ~AfterJob' /\ ~CleaningUp' /\ ~JobFailed' /\ ToCleanUp' \subseteq ToCleanUp
    BY <1>1, <2>1, <2>5 DEF At, WithJob, AfterJob, CleaningUp, JobFailed, ToCleanUp, Kept
  <2>8. ScanInv'
    BY <1>1, <1>2, <2>1, <2>5 DEF At, JInv, ScanInv, Kept
  <2>9. JobInv'
    BY <1>1, <1>2, <2>1, <2>3, <2>5, <2>7 DEF At, JobInv, Kept
  <2>10. CleanupInv'
    <3>1. LosesNothing'
      BY <2>5, <2>7, CleanupCarried
    <3>. QED
      BY <2>7, <3>1 DEF CleanupInv
  <2>11. StoppedInv'
    <3>1. Stale(scan.op)' = stale
      BY <1>1, <2>1, <2>5 DEF At, Kept, Stale, PendingJobs
    <3>2. \A r \in stale : r \in Units
      BY RunFacts DEF Stale
    <3>3. scan'.pc = "stale" => \A r \in Stale(scan.op)' : ~docker'[r].svc
      BY <2>2, <3>1, <3>2
    <3>. HIDE DEF stale
    <3>. QED
      BY <2>1, <2>7, <3>3 DEF At, StoppedInv
  <2>12. LockInv'
    BY <1>1, <2>1, <2>5, Carried DEF At, LockInv
  <2>. QED
    BY <2>6, <2>8, <2>9, <2>10, <2>11, <2>12 DEF JInv
<1>. QED
  BY <1>3, <1>4, <1>5, Zenon DEF RemoveStale

LEMMA StaleStoppedInv ==
    ASSUME JInv, StaleStopped
    PROVE  JInv'
<1>1. /\ scan.pc \in {"stale", "staleStopped"} /\ scan.pc # "idle" /\ UNCHANGED storeVars
      /\ UNCHANGED <<daemon, recorded, done, ended>>
      /\ daemon' = daemon /\ recorded' = recorded /\ done' = done /\ ended' = ended
      /\ repair' = repair /\ budget' = budget /\ docker' = docker
  BY DEF StaleStopped
<1>2. /\ scan.op \in Ops /\ scan.op <= count /\ live
      /\ scan.cancelled => scan.op # count
      /\ scan.result = "job" => scan.op \in ended
      /\ \A o \in cleanup : o \in ToCleanUp
  BY <1>1, ScannedRow
<1>. DEFINE stale == Stale(scan.op)
<1>3. PICK l \in {"stale", "staleStopped", "next"} :
          /\ GoTo(l)
          /\ l = "staleStopped" => \A r \in stale : ~docker[r].task
          /\ l = "next" => scan.pc = "staleStopped" /\ \A r \in stale : ~docker[r].ctr
  BY DEF StaleStopped, TasksLeft, ContainersLeft
<1>4. At(l, scan.job, scan.cancelled, scan.back, scan.pending, scan.step, scan.result)
  BY <1>3, GoToAt DEF ScanPc
<1>5. Calm({}) /\ Safe({})
  BY <1>1, StillCalm DEF Safe
<1>6. Moves({}) /\ Kept
  BY <1>1, <1>4, <1>5, ScanTyped, ScanMoves DEF At
<1>7. StoreInv' /\ JTypeOK' /\ WorldInv'
  BY <1>6, MovesInv
<1>8. ~WithJob' /\ ~AfterJob' /\ ~CleaningUp' /\ ~JobFailed' /\ ToCleanUp' \subseteq ToCleanUp
  BY <1>1, <1>4, <1>6 DEF At, WithJob, AfterJob, CleaningUp, JobFailed, ToCleanUp, Kept
<1>9. ScanInv'
  BY <1>1, <1>2, <1>4, <1>6 DEF At, JInv, ScanInv, Kept
<1>10. JobInv'
  <2>1. kind[scan.op] = "deploy" /\ scan.op = count => state[count] = "running"
    BY <1>1 DEF JInv, JobInv
  <2>. QED
    BY <1>1, <1>2, <1>4, <1>6, <1>8, <2>1 DEF At, JobInv, Kept
<1>11. CleanupInv'
  <2>1. LosesNothing'
    BY <1>6, <1>8, CleanupCarried
  <2>. QED
    BY <1>8, <2>1 DEF CleanupInv
<1>12. StoppedInv'
  <2>1. Stale(scan.op)' = stale
    BY <1>1, <1>4, <1>6 DEF At, Kept, Stale, PendingJobs
  <2>2. /\ \A r \in stale : ~docker[r].svc
        /\ scan.pc = "staleStopped" => \A r \in stale : ~docker[r].task
    BY <1>1 DEF JInv, StoppedInv
  <2>3. l = "next" => \A r \in stale : Quiet(r)'
    BY <1>1, <1>3, <2>2 DEF Quiet
  <2>4. \A r \in Runs : r[2] # scan.op => r \in stale
    BY DEF Stale, RunsOf
  <2>5. kind[scan.op] = "delete" => stale = Runs
    BY DEF Stale, PendingJobs
  <2>6. /\ scan'.pc \in {"stale", "staleStopped"} => \A r \in Stale(scan.op)' : ~docker'[r].svc
        /\ scan'.pc = "staleStopped" => \A r \in Stale(scan.op)' : ~docker'[r].task
    BY <1>1, <1>3, <1>4, <2>1, <2>2 DEF At
  <2>7. /\ l = "next" => \A r \in Runs : r[2] # scan.op => Quiet(r)'
        /\ l = "next" /\ kind[scan.op] = "delete" => \A r \in Runs : Quiet(r)'
    BY <2>3, <2>4, <2>5
  <2>. HIDE DEF stale
  <2>. QED
    BY <1>3, <1>4, <1>6, <1>8, <2>6, <2>7 DEF At, StoppedInv, Kept
<1>13. LockInv'
  BY <1>1, <1>4, <1>6, Carried DEF At, LockInv
<1>. QED
  BY <1>7, <1>9, <1>10, <1>11, <1>12, <1>13 DEF JInv

LEMMA NextJobInv ==
    ASSUME JInv, NextJob
    PROVE  JInv'
<1>1. /\ scan.pc = "next" /\ scan.pc # "idle" /\ UNCHANGED storeVars
      /\ UNCHANGED <<daemon, recorded, done, ended>>
      /\ daemon' = daemon /\ recorded' = recorded /\ done' = done /\ ended' = ended
      /\ repair' = repair /\ budget' = budget /\ docker' = docker
  BY DEF NextJob
<1>2. /\ scan.op \in Ops /\ scan.op <= count /\ live
      /\ scan.cancelled => scan.op # count
      /\ scan.result = "job" => scan.op \in ended
      /\ \A o \in cleanup : o \in ToCleanUp
  BY <1>1, ScannedRow
<1>3. Calm({}) /\ Safe({})
  BY <1>1, StillCalm DEF Safe
<1>4. CASE GoTo("rollout")
  <2>1. At("rollout", scan.job, scan.cancelled, scan.back, scan.pending, scan.step, scan.result)
    BY <1>4, GoToAt DEF ScanPc
  <2>2. Moves({}) /\ Kept
    BY <1>1, <1>3, <2>1, ScanTyped, ScanMoves DEF At
  <2>3. CASE kind[scan.op] = "deploy"
    BY <1>1, <1>2, <2>1, <2>2, <2>3, NoStage DEF At, Kept
  <2>4. CASE kind[scan.op] = "delete"
    <3>1. StoreInv' /\ JTypeOK' /\ WorldInv'
      BY <2>2, MovesInv
    <3>2. ~WithJob' /\ ~AfterJob' /\ ~CleaningUp' /\ ~JobFailed' /\ ToCleanUp' \subseteq ToCleanUp
      BY <1>1, <2>1, <2>2 DEF At, WithJob, AfterJob, CleaningUp, JobFailed, ToCleanUp, Kept
    <3>3. ScanInv'
      BY <1>1, <1>2, <2>1, <2>2 DEF At, JInv, ScanInv, Kept
    <3>4. JobInv'
      BY <1>1, <1>2, <2>1, <2>2, <3>2 DEF At, JobInv, Kept
    <3>5. CleanupInv'
      <4>1. LosesNothing'
        BY <2>2, <3>2, CleanupCarried
      <4>. QED
        BY <3>2, <4>1 DEF CleanupInv
    <3>6. StoppedInv'
      <4>1. \A r \in Runs : Quiet(r)'
        BY <1>1, <2>2, <2>4, Carried, RunFacts DEF JInv, StoppedInv
      <4>. QED
        BY <2>1, <3>2, <4>1 DEF At, StoppedInv
    <3>7. LockInv'
      BY <1>1, <2>1, <2>2, Carried DEF At, LockInv
    <3>. QED
      BY <3>1, <3>3, <3>4, <3>5, <3>6, <3>7 DEF JInv
  <2>5. kind[scan.op] \in {"deploy", "delete"}
    BY <1>2 DEF JInv, StoreInv, TypeOK, Kinds
  <2>. QED
    BY <2>3, <2>4, <2>5
<1>5. ASSUME NEW j \in PendingJobs(scan.op), \A k \in PendingJobs(scan.op) : j <= k,
             scan' = [scan EXCEPT !.pc = "cleanup", !.back = "job",
                                  !.job = j, !.pending = PendingCleanup]
      PROVE  JInv'
  <2>1. /\ kind[scan.op] # "delete" /\ target[scan.op] = scan.op
        /\ PendingJobs(scan.op) = {i \in Jobs : <<i, scan.op>> \notin recorded}
    BY <1>5 DEF PendingJobs
  <2>2. j \in Jobs /\ <<j, scan.op>> \notin recorded /\ kind[scan.op] = "deploy"
    BY <1>2, <1>5, <2>1 DEF JInv, StoreInv, TypeOK, Kinds
  <2>3. \A k \in Jobs : k < j => <<k, scan.op>> \in recorded
    BY <1>5, <2>1, <2>2, MaxJobsAssumption DEF Jobs
  <2>4. At("cleanup", j, scan.cancelled, "job", cleanup, scan.step, scan.result)
    <3>1. j \in 0 .. MaxJobs /\ cleanup \in SUBSET Ops
      BY <2>2, MaxJobsAssumption DEF Jobs, JInv, StoreInv, TypeOK
    <3>2. scan' = [scan EXCEPT !.pc = "cleanup", !.back = "job", !.job = j, !.pending = cleanup]
      BY <1>5 DEF PendingCleanup
    <3>. QED
      BY <3>1, <3>2, JobAt
  <2>5. Moves({}) /\ Kept
    BY <1>1, <1>3, <2>4, ScanTyped, ScanMoves DEF At
  <2>6. StoreInv' /\ JTypeOK' /\ WorldInv'
    BY <2>5, MovesInv
  <2>7. WithJob' /\ ~AfterJob' /\ CleaningUp' /\ ~JobFailed' /\ ToCleanUp' \subseteq ToCleanUp
    BY <1>1, <1>2, <2>4, <2>5 DEF At, WithJob, AfterJob, CleaningUp, JobFailed, ToCleanUp, Kept
  <2>8. ScanInv'
    BY <1>1, <1>2, <2>4, <2>5 DEF At, JInv, ScanInv, Kept
  <2>9. JobInv'
    <3>1. scan.op = count => state[count] = "running"
      BY <1>1, <2>2 DEF JInv, JobInv
    <3>. QED
      BY <1>1, <1>2, <2>1, <2>2, <2>3, <2>4, <2>5, <2>7, <3>1 DEF At, JobInv, Kept, Run
  <2>10. CleanupInv'
    <3>1. LosesNothing'
      BY <2>5, <2>7, CleanupCarried
    <3>. QED
      BY <2>4, <2>5, <2>7, <3>1 DEF At, CleanupInv, Kept
  <2>11. StoppedInv'
    <3>1. \A r \in Runs : r[2] # scan.op => Quiet(r)'
      BY <1>1, <2>5, Carried, RunFacts DEF JInv, StoppedInv
    <3>. QED
      BY <2>4, <2>7, <3>1 DEF At, StoppedInv
  <2>12. LockInv'
    BY <1>1, <2>4, <2>5, Carried DEF At, LockInv
  <2>. QED
    BY <2>6, <2>8, <2>9, <2>10, <2>11, <2>12 DEF JInv
<1>. QED
  BY <1>4, <1>5 DEF NextJob

(* While a job is prepared, started or awaited, no cleanup is pending.       *)
LEMMA JobStage ==
    ASSUME JInv, scan.pc \in {"job", "await", "start", "starting", "wait"}
    PROVE  /\ WithJob /\ ~JobFailed /\ ~CleaningUp /\ ~AfterJob /\ cleanup = {}
           /\ scan.job \in Jobs /\ Run \notin recorded /\ Run \in Runs
           /\ \A k \in Jobs : k < scan.job => <<k, scan.op>> \in recorded
           /\ kind[scan.op] = "deploy" /\ target[scan.op] = scan.op
           /\ scan.op = count => state[count] = "running"
           /\ \A r \in Runs : r[2] # scan.op => Quiet(r)
<1>1. WithJob /\ ~JobFailed /\ ~CleaningUp /\ ~AfterJob /\ scan.pc # "idle"
  BY DEF WithJob, JobFailed, CleaningUp, AfterJob
<1>2. cleanup = {}
  BY <1>1 DEF JInv, CleanupInv
<1>3. /\ scan.job \in Jobs /\ Run \notin recorded
      /\ \A k \in Jobs : k < scan.job => <<k, scan.op>> \in recorded
      /\ kind[scan.op] = "deploy" /\ target[scan.op] = scan.op
      /\ scan.op = count => state[count] = "running"
  BY <1>1 DEF JInv, JobInv
<1>4. Run \in Runs
  BY <1>1, <1>3, ScannedRow, RunFacts DEF Run
<1>5. \A r \in Runs : r[2] # scan.op => Quiet(r)
  BY <1>1 DEF JInv, StoppedInv
<1>. QED
  BY <1>1, <1>2, <1>3, <1>4, <1>5

(* A step between these stages, or to the record of the run.                 *)
LEMMA JobMoves ==
    ASSUME JInv, scan.pc \in {"job", "await", "start", "starting", "wait"},
           UNCHANGED storeVars, UNCHANGED <<daemon, recorded, done, ended, repair>>,
           budget' \in 0 .. Disturbances,
           NEW removed, Calm(removed), Safe(removed),
           NEW l \in {"job", "await", "start", "wait", "record"}, NEW s, NEW res,
           At(l, scan.job, scan.cancelled, scan.back, scan.pending, s, res),
           res = "job" => scan.result = "job",
           l = "record" => \/ res \in {"yield", "retryable"}
                           \/ res = "ok" /\ docker[Run].exit = "ok"
    PROVE  JInv'
<1>1. Moves(removed) /\ Kept
  BY ScanTyped, ScanMoves DEF At
<1>2. WithJob /\ ~JobFailed /\ ~CleaningUp /\ cleanup = {}
  BY JobStage
<1>3. ~CleaningUp' /\ ~AfterJob' /\ ToCleanUp' \subseteq ToCleanUp
  BY <1>1, <1>2 DEF At, CleaningUp, AfterJob, ToCleanUp, Kept
<1>4. scan.cancelled => scan.op # count
  BY ScannedRow
<1>5. scan.pc # "idle"
  OBVIOUS
<1>. QED
  BY <1>1, <1>2, <1>3, <1>4, <1>5, SameStage DEF At, Kept

LEMMA PrepareJobInv ==
    ASSUME JInv, PrepareJob
    PROVE  JInv'
<1>1. /\ scan.pc = "job" /\ scan.pc # "idle" /\ UNCHANGED storeVars
      /\ UNCHANGED <<daemon, recorded, done, ended, repair>>
      /\ daemon' = daemon /\ recorded' = recorded /\ done' = done /\ ended' = ended
      /\ repair' = repair /\ budget' \in 0 .. Disturbances
  BY ScanTyped DEF PrepareJob
<1>2. CASE docker' = WithoutServices({App}) /\ UNCHANGED scan
  <2>1. Calm({App})
    BY <1>2, WithoutCalm
  <2>2. Safe({App})
    BY RunFacts DEF Safe
  <2>3. At("job", scan.job, scan.cancelled, scan.back, scan.pending, scan.step, scan.result)
    BY <1>1, <1>2, ScanTyped DEF At
  <2>. QED
    BY <1>1, <2>1, <2>2, <2>3, JobMoves
<1>3. CASE EndWith("yield") /\ UNCHANGED docker
  <2>1. At("settle", scan.job, scan.cancelled, scan.back, scan.pending, scan.step, "yield")
    BY <1>3, EndWithAt
  <2>. QED
    BY <1>1, <1>3, <2>1, EndsInv
<1>4. CASE GoTo("await") /\ UNCHANGED docker
  <2>1. At("await", scan.job, scan.cancelled, scan.back, scan.pending, scan.step, scan.result)
    BY <1>4, GoToAt DEF ScanPc
  <2>2. Calm({}) /\ Safe({})
    BY <1>4, StillCalm DEF Safe
  <2>. QED
    BY <1>1, <2>1, <2>2, JobMoves
<1>. QED
  BY <1>2, <1>3, <1>4, Zenon DEF PrepareJob

LEMMA AwaitStoppedInv ==
    ASSUME JInv, AwaitStopped
    PROVE  JInv'
<1>1. /\ scan.pc = "await" /\ UNCHANGED storeVars
      /\ UNCHANGED <<daemon, recorded, done, ended, repair>>
      /\ docker' = docker /\ budget' \in 0 .. Disturbances
  BY ScanTyped DEF AwaitStopped
<1>2. Calm({}) /\ Safe({})
  BY <1>1, StillCalm DEF Safe
<1>3. CASE GoTo("start")
  <2>1. At("start", scan.job, scan.cancelled, scan.back, scan.pending, scan.step, scan.result)
    BY <1>3, GoToAt DEF ScanPc
  <2>. QED
    BY <1>1, <1>2, <2>1, JobMoves
<1>4. CASE scan' = [scan EXCEPT !.pc = "record", !.result = "yield"]
  <2>1. At("record", scan.job, scan.cancelled, scan.back, scan.pending, scan.step, "yield")
    BY <1>4, ResultAt DEF ScanPc
  <2>. QED
    BY <1>1, <1>2, <2>1, JobMoves
<1>. QED
  BY <1>3, <1>4 DEF AwaitStopped

LEMMA StartJobInv ==
    ASSUME JInv, StartJob
    PROVE  JInv'
<1>1. /\ scan.pc = "start" /\ scan.pc # "idle" /\ UNCHANGED storeVars
      /\ UNCHANGED <<daemon, recorded, done, ended, repair>>
      /\ daemon' = daemon /\ recorded' = recorded /\ done' = done /\ ended' = ended
      /\ repair' = repair /\ budget' \in 0 .. Disturbances
  BY ScanTyped DEF StartJob
<1>2. CASE GoTo("wait") /\ UNCHANGED docker
  <2>1. At("wait", scan.job, scan.cancelled, scan.back, scan.pending, scan.step, scan.result)
    BY <1>2, GoToAt DEF ScanPc
  <2>2. Calm({}) /\ Safe({})
    BY <1>2, StillCalm DEF Safe
  <2>. QED
    BY <1>1, <2>1, <2>2, JobMoves
<1>3. CASE scan' = [scan EXCEPT !.pc = "record", !.result = "yield"] /\ UNCHANGED docker
  <2>1. At("record", scan.job, scan.cancelled, scan.back, scan.pending, scan.step, "yield")
    BY <1>3, ResultAt DEF ScanPc
  <2>2. Calm({}) /\ Safe({})
    BY <1>3, StillCalm DEF Safe
  <2>. QED
    BY <1>1, <2>1, <2>2, JobMoves
<1>4. CASE /\ MayWrite /\ ~Resumes(Run)
           /\ docker' = WithoutServices({<<scan.job, o>> : o \in Ops})
           /\ scan' = [scan EXCEPT !.pc = "starting", !.step = 1]
  <2>. DEFINE rs == {<<scan.job, o>> : o \in Ops}
  <2>1. At("starting", scan.job, scan.cancelled, scan.back, scan.pending, 1, scan.result)
    <3>1. 1 \in (0 .. 6) \cup Ops /\ "starting" \in ScanPc
      BY DEF ScanPc
    <3>. QED
      BY <1>4, <3>1, StepAt
  <2>2. Calm(rs) /\ \A u \in Units : u \in rs => ~docker'[u].svc
    BY <1>4, WithoutCalm
  <2>3. /\ scan.op = count /\ state[count] = "running" /\ live /\ repair = 0
        /\ scan.op \in Ops
    BY <1>1, <1>4, ScannedRow DEF MayWrite, Current, LockFree
  <2>4. /\ WithJob /\ ~JobFailed /\ ~CleaningUp /\ ~AfterJob /\ cleanup = {}
        /\ scan.job \in Jobs /\ Run \notin recorded /\ Run \in Runs
        /\ \A k \in Jobs : k < scan.job => <<k, scan.op>> \in recorded
        /\ kind[scan.op] = "deploy" /\ target[scan.op] = scan.op
        /\ \A r \in Runs : r[2] # scan.op => Quiet(r)
    BY <1>1, JobStage
  <2>5. Run \notin done \/ scan.op \in ended
    <3>1. Run \in done =>
              \/ scan.op \in ended
              \/ docker[Run].exit = "ok" /\ docker[Run].svc
      BY <2>3, <2>4, RunFacts DEF JInv, WorldInv, Run
    <3>2. docker[Run].exit = "ok" /\ docker[Run].svc => Resumes(Run)
      BY DEF Resumes, Resumable, Status
    <3>. QED
      BY <1>4, <3>1, <3>2
  <2>6. Safe(rs)
    <3>1. \A r \in rs : r[2] = count => r = Run
      BY <2>3 DEF Run
    <3>. QED
      BY <1>1, <2>3, <2>5, <3>1 DEF Safe
  <2>7. Moves(rs) /\ Kept
    <3>. HIDE DEF rs
    <3>. QED
      BY <1>1, <2>1, <2>2, <2>6, ScanTyped, ScanMoves DEF At
  <2>8. StoreInv' /\ JTypeOK' /\ WorldInv'
    BY <2>7, MovesInv
  <2>9. WithJob' /\ ~AfterJob' /\ ~CleaningUp' /\ ~JobFailed' /\ ToCleanUp' = {} /\ Run' = Run
    BY <2>1, <2>4, <2>7 DEF At, WithJob, AfterJob, CleaningUp, JobFailed, ToCleanUp, Kept, Run
  <2>10. ScanInv'
    <3>1. Len(CheckStart(scan'.job)) \in Nat
      BY DEF CheckStart
    <3>2. 1 \in 1 .. Len(CheckStart(scan'.job)) + 1
      BY <3>1
    <3>. QED
      BY <1>1, <2>1, <2>3, <2>7, <3>2, ScannedRow DEF At, JInv, ScanInv, Kept, CheckStart
  <2>11. JobInv'
    <3>1. scan.result = "job" => scan.op \in ended
      BY DEF JInv, JobInv
    <3>. QED
      BY <1>1, <2>1, <2>3, <2>4, <2>7, <2>9, <3>1 DEF At, JobInv, Kept
  <2>12. CleanupInv'
    <3>1. LosesNothing'
      BY <2>9 DEF LosesNothing
    <3>. QED
      BY <2>4, <2>7, <2>9, <3>1 DEF CleanupInv, Kept
  <2>13. StoppedInv'
    <3>1. \A r \in Runs : r[2] # scan.op => Quiet(r)'
      BY <2>4, <2>7, Carried, RunFacts
    <3>. QED
      BY <2>1, <2>9, <3>1 DEF At, StoppedInv
  <2>14. LockInv'
    <3>1. \A o \in Ops : <<scan.job, o>> \in Units /\ <<scan.job, o>> \in rs
      BY <2>4, RunFacts
    <3>2. \A o \in Ops : ~docker'[<<scan.job, o>>].svc
      BY <2>2, <3>1
    <3>3. Checked(repair)'
      BY <1>1, <2>7, Carried
    <3>. QED
      BY <1>1, <2>1, <2>5, <2>9, <3>2, <3>3 DEF At, LockInv
  <2>. QED
    BY <2>8, <2>10, <2>11, <2>12, <2>13, <2>14 DEF JInv
<1>. QED
  BY <1>2, <1>3, <1>4, Zenon DEF StartJob

-----------------------------------------------------------------------------
(* The checks before a creation *)

LEMMA CheckStartReads ==
    ASSUME NEW j
    PROVE  /\ Len(CheckStart(j)) \in {2, 5} /\ (j \in Exclusive => Len(CheckStart(j)) = 5)
           /\ CheckStart(j)[1] = <<"job", "task">> /\ CheckStart(j)[2] = <<"job", "ctr">>
           /\ Len(CheckStart(j)) = 5 => /\ CheckStart(j)[3] = <<"app", "svc">>
                                        /\ CheckStart(j)[4] = <<"holders", "task">>
                                        /\ CheckStart(j)[5] = <<"holders", "ctr">>
<1>1. CASE j \in Exclusive
  <2>1. ASSUME NEW a, NEW b, NEW c, NEW d, NEW e
        PROVE  /\ Len(<<a, b>> \o <<c, d, e>>) = 5
               /\ (<<a, b>> \o <<c, d, e>>)[1] = a /\ (<<a, b>> \o <<c, d, e>>)[2] = b
               /\ (<<a, b>> \o <<c, d, e>>)[3] = c /\ (<<a, b>> \o <<c, d, e>>)[4] = d
               /\ (<<a, b>> \o <<c, d, e>>)[5] = e
    OBVIOUS
  <2>2. CheckStart(j) = << <<"job", "task">>, <<"job", "ctr">> >>
                          \o << <<"app", "svc">>, <<"holders", "task">>, <<"holders", "ctr">> >>
    BY <1>1, Zenon DEF CheckStart
  <2>. QED
    BY <1>1, <2>1, <2>2
<1>2. CASE j \notin Exclusive
  <2>1. CheckStart(j) = << <<"job", "task">>, <<"job", "ctr">> >>
    BY <1>2 DEF CheckStart
  <2>. QED
    BY <1>2, <2>1
<1>. QED
  BY <1>1, <1>2

LEMMA CheckVolumesReads ==
    /\ Len(CheckVolumesFree) = 3
    /\ CheckVolumesFree[1] = <<"writers", "svc">>
    /\ CheckVolumesFree[2] = <<"writers", "task">>
    /\ CheckVolumesFree[3] = <<"writers", "ctr">>
BY DEF CheckVolumesFree

LEMMA FindsOf ==
    ASSUME NEW j
    PROVE  /\ ~Finds(<<"job", "task">>, j) => \A o \in Ops : ~docker[<<j, o>>].task
           /\ ~Finds(<<"job", "ctr">>, j) => \A o \in Ops : ~docker[<<j, o>>].ctr
           /\ ~Finds(<<"app", "svc">>, j) => ~docker[App].svc
           /\ ~Finds(<<"holders", "task">>, j) => \A u \in Units : ~docker[u].task
           /\ ~Finds(<<"holders", "ctr">>, j) => \A u \in Units : ~docker[u].ctr
           /\ ~Finds(<<"writers", "svc">>, j) =>
                  \A r \in Runs : r[1] \in Exclusive => ~docker[r].svc
           /\ ~Finds(<<"writers", "task">>, j) =>
                  \A r \in Runs : r[1] \in Exclusive => ~docker[r].task
           /\ ~Finds(<<"writers", "ctr">>, j) =>
                  \A r \in Runs : r[1] \in Exclusive => ~docker[r].ctr
BY DEF Finds

(* One more read of a check of the application's volume.                     *)
LEMMA CheckedRead ==
    ASSUME NEW s \in 1 .. 3, Checked(s), ~Finds(CheckVolumesFree[s], 0)
    PROVE  Checked(s + 1)
BY CheckVolumesReads, FindsOf DEF Checked

(* What a read of create_job adds to what is known under the lock.           *)
LEMMA StartRead ==
    ASSUME JInv, scan.pc = "starting", scan.step <= Len(CheckStart(scan.job)),
           ~Finds(CheckStart(scan.job)[scan.step], scan.job),
           docker' = docker, done' = done, ended' = ended, repair' = repair,
           At("starting", scan.job, scan.cancelled, scan.back, scan.pending, scan.step + 1,
              scan.result)
    PROVE  LockInv'
<1>1. scan.job \in Jobs /\ Run \in Runs
  BY JobStage
<1>2. Len(CheckStart(scan.job)) \in {2, 5} /\ scan.step \in 1 .. Len(CheckStart(scan.job))
  BY CheckStartReads DEF JInv, ScanInv
<1>3. /\ Run \notin done \/ scan.op \in ended
      /\ \A o \in Ops :
             /\ ~docker[<<scan.job, o>>].svc
             /\ scan.step > 1 => ~docker[<<scan.job, o>>].task
             /\ scan.step > 2 => ~docker[<<scan.job, o>>].ctr
      /\ scan.step > 3 => ~docker[App].svc
      /\ scan.step > 4 => ~docker[App].task
      /\ scan.step > 5 => ~docker[App].ctr
      /\ Checked(repair)
  BY DEF JInv, LockInv
<1>4. Checked(repair)'
  BY <1>3 DEF Checked
<1>5. /\ scan'.pc = "starting" /\ scan'.job = scan.job /\ scan'.op = scan.op
      /\ scan'.step = scan.step + 1
  BY DEF At
<1>6. /\ scan.step + 1 > 1 => \A o \in Ops : ~docker[<<scan.job, o>>].task
      /\ scan.step + 1 > 2 => \A o \in Ops : ~docker[<<scan.job, o>>].ctr
      /\ scan.step + 1 > 3 => ~docker[App].svc
      /\ scan.step + 1 > 4 => ~docker[App].task
      /\ scan.step + 1 > 5 => ~docker[App].ctr
  <2>1. CASE scan.step = 1
    <3>1. ~Finds(<<"job", "task">>, scan.job)
      BY <1>2, <2>1, CheckStartReads
    <3>2. \A o \in Ops : ~docker[<<scan.job, o>>].task
      BY <3>1, FindsOf
    <3>. QED
      BY <1>3, <2>1, <3>2
  <2>2. CASE scan.step = 2
    <3>1. ~Finds(<<"job", "ctr">>, scan.job)
      BY <1>2, <2>2, CheckStartReads
    <3>2. \A o \in Ops : ~docker[<<scan.job, o>>].ctr
      BY <3>1, FindsOf
    <3>. QED
      BY <1>3, <2>2, <3>2
  <2>3. CASE scan.step = 3
    <3>1. ~Finds(<<"app", "svc">>, scan.job)
      BY <1>2, <2>3, CheckStartReads
    <3>2. ~docker[App].svc
      BY <3>1, FindsOf
    <3>. QED
      BY <1>3, <2>3, <3>2
  <2>4. CASE scan.step = 4
    <3>1. ~Finds(<<"holders", "task">>, scan.job)
      BY <1>2, <2>4, CheckStartReads
    <3>2. ~docker[App].task
      BY <3>1, FindsOf, RunFacts
    <3>. QED
      BY <1>3, <2>4, <3>2
  <2>5. CASE scan.step = 5
    <3>1. ~Finds(<<"holders", "ctr">>, scan.job)
      BY <1>2, <2>5, CheckStartReads
    <3>2. ~docker[App].ctr
      BY <3>1, FindsOf, RunFacts
    <3>. QED
      BY <1>3, <2>5, <3>2
  <2>. QED
    BY <1>2, <2>1, <2>2, <2>3, <2>4, <2>5
<1>7. Run' = Run
  BY <1>5 DEF Run
<1>. QED
  BY <1>3, <1>4, <1>5, <1>6, <1>7 DEF LockInv

LEMMA CreateJobInv ==
    ASSUME JInv, CreateJob
    PROVE  JInv'
<1>. DEFINE reads == CheckStart(scan.job)
<1>1. /\ scan.pc = "starting" /\ scan.pc # "idle" /\ UNCHANGED storeVars
      /\ UNCHANGED <<daemon, recorded, done, ended, repair>>
      /\ daemon' = daemon /\ recorded' = recorded /\ done' = done /\ ended' = ended
      /\ repair' = repair /\ budget' = budget /\ budget' \in 0 .. Disturbances
  BY ScanTyped DEF CreateJob
<1>2. Len(reads) \in {2, 5} /\ scan.step \in 1 .. Len(reads) + 1 /\ repair = 0
  BY <1>1, CheckStartReads DEF JInv, ScanInv
<1>3. /\ WithJob /\ ~JobFailed /\ ~CleaningUp /\ ~AfterJob /\ cleanup = {}
      /\ scan.job \in Jobs /\ Run \notin recorded /\ Run \in Runs
      /\ \A k \in Jobs : k < scan.job => <<k, scan.op>> \in recorded
      /\ kind[scan.op] = "deploy" /\ target[scan.op] = scan.op
      /\ scan.op = count => state[count] = "running"
      /\ \A r \in Runs : r[2] # scan.op => Quiet(r)
  BY <1>1, JobStage
<1>4. /\ scan.op \in Ops /\ scan.op <= count /\ live
      /\ scan.cancelled => scan.op # count
      /\ scan.result = "job" => scan.op \in ended
  BY <1>1, ScannedRow
<1>5. ASSUME scan.step <= Len(reads), Finds(reads[scan.step], scan.job), docker' = docker,
             scan' = [scan EXCEPT !.pc = "start", !.step = 0]
      PROVE  JInv'
  <2>1. At("start", scan.job, scan.cancelled, scan.back, scan.pending, 0, scan.result)
    <3>1. 0 \in (0 .. 6) \cup Ops /\ "start" \in ScanPc
      BY DEF ScanPc
    <3>. QED
      BY <1>5, <3>1, StepAt
  <2>2. Calm({}) /\ Safe({})
    BY <1>5, StillCalm DEF Safe
  <2>. QED
    BY <1>1, <2>1, <2>2, JobMoves
<1>6. ASSUME scan.step <= Len(reads), ~Finds(reads[scan.step], scan.job), docker' = docker,
             scan' = [scan EXCEPT !.step = scan.step + 1]
      PROVE  JInv'
  <2>1. At("starting", scan.job, scan.cancelled, scan.back, scan.pending, scan.step + 1, scan.result)
    <3>1. scan.step + 1 \in (0 .. 6) \cup Ops
      BY <1>2, <1>6
    <3>. QED
      BY <1>1, <1>6, <3>1, ReadAt
  <2>2. Calm({}) /\ Safe({})
    BY <1>6, StillCalm DEF Safe
  <2>3. Moves({}) /\ Kept
    BY <1>1, <2>1, <2>2, ScanTyped, ScanMoves DEF At
  <2>4. StoreInv' /\ JTypeOK' /\ WorldInv'
    BY <2>3, MovesInv
  <2>5. WithJob' /\ ~AfterJob' /\ ~CleaningUp' /\ ~JobFailed' /\ ToCleanUp' = {} /\ Run' = Run
    BY <1>3, <2>1, <2>3 DEF At, WithJob, AfterJob, CleaningUp, JobFailed, ToCleanUp, Kept, Run
  <2>6. ScanInv'
    <3>1. scan.step + 1 \in 1 .. Len(CheckStart(scan.job)) + 1
      BY <1>2, <1>6
    <3>. QED
      BY <1>1, <1>2, <1>4, <2>1, <2>3, <3>1 DEF At, JInv, ScanInv, Kept, CheckStart
  <2>7. JobInv'
    BY <1>1, <1>3, <1>4, <2>1, <2>3, <2>5 DEF At, JobInv, Kept
  <2>8. CleanupInv'
    BY <1>3, <2>3, <2>5 DEF CleanupInv, LosesNothing, Kept
  <2>9. StoppedInv'
    <3>1. \A r \in Runs : r[2] # scan.op => Quiet(r)'
      BY <1>3, <2>3, Carried, RunFacts
    <3>. QED
      BY <2>1, <2>5, <3>1 DEF At, StoppedInv
  <2>10. LockInv'
    BY <1>1, <1>6, <2>1, StartRead
  <2>. QED
    BY <2>4, <2>6, <2>7, <2>8, <2>9, <2>10 DEF JInv
<1>7. ASSUME scan.step > Len(reads), docker' = [docker EXCEPT ![Run] = Created],
             scan' = [scan EXCEPT !.pc = "wait", !.step = 0]
      PROVE  JInv'
  <2>1. At("wait", scan.job, scan.cancelled, scan.back, scan.pending, 0, scan.result)
    <3>1. 0 \in (0 .. 6) \cup Ops /\ "wait" \in ScanPc
      BY DEF ScanPc
    <3>. QED
      BY <1>7, <3>1, StepAt
  <2>2. StoreInv' /\ Kept
    BY <1>1, ScanTyped, KeptRows
  <2>3. /\ docker' \in [Units -> UnitRecord] /\ docker'[Run] = Created
        /\ \A u \in Units : u # Run => docker'[u] = docker[u]
    BY <1>3, <1>7, RunFacts, GoneFacts, OneUnit
  <2>4. /\ Run \notin done \/ scan.op \in ended
        /\ \A o \in Ops : ~docker[<<scan.job, o>>].svc
        /\ scan.job \in Exclusive => Quiet(App)
    <3>1. scan.job \in Exclusive => scan.step > 5
      BY <1>2, <1>7, CheckStartReads
    <3>. QED
      BY <1>1, <1>2, <3>1 DEF JInv, LockInv, Quiet
  <2>5. Run[1] = scan.job /\ Run[2] = scan.op /\ Run # App /\ App \in Units
    BY <1>3, RunFacts DEF Run
  <2>6. JTypeOK'
    <3>1. ASSUME NEW r \in Runs, NEW q \in Runs, docker'[r].svc, docker'[q].svc, r[1] = q[1]
          PROVE  r = q
      <4>1. \A p \in Runs : p[1] = scan.job => ~docker[p].svc
        BY <2>4, RunFacts
      <4>2. CASE r = Run
        BY <2>3, <2>5, <3>1, <4>1, <4>2, RunFacts
      <4>3. CASE q = Run
        BY <2>3, <2>5, <3>1, <4>1, <4>3, RunFacts
      <4>4. CASE r # Run /\ q # Run
        BY <2>3, <3>1, <4>4, RunFacts DEF JInv, JTypeOK
      <4>. QED
        BY <4>2, <4>3, <4>4
    <3>2. scan' \in ScanRecord
      BY <2>1 DEF At
    <3>. HIDE DEF ScanPc
    <3>. QED
      BY <1>1, <2>3, <3>1, <3>2, ScanTyped DEF JTypeOK, ScanRecord, UnitRecord
  <2>7. WithJob' /\ ~AfterJob' /\ ~CleaningUp' /\ ~JobFailed' /\ ToCleanUp' = {} /\ Run' = Run
    BY <1>3, <2>1, <2>2 DEF At, WithJob, AfterJob, CleaningUp, JobFailed, ToCleanUp, Kept, Run
  <2>8. ScanInv'
    BY <1>1, <1>2, <1>4, <2>1, <2>2 DEF At, JInv, ScanInv, Kept
  <2>9. JobInv'
    BY <1>1, <1>3, <1>4, <2>1, <2>2, <2>7 DEF At, JobInv, Kept
  <2>10. CleanupInv'
    BY <1>3, <2>2, <2>7 DEF CleanupInv, LosesNothing, Kept
  <2>11. StoppedInv'
    <3>1. \A r \in Runs : r[2] # scan.op => Quiet(r)'
      BY <1>3, <2>3, <2>5, RunFacts DEF Quiet
    <3>. QED
      BY <2>1, <2>7, <3>1 DEF At, StoppedInv
  <2>12. LockInv'
    BY <1>1, <1>2, <2>1 DEF At, LockInv, Checked
  <2>13. WorldInv'
    <3>1. \A o \in promoted' : kind'[o] = "deploy"
      BY <2>2, ScanTyped DEF Kept
    <3>2. ASSUME NEW r \in Runs, r # Run
          PROVE  /\ docker'[r] = docker[r] /\ Quiet(r)' = Quiet(r)
                 /\ Quiet(App)' = Quiet(App)
      BY <2>3, <2>5, <3>2, RunFacts DEF Quiet
    <3>3. ASSUME NEW r \in Runs
          PROVE  /\ docker'[r].exit # "none" => ~docker'[r].task /\ ~docker'[r].ctr
                 /\ docker'[r].exit = "ok" => r \in done'
                 /\ r \in recorded' => docker'[r].exit = "ok"
                 /\ docker'[r] # Gone => \A k \in Jobs : k < r[1] => <<k, r[2]>> \in recorded'
                 /\ live' /\ docker'[r] # Gone =>
                        kind'[r[2]] = "deploy" /\ target'[r[2]] = r[2] /\ r[2] <= count'
                 /\ live' /\ r \in done' =>
                        \/ r[2] \in ended'
                        \/ r[2] # count'
                        \/ docker'[r].exit = "ok" /\ (r \in recorded' \/ docker'[r].svc)
                 /\ live' /\ r \in done' => r[2] <= count'
                 /\ ~live' => Quiet(r)'
                 /\ r[1] \in Exclusive => Quiet(r)' \/ Quiet(App)'
      <4>1. CASE r = Run
        <5>1. docker'[r].exit = "none"
          BY <2>3, <4>1, GoneFacts
        <5>2. r[1] \in Exclusive => Quiet(App)'
          BY <2>3, <2>4, <2>5, <4>1 DEF Quiet
        <5>. QED
          BY <1>1, <1>3, <1>4, <2>2, <2>4, <2>5, <4>1, <5>1, <5>2 DEF Kept
      <4>2. CASE r # Run
        BY <1>1, <2>2, <3>2, <4>2 DEF JInv, WorldInv, Kept
      <4>. QED
        BY <4>1, <4>2
    <3>. QED
      BY <3>1, <3>3 DEF WorldInv
  <2>. QED
    BY <2>2, <2>6, <2>8, <2>9, <2>10, <2>11, <2>12, <2>13 DEF JInv
<1>8. scan.step \in Nat /\ Len(reads) \in Nat
  BY <1>2
<1>. QED
  BY <1>5, <1>6, <1>7, <1>8 DEF CreateJob

-----------------------------------------------------------------------------
(* The end of a run *)

LEMMA WaitJobInv ==
    ASSUME JInv, WaitJob
    PROVE  JInv'
<1>1. /\ scan.pc = "wait" /\ scan.pc # "idle"
      /\ UNCHANGED <<daemon, recorded, done, repair>>
      /\ daemon' = daemon /\ recorded' = recorded /\ done' = done
      /\ repair' = repair /\ docker' = docker
  BY DEF WaitJob
<1>2. Calm({}) /\ Safe({})
  BY <1>1, StillCalm DEF Safe
<1>3. CASE /\ Status(Run) = "ok"
           /\ scan' = [scan EXCEPT !.pc = "record", !.result = "ok"]
           /\ UNCHANGED <<storeVars, ended, budget>>
  <2>1. At("record", scan.job, scan.cancelled, scan.back, scan.pending, scan.step, "ok")
    BY <1>3, ResultAt DEF ScanPc
  <2>2. docker[Run].exit = "ok"
    BY <1>3 DEF Status
  <2>. QED
    BY <1>1, <1>2, <1>3, <2>1, <2>2, ScanTyped, JobMoves
<1>4. CASE /\ scan' = [scan EXCEPT !.pc = "record", !.result = "yield"]
           /\ UNCHANGED <<storeVars, ended, budget>>
  <2>1. At("record", scan.job, scan.cancelled, scan.back, scan.pending, scan.step, "yield")
    BY <1>4, ResultAt DEF ScanPc
  <2>. QED
    BY <1>1, <1>2, <1>4, <2>1, ScanTyped, JobMoves
<1>5. CASE /\ Disturb \/ UNCHANGED budget
           /\ TransitionOperation(scan.op, "running", "failed", "job")
           /\ ended' = ended \cup {scan.op}
           /\ scan' = [scan EXCEPT !.pc = "record", !.result = "job"]
  <2>1. At("record", scan.job, scan.cancelled, scan.back, scan.pending, scan.step, "job")
    BY <1>5, ResultAt, JobErrorsAssumption DEF ScanPc
  <2>2. /\ scan.op \in Ops /\ scan.op <= count /\ live
        /\ scan.cancelled => scan.op # count
    BY <1>1, ScannedRow
  <2>3. StoreInv'
    BY <1>5, <2>2, StepInv, ScanTyped, JobErrorsAssumption DEF StoreNext, Execute
  <2>4. /\ RowsStill
        /\ live' = live /\ count' = count /\ kind' = kind /\ target' = target
        /\ promoted' = promoted /\ cleanup' \subseteq cleanup \cup {scan.op}
    BY <1>5, <2>2, StateRows, ScanTyped
  <2>5. Moves({})
    <3>1. \A o \in promoted' : kind'[o] = "deploy"
      BY <2>4, ScanTyped
    <3>2. ended \subseteq ended' /\ ended' \in SUBSET Ops
      BY <1>5, <2>2, ScanTyped
    <3>. QED
      BY <1>1, <1>5, <2>1, <2>3, <2>4, <3>1, <3>2, DisturbType, ScanTyped, RowMoves DEF At
  <2>6. /\ WithJob /\ ~JobFailed /\ ~CleaningUp /\ ~AfterJob /\ cleanup = {}
        /\ scan.job \in Jobs /\ Run \notin recorded /\ Run \in Runs
        /\ \A k \in Jobs : k < scan.job => <<k, scan.op>> \in recorded
        /\ kind[scan.op] = "deploy" /\ target[scan.op] = scan.op
        /\ \A r \in Runs : r[2] # scan.op => Quiet(r)
    BY <1>1, JobStage
  <2>7. StoreInv' /\ JTypeOK' /\ WorldInv'
    BY <2>5, MovesInv
  <2>8. WithJob' /\ ~AfterJob' /\ ~CleaningUp' /\ JobFailed' /\ ToCleanUp' = cleanup' /\ Run' = Run
    BY <2>1 DEF At, WithJob, AfterJob, CleaningUp, JobFailed, ToCleanUp, Run
  <2>9. ScanInv'
    BY <1>1, <2>1, <2>2, <2>4 DEF At, JInv, ScanInv
  <2>10. JobInv'
    BY <1>1, <1>5, <2>1, <2>4, <2>6, <2>8 DEF At, JobInv
  <2>11. CleanupInv'
    <3>1. LosesNothing'
      BY <1>5, <2>2, <2>4, <2>5, <2>6, <2>8, CleanupCarried
    <3>. QED
      BY <2>8, <3>1 DEF CleanupInv
  <2>12. StoppedInv'
    <3>1. \A r \in Runs : r[2] # scan.op => Quiet(r)'
      BY <2>5, <2>6, Carried, RunFacts
    <3>. QED
      BY <2>1, <2>8, <3>1 DEF At, StoppedInv
  <2>13. LockInv'
    BY <1>1, <2>1, <2>5, Carried DEF At, LockInv
  <2>. QED
    BY <2>7, <2>9, <2>10, <2>11, <2>12, <2>13 DEF JInv
<1>. QED
  BY <1>3, <1>4, <1>5, Zenon DEF WaitJob

(* A failure that is retried.                                                *)
LEMMA FailAttemptInv ==
    ASSUME JInv, FailAttempt, UNCHANGED storeVars,
           UNCHANGED <<daemon, docker, recorded, done, ended, repair>>,
           budget' \in 0 .. Disturbances,
           scan.pc \in {"jobs", "stale", "staleStopped", "job", "await", "start",
                        "starting", "wait", "rollout", "ensuring"}
    PROVE  JInv'
<1>1. CASE scan.pc \in {"await", "start", "starting", "wait"}
  <2>1. scan' = [scan EXCEPT !.pc = "record", !.result = "retryable", !.step = 0]
    BY <1>1 DEF FailAttempt
  <2>2. At("record", scan.job, scan.cancelled, scan.back, scan.pending, 0, "retryable")
    BY <2>1, FailAt, JobErrorsAssumption DEF ScanPc
  <2>3. Calm({}) /\ Safe({})
    BY StillCalm DEF Safe
  <2>. QED
    BY <1>1, <2>2, <2>3, JobMoves
<1>2. CASE scan.pc \notin {"await", "start", "starting", "wait"}
  <2>1. scan' = [scan EXCEPT !.pc = "settle", !.result = "retryable", !.step = 0]
    BY <1>2 DEF FailAttempt
  <2>2. At("settle", scan.job, scan.cancelled, scan.back, scan.pending, 0, "retryable")
    BY <2>1, FailAt, JobErrorsAssumption DEF ScanPc
  <2>. QED
    BY <2>2, ScanTyped, EndsInv
<1>. QED
  BY <1>1, <1>2

LEMMA ExecutionFailsInv ==
    ASSUME JInv, ExecutionFails \/ AttemptsRunOut
    PROVE  JInv'
<1>1. budget' \in 0 .. Disturbances
  BY DisturbType DEF ExecutionFails, AttemptsRunOut
<1>. QED
  BY <1>1, FailAttemptInv DEF ExecutionFails, AttemptsRunOut

(* Once a run is recorded, every run of its operation is, or has not begun.  *)
LEMMA RecordedFinishes ==
    ASSUME JInv, scan.pc = "record", scan.result = "ok", docker' = docker,
           recorded' = recorded \cup {Run}, scan'.op = scan.op
    PROVE  Finished(scan.op)'
<1>1. /\ WithJob /\ scan.pc # "idle"
      /\ scan.job \in Jobs /\ Run \notin recorded
      /\ \A k \in Jobs : k < scan.job => <<k, scan.op>> \in recorded
  BY DEF JInv, JobInv, WithJob
<1>2. scan.op \in Ops /\ Run \in Runs /\ Run = <<scan.job, scan.op>>
  BY <1>1, ScannedRow, RunFacts DEF Run
<1>. SUFFICES ASSUME NEW r \in Runs, r[2] = scan.op
     PROVE  r \in recorded' \/ docker'[r] = Gone
  BY DEF Finished, RunsOf
<1>3. r = <<r[1], scan.op>> /\ r[1] \in Jobs
  BY RunFacts
<1>4. r[1] \in Nat /\ scan.job \in Nat
  BY <1>1, <1>3, MaxJobsAssumption DEF Jobs
<1>5. CASE r[1] < scan.job
  BY <1>1, <1>3, <1>5
<1>6. CASE r[1] = scan.job
  BY <1>2, <1>3, <1>6
<1>7. CASE r[1] > scan.job
  <2>1. docker[r] # Gone => <<scan.job, r[2]>> \in recorded
    BY <1>1, <1>4, <1>7 DEF JInv, WorldInv
  <2>. QED
    BY <1>1, <1>2, <2>1
<1>. QED
  BY <1>4, <1>5, <1>6, <1>7

LEMMA RecordRunInv ==
    ASSUME JInv, RecordRun
    PROVE  JInv'
<1>1. /\ scan.pc = "record" /\ scan.pc # "idle" /\ UNCHANGED storeVars
      /\ UNCHANGED <<daemon, docker, done, ended, repair>>
      /\ daemon' = daemon /\ docker' = docker /\ done' = done /\ ended' = ended
      /\ repair' = repair
  BY DEF RecordRun
<1>2. /\ scan.op \in Ops /\ scan.op <= count /\ live
      /\ scan.cancelled => scan.op # count
      /\ scan.result = "job" => scan.op \in ended
      /\ \A o \in cleanup : o \in ToCleanUp
  BY <1>1, ScannedRow
<1>3. /\ WithJob /\ ~CleaningUp
      /\ scan.job \in Jobs /\ Run \notin recorded
      /\ kind[scan.op] = "deploy" /\ target[scan.op] = scan.op
      /\ scan.result \in {"ok", "job", "yield", "retryable"}
      /\ scan.result = "ok" => docker[Run].exit = "ok"
      /\ scan.op = count /\ scan.result # "job" => state[count] = "running"
      /\ \A r \in Runs : r[2] # scan.op => Quiet(r)
  <2>1. WithJob /\ ~CleaningUp /\ (scan.result # "job" => ~JobFailed)
    BY <1>1 DEF WithJob, CleaningUp, JobFailed
  <2>. QED
    BY <1>1, <2>1 DEF JInv, JobInv, StoppedInv
<1>4. Run \in Runs
  BY <1>2, <1>3, RunFacts DEF Run
<1>5. ASSUME recorded' \in {recorded, recorded \cup SucceedingRun}
      PROVE  /\ recorded \subseteq recorded'
             /\ \A r \in recorded' : r \in recorded \/ (r \in Runs /\ docker[r].exit = "ok")
  BY <1>3, <1>4, <1>5 DEF SucceedingRun
<1>6. CASE KeepsRun /\ GoTo("settle") /\ UNCHANGED <<recorded, budget>>
  <2>1. At("settle", scan.job, scan.cancelled, scan.back, scan.pending, scan.step, scan.result)
    BY <1>6, GoToAt DEF ScanPc
  <2>2. scan.result # "ok"
    BY <1>6 DEF KeepsRun
  <2>. QED
    BY <1>1, <1>5, <1>6, <2>1, <2>2, ScanTyped, EndsInv
<1>7. CASE /\ Disturb /\ EndWith("retryable")
           /\ recorded' \in {recorded, recorded \cup SucceedingRun}
  <2>1. At("settle", scan.job, scan.cancelled, scan.back, scan.pending, scan.step, "retryable")
    BY <1>7, EndWithAt, JobErrorsAssumption
  <2>. QED
    BY <1>1, <1>5, <1>7, <2>1, DisturbType, EndsInv
<1>8. CASE /\ ~KeepsRun /\ GoTo("request")
           /\ recorded' = recorded \cup SucceedingRun /\ UNCHANGED budget
  <2>1. At("request", scan.job, scan.cancelled, scan.back, scan.pending, scan.step, scan.result)
    BY <1>8, GoToAt DEF ScanPc
  <2>2. StoreInv' /\ Kept /\ RowsStill
    BY <1>1, ScanTyped, KeptRows
  <2>3. Moves({})
    <3>1. Calm({}) /\ Safe({})
      BY <1>1, StillCalm DEF Safe
    <3>2. \A o \in promoted' : kind'[o] = "deploy"
      BY <2>2, ScanTyped DEF Kept
    <3>. QED
      BY <1>1, <1>5, <1>8, <2>1, <2>2, <3>1, <3>2, ScanTyped DEF Moves, At
  <2>4. StoreInv' /\ JTypeOK' /\ WorldInv'
    BY <2>3, MovesInv
  <2>5. ~WithJob' /\ AfterJob' /\ ~CleaningUp' /\ ~JobFailed' /\ ToCleanUp' \subseteq ToCleanUp
    BY <1>3, <2>1, <2>2 DEF At, WithJob, AfterJob, CleaningUp, JobFailed, ToCleanUp, Kept
  <2>6. ScanInv'
    BY <1>1, <1>2, <2>1, <2>2 DEF At, JInv, ScanInv, Kept
  <2>7. JobInv'
    <3>1. scan.result \in {"ok", "job", "yield"}
      BY <1>3, <1>8 DEF KeepsRun
    <3>2. scan.result = "yield" => scan.op # count
      BY <1>2, <1>3, <1>8 DEF KeepsRun, Current
    <3>3. scan.result = "ok" => Finished(scan.op)'
      BY <1>1, <1>8, <2>1, RecordedFinishes DEF SucceedingRun, At
    <3>. QED
      BY <1>1, <1>2, <1>3, <2>1, <2>2, <2>5, <3>1, <3>2, <3>3 DEF At, JobInv, Kept
  <2>8. CleanupInv'
    <3>1. LosesNothing'
      BY <2>3, <2>5, CleanupCarried
    <3>. QED
      BY <2>5, <3>1 DEF CleanupInv
  <2>9. StoppedInv'
    <3>1. \A r \in Runs : r[2] # scan.op => Quiet(r)'
      BY <1>3, <2>3, Carried, RunFacts
    <3>. QED
      BY <2>1, <2>5, <3>1 DEF At, StoppedInv
  <2>10. LockInv'
    BY <1>1, <2>1, <2>3, Carried DEF At, LockInv
  <2>. QED
    BY <2>4, <2>6, <2>7, <2>8, <2>9, <2>10 DEF JInv
<1>. QED
  BY <1>6, <1>7, <1>8, Zenon DEF RecordRun

LEMMA RequestCleanupInv ==
    ASSUME JInv, RequestCleanup
    PROVE  JInv'
<1>1. /\ scan.pc = "request" /\ scan.pc # "idle"
      /\ UNCHANGED <<daemon, recorded, done>>
      /\ daemon' = daemon /\ recorded' = recorded /\ done' = done /\ ended' = ended
      /\ repair' = repair /\ docker' = docker
      /\ scan' = [scan EXCEPT !.pc = "cleanup", !.back = "after", !.pending = {scan.op}]
      /\ budget' \in 0 .. Disturbances
  BY DisturbType DEF RequestCleanup
<1>2. /\ scan.op \in Ops /\ scan.op <= count /\ live
      /\ scan.cancelled => scan.op # count
      /\ scan.result = "job" => scan.op \in ended
      /\ \A o \in cleanup : o \in ToCleanUp
  BY <1>1, ScannedRow
<1>3. At("cleanup", scan.job, scan.cancelled, "after", {scan.op}, scan.step, scan.result)
  BY <1>1, <1>2, BackAt
<1>4. /\ StoreInv' /\ RowsStill
      /\ live' = live /\ count' = count /\ kind' = kind /\ target' = target
      /\ promoted' = promoted /\ state' = state /\ cleanup' \subseteq cleanup \cup {scan.op}
  <2>1. CASE RequestJobCleanup(scan.op)
    BY <1>2, <2>1, CleanupRows, ScanTyped
  <2>2. CASE UNCHANGED storeVars
    BY <2>2, KeptRows, ScanTyped DEF Kept
  <2>. QED
    BY <2>1, <2>2 DEF RequestCleanup
<1>5. Moves({})
  BY <1>1, <1>3, <1>4, ScanTyped, RowMoves DEF At
<1>6. StoreInv' /\ JTypeOK' /\ WorldInv'
  BY <1>5, MovesInv
<1>7. /\ AfterJob /\ kind[scan.op] = "deploy"
      /\ scan.result \in {"ok", "job", "yield"}
      /\ scan.result = "ok" => Finished(scan.op)
      /\ scan.result = "yield" => scan.op # count
      /\ scan.result = "ok" /\ scan.op = count => state[count] = "running"
      /\ \A r \in Runs : r[2] # scan.op => Quiet(r)
  BY <1>1 DEF JInv, JobInv, AfterJob, StoppedInv
<1>8. ~WithJob' /\ AfterJob' /\ CleaningUp' /\ ~JobFailed' /\ ToCleanUp' \subseteq cleanup \cup {scan.op}
  BY <1>3, <1>4 DEF At, WithJob, AfterJob, CleaningUp, JobFailed, ToCleanUp
<1>9. ScanInv'
  BY <1>1, <1>2, <1>3, <1>4 DEF At, JInv, ScanInv
<1>10. JobInv'
  BY <1>1, <1>2, <1>3, <1>4, <1>7, <1>8 DEF At, JobInv
<1>11. CleanupInv'
  <2>1. ASSUME NEW o \in ToCleanUp'
        PROVE  o <= count' /\ (o \in ended' \/ o # count' \/ Finished(o)')
    <3>1. o \in Ops
      BY <1>2, <1>8 DEF JInv, StoreInv, TypeOK
    <3>2. o <= count /\ (o \in ended \/ o # count \/ Finished(o))
      <4>1. CASE o \in cleanup
        BY <1>2, <4>1 DEF JInv, CleanupInv, LosesNothing
      <4>2. CASE o = scan.op
        BY <1>2, <1>7, <4>2
      <4>. QED
        BY <1>8, <4>1, <4>2
    <3>3. Finished(o) => Finished(o)'
      BY <1>5, <3>1, Carried
    <3>. QED
      BY <1>1, <1>4, <3>2, <3>3
  <2>2. LosesNothing'
    BY <2>1 DEF LosesNothing
  <2>. QED
    BY <1>3, <1>8, <2>2 DEF At, CleanupInv
<1>12. StoppedInv'
  <2>1. \A r \in Runs : r[2] # scan.op => Quiet(r)'
    BY <1>5, <1>7, Carried, RunFacts
  <2>. QED
    BY <1>3, <1>8, <2>1 DEF At, StoppedInv
<1>13. LockInv'
  BY <1>1, <1>3, <1>5, Carried DEF At, LockInv
<1>. QED
  BY <1>6, <1>9, <1>10, <1>11, <1>12, <1>13 DEF JInv

LEMMA AfterRunInv ==
    ASSUME JInv, AfterRun
    PROVE  JInv'
<1>1. /\ scan.pc = "after" /\ scan.pc # "idle" /\ UNCHANGED storeVars
      /\ UNCHANGED <<daemon, docker, recorded, done, ended, repair>>
      /\ daemon' = daemon /\ recorded' = recorded /\ done' = done /\ ended' = ended
      /\ repair' = repair /\ docker' = docker /\ budget' \in 0 .. Disturbances
  BY ScanTyped DEF AfterRun
<1>2. CASE scan.result = "ok" /\ GoTo("next")
  <2>1. At("next", scan.job, scan.cancelled, scan.back, scan.pending, scan.step, scan.result)
    BY <1>2, GoToAt DEF ScanPc
  <2>2. Calm({}) /\ Safe({})
    BY <1>1, StillCalm DEF Safe
  <2>3. Moves({}) /\ Kept
    BY <1>1, <2>1, <2>2, ScanTyped, ScanMoves DEF At
  <2>4. /\ AfterJob /\ ~CleaningUp
        /\ ~WithJob' /\ ~AfterJob' /\ ~CleaningUp' /\ ToCleanUp' \subseteq ToCleanUp
    BY <1>1, <2>1, <2>3 DEF At, WithJob, AfterJob, CleaningUp, ToCleanUp, Kept
  <2>5. scan.cancelled => scan.op # count
    BY <1>1, ScannedRow
  <2>. QED
    BY <1>1, <1>2, <2>1, <2>3, <2>4, <2>5, SameStage DEF At, Kept
<1>3. CASE scan.result # "ok" /\ GoTo("settle")
  <2>1. At("settle", scan.job, scan.cancelled, scan.back, scan.pending, scan.step, scan.result)
    BY <1>3, GoToAt DEF ScanPc
  <2>. QED
    BY <1>1, <1>3, <2>1, ScanTyped, EndsInv
<1>. QED
  BY <1>2, <1>3 DEF AfterRun

-----------------------------------------------------------------------------
(* The application *)

(* Its service is created where no exclusive run is left.                    *)
LEMMA AppCreated ==
    ASSUME JInv, UNCHANGED storeVars, docker' = [docker EXCEPT ![App].svc = TRUE],
           UNCHANGED <<daemon, recorded, done, ended, budget>>,
           scan' \in ScanRecord, repair' \in 0 .. 4, Checked(4)
    PROVE  /\ StoreInv' /\ JTypeOK' /\ WorldInv' /\ Kept
           /\ \A r \in Runs : docker'[r] = docker[r] /\ Quiet(r)' = Quiet(r)
           /\ \A o : Finished(o)' <=> Finished(o)
<1>. DEFINE d == docker[App]
            v == [svc |-> TRUE, task |-> d.task, ctr |-> d.ctr, exit |-> d.exit]
<1>1. StoreInv' /\ Kept
  BY ScanTyped, KeptRows
<1>2. d \in UnitRecord /\ docker \in [Units -> UnitRecord] /\ App \in Units
  BY RunFacts DEF JInv, JTypeOK, UnitRecord
<1>3. v = [d EXCEPT !.svc = TRUE]
  BY <1>2, UnitExcept
<1>4. docker' = [docker EXCEPT ![App] = v]
  BY <1>3, Zenon
<1>5. v \in UnitRecord
  BY <1>2, UnitEta DEF UnitRecord
<1>. HIDE DEF v
<1>6. /\ docker' \in [Units -> UnitRecord]
      /\ \A r \in Runs : docker'[r] = docker[r]
  BY <1>2, <1>4, <1>5, OneUnit, RunFacts
<1>7. \A r \in Runs : Quiet(r)' = Quiet(r)
  BY <1>6 DEF Quiet
<1>8. \A r \in Runs : r[1] \in Exclusive => Quiet(r)
  BY DEF Checked, Quiet
<1>9. \A o : Finished(o)' <=> Finished(o)
  BY <1>6 DEF Finished, RunsOf
<1>10. JTypeOK'
  <2>1. \A r, q \in Runs : docker'[r].svc /\ docker'[q].svc /\ r[1] = q[1] => r = q
    BY <1>6 DEF JInv, JTypeOK
  <2>. HIDE DEF ScanPc
  <2>. QED
    BY <1>6, <2>1, ScanTyped DEF JTypeOK, ScanRecord, UnitRecord
<1>11. WorldInv'
  <2>1. \A o \in promoted' : kind'[o] = "deploy"
    BY <1>1, ScanTyped DEF Kept
  <2>2. ASSUME NEW r \in Runs
        PROVE  /\ docker'[r].exit # "none" => ~docker'[r].task /\ ~docker'[r].ctr
               /\ docker'[r].exit = "ok" => r \in done'
               /\ r \in recorded' => docker'[r].exit = "ok"
               /\ docker'[r] # Gone => \A k \in Jobs : k < r[1] => <<k, r[2]>> \in recorded'
               /\ live' /\ docker'[r] # Gone =>
                      kind'[r[2]] = "deploy" /\ target'[r[2]] = r[2] /\ r[2] <= count'
               /\ live' /\ r \in done' =>
                      \/ r[2] \in ended'
                      \/ r[2] # count'
                      \/ docker'[r].exit = "ok" /\ (r \in recorded' \/ docker'[r].svc)
               /\ live' /\ r \in done' => r[2] <= count'
               /\ ~live' => Quiet(r)'
               /\ r[1] \in Exclusive => Quiet(r)' \/ Quiet(App)'
    BY <1>1, <1>6, <1>7, <1>8 DEF JInv, WorldInv, Kept
  <2>. QED
    BY <2>1, <2>2 DEF WorldInv
<1>. QED
  BY <1>1, <1>6, <1>7, <1>9, <1>10, <1>11

LEMMA RolloutInv ==
    ASSUME JInv, Rollout
    PROVE  JInv'
<1>1. /\ scan.pc = "rollout" /\ scan.pc # "idle"
      /\ UNCHANGED <<daemon, recorded, done, ended, repair>>
      /\ daemon' = daemon /\ recorded' = recorded /\ done' = done /\ ended' = ended
      /\ repair' = repair /\ budget' \in 0 .. Disturbances
  BY ScanTyped DEF Rollout
<1>2. /\ scan.op \in Ops /\ scan.op <= count /\ live
      /\ scan.cancelled => scan.op # count
      /\ scan.result = "job" => scan.op \in ended
      /\ \A o \in cleanup : o \in ToCleanUp
  BY <1>1, ScannedRow
<1>3. CASE EndWith("yield") /\ UNCHANGED <<storeVars, docker>>
  <2>1. At("settle", scan.job, scan.cancelled, scan.back, scan.pending, scan.step, "yield")
    BY <1>3, EndWithAt
  <2>. QED
    BY <1>1, <1>3, <2>1, EndsInv
<1>4. CASE /\ MayWrite /\ kind[scan.op] = "deploy" /\ PublishPrepared(scan.op)
           /\ scan' = [scan EXCEPT !.pc = "ensuring", !.step = 1] /\ UNCHANGED docker
  <2>1. At("ensuring", scan.job, scan.cancelled, scan.back, scan.pending, 1, scan.result)
    <3>1. 1 \in (0 .. 6) \cup Ops /\ "ensuring" \in ScanPc
      BY DEF ScanPc
    <3>. QED
      BY <1>4, <3>1, StepAt
  <2>2. /\ live' = live /\ count' = count /\ kind' = kind /\ target' = target
        /\ promoted' = promoted \cup {scan.op} /\ state' = state /\ cleanup' = cleanup
    BY <1>4, Zenon DEF PublishPrepared, execVars
  <2>3. StoreInv' /\ RowsStill
    <3>1. count \in Nat
      BY MaxOpsAssumption DEF JInv, StoreInv, TypeOK, Targets
    <3>. QED
      BY <1>2, <1>4, <2>2, <3>1, ScanTyped, PublishInv DEF RowsStill
  <2>4. Moves({})
    <3>1. \A o \in promoted' : kind'[o] = "deploy"
      BY <1>4, <2>2, ScanTyped
    <3>. QED
      BY <1>1, <1>4, <2>1, <2>3, <3>1, ScanTyped, RowMoves DEF At
  <2>5. StoreInv' /\ JTypeOK' /\ WorldInv'
    BY <2>4, MovesInv
  <2>6. ~WithJob' /\ ~AfterJob' /\ ~CleaningUp' /\ ~JobFailed' /\ ToCleanUp' \subseteq ToCleanUp
    BY <2>1, <2>2 DEF At, WithJob, AfterJob, CleaningUp, JobFailed, ToCleanUp
  <2>7. repair = 0
    BY <1>4 DEF MayWrite, LockFree
  <2>8. ScanInv'
    BY <1>1, <1>2, <2>1, <2>2, <2>7 DEF At, JInv, ScanInv
  <2>9. JobInv'
    BY <1>1, <1>2, <1>4, <2>1, <2>2, <2>6 DEF At, JobInv
  <2>10. CleanupInv'
    <3>1. LosesNothing'
      BY <2>4, <2>6, CleanupCarried
    <3>. QED
      BY <2>6, <3>1 DEF CleanupInv
  <2>11. StoppedInv'
    BY <2>1, <2>6 DEF At, StoppedInv
  <2>12. LockInv'
    <3>1. Checked(scan.step)'
      BY <2>1 DEF At, Checked
    <3>. QED
      BY <1>1, <2>1, <2>4, <3>1, Carried DEF At, LockInv
  <2>. QED
    BY <2>5, <2>8, <2>9, <2>10, <2>11, <2>12 DEF JInv
<1>5. CASE /\ kind[scan.op] = "delete" /\ docker' = WithoutServices({App})
           /\ EndWith("ok") /\ UNCHANGED storeVars
  <2>1. At("settle", scan.job, scan.cancelled, scan.back, scan.pending, scan.step, "ok")
    BY <1>5, EndWithAt
  <2>2. Calm({App})
    BY <1>5, WithoutCalm
  <2>3. Safe({App})
    BY RunFacts DEF Safe
  <2>4. Moves({App}) /\ Kept
    BY <1>1, <1>5, <2>1, <2>2, <2>3, ScanTyped, ScanMoves DEF At
  <2>5. StoreInv' /\ JTypeOK' /\ WorldInv'
    BY <2>4, MovesInv
  <2>6. ~WithJob' /\ ~AfterJob' /\ ~CleaningUp' /\ ~JobFailed' /\ ToCleanUp' \subseteq ToCleanUp
    BY <2>1, <2>4 DEF At, WithJob, AfterJob, CleaningUp, JobFailed, ToCleanUp, Kept
  <2>7. ScanInv'
    BY <1>1, <1>2, <2>1, <2>4 DEF At, JInv, ScanInv, Kept
  <2>8. JobInv'
    BY <1>1, <1>2, <2>1, <2>6 DEF At, JobInv
  <2>9. CleanupInv'
    <3>1. LosesNothing'
      BY <2>4, <2>6, CleanupCarried
    <3>. QED
      BY <2>6, <3>1 DEF CleanupInv
  <2>10. StoppedInv'
    <3>1. \A r \in Runs : Quiet(r)'
      BY <1>1, <1>5, <2>4, Carried, RunFacts DEF JInv, StoppedInv
    <3>. QED
      BY <2>1, <2>6, <3>1 DEF At, StoppedInv
  <2>11. LockInv'
    BY <1>1, <2>1, <2>4, Carried DEF At, LockInv
  <2>. QED
    BY <2>5, <2>7, <2>8, <2>9, <2>10, <2>11 DEF JInv
<1>. QED
  BY <1>3, <1>4, <1>5, Zenon DEF Rollout

LEMMA EnsureAppInv ==
    ASSUME JInv, EnsureApp
    PROVE  JInv'
<1>1. /\ scan.pc = "ensuring" /\ scan.pc # "idle" /\ UNCHANGED storeVars
      /\ UNCHANGED <<daemon, recorded, done, ended, repair, budget>>
      /\ daemon' = daemon /\ recorded' = recorded /\ done' = done /\ ended' = ended
      /\ repair' = repair /\ budget' = budget
  BY DEF EnsureApp
<1>2. /\ scan.op \in Ops /\ scan.op <= count /\ live
      /\ scan.cancelled => scan.op # count
      /\ scan.result = "job" => scan.op \in ended
      /\ \A o \in cleanup : o \in ToCleanUp
  BY <1>1, ScannedRow
<1>3. /\ scan.step \in 1 .. 4 /\ Checked(scan.step) /\ Checked(repair)
      /\ kind[scan.op] = "deploy" /\ repair = 0
  BY <1>1 DEF JInv, ScanInv, LockInv, JobInv
<1>4. ASSUME scan.step = 4, docker' = [docker EXCEPT ![App].svc = TRUE],
             scan' = [scan EXCEPT !.pc = "settle", !.result = "ok", !.step = 0]
      PROVE  JInv'
  <2>1. At("settle", scan.job, scan.cancelled, scan.back, scan.pending, 0, "ok")
    BY <1>4, FailAt DEF ScanPc
  <2>2. /\ StoreInv' /\ JTypeOK' /\ WorldInv' /\ Kept
        /\ \A r \in Runs : docker'[r] = docker[r] /\ Quiet(r)' = Quiet(r)
        /\ \A o : Finished(o)' <=> Finished(o)
    BY <1>1, <1>3, <1>4, <2>1, ScanTyped, AppCreated DEF At
  <2>3. ~WithJob' /\ ~AfterJob' /\ ~CleaningUp' /\ ~JobFailed' /\ ToCleanUp' = cleanup
    BY <2>1, <2>2 DEF At, WithJob, AfterJob, CleaningUp, JobFailed, ToCleanUp, Kept
  <2>4. ScanInv'
    BY <1>1, <1>2, <2>1, <2>2 DEF At, JInv, ScanInv, Kept
  <2>5. JobInv'
    BY <2>1, <2>3 DEF At, JobInv
  <2>6. CleanupInv'
    <3>1. LosesNothing'
      BY <1>1, <1>2, <2>2, <2>3 DEF JInv, CleanupInv, LosesNothing, Kept
    <3>. QED
      BY <2>3, <3>1 DEF CleanupInv
  <2>7. StoppedInv'
    BY <1>3, <2>1, <2>2, <2>3 DEF At, StoppedInv, Kept
  <2>8. LockInv'
    BY <1>1, <1>3, <2>1 DEF At, LockInv, Checked
  <2>. QED
    BY <2>2, <2>4, <2>5, <2>6, <2>7, <2>8 DEF JInv
<1>5. ASSUME docker' = docker, scan' = [scan EXCEPT !.pc = "rollout", !.step = 0]
      PROVE  JInv'
  <2>1. At("rollout", scan.job, scan.cancelled, scan.back, scan.pending, 0, scan.result)
    <3>1. 0 \in (0 .. 6) \cup Ops /\ "rollout" \in ScanPc
      BY DEF ScanPc
    <3>. QED
      BY <1>5, <3>1, StepAt
  <2>2. Calm({}) /\ Safe({})
    BY <1>5, StillCalm DEF Safe
  <2>3. Moves({}) /\ Kept
    BY <1>1, <2>1, <2>2, ScanTyped, ScanMoves DEF At
  <2>. QED
    BY <1>1, <1>2, <1>3, <2>1, <2>3, NoStage DEF At, Kept
<1>6. ASSUME scan.step \in 1 .. 3, ~Finds(CheckVolumesFree[scan.step], 0), docker' = docker,
             scan' = [scan EXCEPT !.step = scan.step + 1]
      PROVE  JInv'
  <2>1. At("ensuring", scan.job, scan.cancelled, scan.back, scan.pending, scan.step + 1, scan.result)
    <3>1. scan.step + 1 \in (0 .. 6) \cup Ops
      BY <1>6
    <3>. QED
      BY <1>1, <1>6, <3>1, ReadAt
  <2>2. Calm({}) /\ Safe({})
    BY <1>6, StillCalm DEF Safe
  <2>3. Moves({}) /\ Kept
    BY <1>1, <2>1, <2>2, ScanTyped, ScanMoves DEF At
  <2>4. StoreInv' /\ JTypeOK' /\ WorldInv'
    BY <2>3, MovesInv
  <2>5. ~WithJob' /\ ~AfterJob' /\ ~CleaningUp' /\ ~JobFailed' /\ ToCleanUp' \subseteq ToCleanUp
    BY <2>1, <2>3 DEF At, WithJob, AfterJob, CleaningUp, JobFailed, ToCleanUp, Kept
  <2>6. ScanInv'
    BY <1>1, <1>2, <1>3, <1>6, <2>1, <2>3 DEF At, JInv, ScanInv, Kept
  <2>7. JobInv'
    BY <1>1, <1>2, <1>3, <2>1, <2>3, <2>5 DEF At, JobInv, Kept
  <2>8. CleanupInv'
    <3>1. LosesNothing'
      BY <2>3, <2>5, CleanupCarried
    <3>. QED
      BY <2>5, <3>1 DEF CleanupInv
  <2>9. StoppedInv'
    BY <2>1, <2>5 DEF At, StoppedInv
  <2>10. LockInv'
    <3>1. Checked(scan.step + 1)
      BY <1>3, <1>6, CheckedRead
    <3>2. Checked(scan.step)'
      BY <1>6, <2>1, <3>1 DEF At, Checked
    <3>. QED
      BY <1>1, <2>1, <2>3, <3>2, Carried DEF At, LockInv
  <2>. QED
    BY <2>4, <2>6, <2>7, <2>8, <2>9, <2>10 DEF JInv
<1>. QED
  BY <1>3, <1>4, <1>5, <1>6, CheckVolumesReads DEF EnsureApp

-----------------------------------------------------------------------------
(* The end of the scan, repair, and the host *)

(* The rows go with the environment, and nothing of a run is left.           *)
LEMMA FinishDeleteSettles ==
    ASSUME JInv, scan.pc = "settle", scan.result = "ok", kind[scan.op] = "delete",
           FinishDeleteOperation(scan.op), scan' = IdleScan,
           UNCHANGED <<daemon, docker, recorded, done, ended, repair, budget>>
    PROVE  JInv'
<1>1. /\ scan.pc # "idle" /\ scan.op \in Ops
  BY ScannedRow
<1>2. StoreInv'
  BY <1>1, ScanTyped, FinishDeleteInv
<1>3. ~live' /\ promoted' = {} /\ cleanup' = {}
  BY DEF FinishDeleteOperation
<1>4. Calm({})
  BY StillCalm
<1>5. /\ scan' \in ScanRecord /\ scan'.pc = "idle" /\ ~scan'.cancelled
      /\ scan'.result = "ok" /\ scan'.back = "scan"
  BY IdleAt
<1>6. JTypeOK'
  BY <1>4, <1>5, ScanTyped, CalmType
<1>7. \A r \in Runs : Quiet(r)' /\ Quiet(r)
  BY DEF JInv, StoppedInv, Quiet
<1>8. WorldInv'
  BY <1>3, <1>7 DEF JInv, WorldInv
<1>9. ~WithJob' /\ ~AfterJob' /\ ~CleaningUp' /\ ~JobFailed'
  BY <1>5 DEF WithJob, AfterJob, CleaningUp, JobFailed
<1>10. ScanInv' /\ JobInv' /\ StoppedInv'
  BY <1>5, <1>9 DEF ScanInv, JobInv, StoppedInv
<1>11. CleanupInv'
  BY <1>3, <1>9 DEF CleanupInv, LosesNothing
<1>12. LockInv'
  <2>1. Checked(repair)'
    BY DEF JInv, LockInv, Checked
  <2>. QED
    BY <1>5, <2>1 DEF LockInv
<1>. QED
  BY <1>2, <1>6, <1>8, <1>10, <1>11, <1>12 DEF JInv

LEMMA SettleInv ==
    ASSUME JInv, Settle
    PROVE  JInv'
<1>1. /\ scan.pc = "settle" /\ scan.pc # "idle" /\ scan' = IdleScan
      /\ UNCHANGED <<daemon, docker, recorded, done, ended, repair, budget>>
      /\ daemon' = daemon /\ recorded' = recorded /\ done' = done /\ ended' = ended
      /\ repair' = repair /\ docker' = docker /\ budget' = budget
  BY DEF Settle, EndScan
<1>2. /\ scan.op \in Ops /\ scan.op <= count /\ live
      /\ scan.cancelled => scan.op # count
      /\ scan.result = "job" => scan.op \in ended
      /\ \A o \in cleanup : o \in ToCleanUp
  BY <1>1, ScannedRow
<1>3. /\ scan' \in ScanRecord /\ scan'.pc = "idle" /\ ~scan'.cancelled /\ scan'.result = "ok"
  BY <1>1, IdleAt
<1>4. scan.result \in {"ok", "yield"} \cup Errors /\ "ok" \notin Errors /\ "yield" \notin Errors
      /\ "none" \notin Errors
  BY ErrorsAssumption DEF JInv, JTypeOK
<1>5. ASSUME StoreInv', RowsStill, kind' = kind, promoted' = promoted, count' = count,
             cleanup' \in {cleanup, cleanup \cup {scan.op}},
             cleanup' # cleanup => scan.result = "job"
      PROVE  JInv'
  <2>1. \A o \in promoted' : kind'[o] = "deploy"
    BY <1>5, ScanTyped
  <2>2. Moves({})
    BY <1>1, <1>3, <1>5, <2>1, ScanTyped, RowMoves
  <2>3. \A o \in cleanup' : o \in ToCleanUp \/ (o \in ended' /\ o \in Ops /\ o <= count')
    BY <1>1, <1>2, <1>5
  <2>. QED
    BY <1>1, <1>3, <2>2, <2>3, NoStage
<1>6. ASSUME NEW code, code \in {"none", scan.result},
             \/ TransitionOperation(scan.op, "running", "succeeded", code) /\ code = "none"
             \/ TransitionOperation(scan.op, "running", "cancelled", code) /\ code = "none"
             \/ TransitionOperation(scan.op, "running", "failed", code) /\ code \in Errors
             \/ kind[scan.op] = "delete" /\ RecordOperationError(scan.op, code) /\ code \in Errors
      PROVE  JInv'
  <2>1. StoreInv'
    <3>1. Execute(scan.op)
      BY <1>6 DEF Execute
    <3>. QED
      BY <1>2, <3>1, StepInv, ScanTyped DEF StoreNext
  <2>2. /\ RowsStill /\ count' = count /\ kind' = kind /\ promoted' = promoted
        /\ cleanup' \in {cleanup, cleanup \cup {scan.op}}
        /\ code # "job" => cleanup' = cleanup
    BY <1>2, <1>6, StateRows, ScanTyped
  <2>. QED
    BY <1>5, <1>6, <2>1, <2>2
<1>7. CASE UNCHANGED storeVars
  BY <1>5, <1>7, KeptRows, ScanTyped DEF Kept
<1>8. CASE /\ scan.result = "ok" /\ kind[scan.op] = "delete"
           /\ FinishDeleteOperation(scan.op)
  BY <1>1, <1>8, FinishDeleteSettles
<1>9. CASE TransitionOperation(scan.op, "running", "succeeded", "none")
  BY <1>6, <1>9
<1>10. CASE TransitionOperation(scan.op, "running", "cancelled", "none")
  BY <1>6, <1>10
<1>11. CASE scan.result \in Errors /\ TransitionOperation(scan.op, "running", "failed", scan.result)
  BY <1>6, <1>11
<1>12. CASE /\ scan.result \in Errors /\ kind[scan.op] = "delete"
            /\ RecordOperationError(scan.op, scan.result)
  BY <1>6, <1>12
<1>13. \/ UNCHANGED storeVars
       \/ scan.result = "ok" /\ kind[scan.op] = "delete" /\ FinishDeleteOperation(scan.op)
       \/ TransitionOperation(scan.op, "running", "succeeded", "none")
       \/ TransitionOperation(scan.op, "running", "cancelled", "none")
       \/ scan.result \in Errors /\ TransitionOperation(scan.op, "running", "failed", scan.result)
       \/ /\ scan.result \in Errors /\ kind[scan.op] = "delete"
          /\ RecordOperationError(scan.op, scan.result)
  <2>1. CASE scan.cancelled \/ ~Current
    BY <2>1 DEF Settle
  <2>2. CASE ~(scan.cancelled \/ ~Current) /\ scan.result = "ok"
    BY <1>4, <2>2 DEF Settle
  <2>3. CASE ~(scan.cancelled \/ ~Current) /\ scan.result = "yield"
    BY <1>4, <2>3 DEF Settle
  <2>4. CASE ~(scan.cancelled \/ ~Current) /\ scan.result \in Errors
    BY <1>4, <2>4 DEF Settle
  <2>. QED
    BY <1>4, <2>1, <2>2, <2>3, <2>4
<1>. QED
  BY <1>7, <1>8, <1>9, <1>10, <1>11, <1>12, <1>13

(* A repair changes nothing the scan relies on.                              *)
LEMMA RepairKeeps ==
    ASSUME JInv, UNCHANGED storeVars, UNCHANGED <<daemon, scan, recorded, done, ended, budget>>,
           \A r \in Runs : docker'[r] = docker[r] /\ Quiet(r)' = Quiet(r),
           \A o : Finished(o)' <=> Finished(o)
    PROVE  /\ JobInv' /\ CleanupInv' /\ StoppedInv'
           /\ scan.pc \notin {"starting", "ensuring"} => ScanInv' /\ (Checked(repair)' => LockInv')
<1>1. Kept /\ scan' = scan /\ daemon' = daemon /\ recorded' = recorded /\ ended' = ended
  BY ScanTyped, KeptRows
<1>2. /\ WithJob' <=> WithJob
      /\ AfterJob' <=> AfterJob
      /\ CleaningUp' <=> CleaningUp
      /\ JobFailed' <=> JobFailed
      /\ Run' = Run /\ ToCleanUp' = ToCleanUp
      /\ \A o : Stale(o)' = Stale(o)
  BY <1>1 DEF WithJob, AfterJob, CleaningUp, JobFailed, Run, ToCleanUp, Kept, Stale, PendingJobs
<1>3. WithJob => Run \in Runs
  <2>1. WithJob => scan.pc # "idle" /\ scan.job \in Jobs
    BY DEF JInv, JobInv, WithJob, CleaningUp
  <2>. QED
    BY <2>1, ScannedRow, RunFacts DEF Run
<1>4. JobInv'
  <2>1. scan.pc = "record" => WithJob
    BY DEF WithJob
  <2>2. Finished(scan.op)' <=> Finished(scan.op)
    BY <1>1 DEF Finished, RunsOf
  <2>. QED
    BY <1>1, <1>2, <1>3, <2>1, <2>2 DEF JInv, JobInv, Kept
<1>5. CleanupInv'
  <2>1. LosesNothing'
    BY <1>1, <1>2 DEF JInv, CleanupInv, LosesNothing, Kept
  <2>. QED
    BY <1>1, <1>2, <2>1 DEF JInv, CleanupInv, Kept
<1>6. StoppedInv'
  <2>1. \A r \in Stale(scan.op) : r \in Runs
    BY DEF Stale
  <2>2. Stale(scan.op)' = Stale(scan.op)
    BY <1>1 DEF Stale, PendingJobs, Kept
  <2>. QED
    BY <1>1, <1>2, <2>1, <2>2 DEF JInv, StoppedInv, Kept
<1>7. scan.pc \notin {"starting", "ensuring"} => ScanInv' /\ (Checked(repair)' => LockInv')
  BY <1>1 DEF JInv, ScanInv, LockInv, Kept
<1>. QED
  BY <1>4, <1>5, <1>6, <1>7

LEMMA RepairInv ==
    ASSUME JInv, StartRepair \/ RepairApp
    PROVE  JInv'
<1>1. /\ UNCHANGED storeVars /\ UNCHANGED <<daemon, scan, recorded, done, ended, budget>>
      /\ scan' = scan
  BY DEF StartRepair, RepairApp
<1>2. scan.pc \notin {"starting", "ensuring"}
  BY DEF StartRepair, LockFree, RepairApp, JInv, ScanInv
<1>3. repair \in 0 .. 4 /\ Checked(repair)
  BY DEF JInv, JTypeOK, LockInv
<1>4. CASE docker' = docker /\ repair' \in 0 .. 4 /\ Checked(repair')
  <2>1. Calm({}) /\ Safe({})
    BY <1>4, StillCalm DEF Safe
  <2>2. StoreInv' /\ Kept /\ RowsStill
    BY <1>1, ScanTyped, KeptRows
  <2>3. \A o \in promoted' : kind'[o] = "deploy"
    BY <2>2, ScanTyped DEF Kept
  <2>4. Moves({})
    BY <1>1, <1>4, <2>1, <2>2, <2>3, ScanTyped DEF Moves
  <2>5. StoreInv' /\ JTypeOK' /\ WorldInv'
    BY <2>4, MovesInv
  <2>6. Checked(repair)'
    BY <1>4 DEF Checked
  <2>7. /\ \A r \in Runs : docker'[r] = docker[r] /\ Quiet(r)' = Quiet(r)
        /\ \A o : Finished(o)' <=> Finished(o)
    BY <1>1, <1>4 DEF Quiet, Finished
  <2>. QED
    BY <1>1, <1>2, <2>5, <2>6, <2>7, RepairKeeps DEF JInv
<1>5. CASE repair = 4 /\ repair' = 0 /\ docker' = [docker EXCEPT ![App].svc = TRUE]
  <2>1. /\ StoreInv' /\ JTypeOK' /\ WorldInv'
        /\ \A r \in Runs : docker'[r] = docker[r] /\ Quiet(r)' = Quiet(r)
        /\ \A o : Finished(o)' <=> Finished(o)
    <3>1. Checked(4)
      BY <1>3, <1>5
    <3>2. scan' \in ScanRecord /\ repair' \in 0 .. 4
      BY <1>1, <1>5, ScanTyped
    <3>. QED
      BY <1>1, <1>5, <3>1, <3>2, AppCreated
  <2>2. Checked(repair)'
    BY <1>5 DEF Checked
  <2>. QED
    BY <1>1, <1>2, <2>1, <2>2, RepairKeeps DEF JInv
<1>6. CASE StartRepair
  BY <1>4, <1>6 DEF StartRepair, Checked
<1>7. CASE RepairApp
  <2>1. CASE repair = 4
    BY <1>5, <1>7, <2>1, CheckVolumesReads DEF RepairApp
  <2>2. CASE repair \in 1 .. 3
    <3>1. docker' = docker /\ repair' = IF Finds(CheckVolumesFree[repair], 0) THEN 0 ELSE repair + 1
      BY <1>7, <2>2, CheckVolumesReads DEF RepairApp
    <3>2. ~Finds(CheckVolumesFree[repair], 0) => Checked(repair + 1)
      BY <1>3, <2>2, CheckedRead
    <3>3. Checked(0)
      BY DEF Checked
    <3>4. Checked(repair') /\ repair' \in 0 .. 4
      BY <2>2, <3>1, <3>2, <3>3
    <3>. QED
      BY <1>4, <3>1, <3>4
  <2>. QED
    BY <1>3, <1>7, <2>1, <2>2 DEF RepairApp
<1>. QED
  BY <1>6, <1>7

(* The daemon stops, and recovers.                                           *)
LEMMA HostInv ==
    ASSUME JInv, Crash \/ Recover
    PROVE  JInv'
<1>1. CASE Crash
  <2>1. /\ UNCHANGED storeVars /\ daemon' = "starting" /\ scan' = IdleScan /\ repair' = 0
        /\ docker' = docker /\ recorded' = recorded /\ done' = done /\ ended' = ended
        /\ budget' \in 0 .. Disturbances
    BY <1>1, DisturbType DEF Crash
  <2>2. StoreInv' /\ Kept /\ RowsStill
    BY <2>1, ScanTyped, KeptRows
  <2>3. \A o \in promoted' : kind'[o] = "deploy"
    BY <2>2, ScanTyped DEF Kept
  <2>4. Calm({}) /\ Safe({})
    BY <2>1, StillCalm DEF Safe
  <2>5. Moves({})
    BY <2>1, <2>2, <2>3, <2>4, IdleAt, ScanTyped DEF Moves
  <2>. QED
    BY <2>1, <2>2, <2>5, IdleAt, NoStage DEF Kept, ToCleanUp
<1>2. CASE Recover
  <2>1. /\ daemon = "starting" /\ daemon' = "up" /\ scan' = scan /\ repair' = repair
        /\ docker' = docker /\ recorded' = recorded /\ done' = done /\ ended' = ended
        /\ budget' = budget /\ (RecoverInterrupted \/ UNCHANGED storeVars)
    BY <1>2 DEF Recover
  <2>2. scan.pc = "idle" /\ ~scan.cancelled /\ (scan.result = "job" => scan.op \in ended)
    BY <2>1 DEF JInv, ScanInv, JobInv
  <2>3. /\ StoreInv' /\ RowsStill /\ cleanup' = cleanup
        /\ \A o \in promoted' : kind'[o] = "deploy"
    <3>1. CASE UNCHANGED storeVars
      BY <3>1, ScanTyped, KeptRows DEF Kept
    <3>2. CASE RecoverInterrupted
      <4>1. StoreInv'
        BY <3>2, ScanTyped, RecoverInv
      <4>2. /\ live' = live /\ count' = count /\ kind' = kind /\ target' = target
            /\ promoted' = promoted /\ cleanup' = cleanup
        BY <3>2, Zenon DEF RecoverInterrupted, envVars, rowVars
      <4>3. count \in Nat
        BY MaxOpsAssumption DEF JInv, StoreInv, TypeOK, Targets
      <4>. QED
        BY <4>1, <4>2, <4>3, ScanTyped DEF RowsStill
    <3>. QED
      BY <2>1, <3>1, <3>2
  <2>4. Calm({}) /\ Safe({})
    BY <2>1, StillCalm DEF Safe
  <2>5. Moves({})
    BY <2>1, <2>3, <2>4, ScanTyped DEF Moves
  <2>. QED
    BY <2>1, <2>2, <2>3, <2>5, NoStage DEF ToCleanUp
<1>. QED
  BY <1>1, <1>2

-----------------------------------------------------------------------------
(* The specification *)

LEMMA JobsInit == JInit => JInv
<1>. SUFFICES ASSUME JInit PROVE JInv
  OBVIOUS
<1>1. StoreInv
  BY InitInv DEF JInit
<1>2. /\ live /\ count = 0 /\ promoted = {} /\ cleanup = {}
  BY DEF JInit, StoreInit
<1>3. /\ daemon = "starting" /\ scan = IdleScan /\ repair = 0 /\ recorded = {}
      /\ done = {} /\ ended = {} /\ budget = Disturbances
      /\ docker = [u \in Units |-> Gone]
  BY DEF JInit
<1>4. /\ docker \in [Units -> UnitRecord] /\ \A u \in Units : docker[u] = Gone /\ Quiet(u)
  BY <1>3, GoneFacts DEF Quiet
<1>5. /\ scan.pc = "idle" /\ ~scan.cancelled /\ scan.result = "ok" /\ scan \in ScanRecord
  BY <1>3, IdleAt
<1>6. \A r \in Runs : r \in Units
  BY RunFacts
<1>7. JTypeOK
  <2>1. \A r, q \in Runs : docker[r].svc /\ docker[q].svc /\ r[1] = q[1] => r = q
    BY <1>4, <1>6, GoneFacts
  <2>2. budget \in 0 .. Disturbances /\ repair \in 0 .. 4
    BY <1>3, JobDisturbancesAssumption
  <2>. HIDE DEF ScanPc
  <2>. QED
    BY <1>3, <1>4, <1>5, <2>1, <2>2, Zenon DEF JTypeOK, ScanRecord, UnitRecord
<1>8. ~WithJob /\ ~AfterJob /\ ~CleaningUp /\ ToCleanUp = {}
  BY <1>2, <1>5 DEF WithJob, AfterJob, CleaningUp, ToCleanUp
<1>9. ScanInv /\ JobInv /\ CleanupInv /\ StoppedInv
  BY <1>3, <1>5, <1>8 DEF ScanInv, JobInv, CleanupInv, LosesNothing, StoppedInv
<1>10. LockInv
  BY <1>3, <1>5 DEF LockInv, Checked
<1>11. WorldInv
  BY <1>2, <1>3, <1>4, <1>6, GoneFacts DEF WorldInv
<1>. QED
  BY <1>1, <1>7, <1>9, <1>10, <1>11 DEF JInv

(* A step that changes nothing.                                              *)
LEMMA StutterInv ==
    ASSUME JInv, UNCHANGED vars
    PROVE  JInv'
<1>1. /\ UNCHANGED storeVars
      /\ daemon' = daemon /\ scan' = scan /\ repair' = repair /\ docker' = docker
      /\ recorded' = recorded /\ done' = done /\ ended' = ended /\ budget' = budget
  BY Zenon DEF vars, jobVars
<1>2. StoreInv' /\ Kept /\ RowsStill
  BY <1>1, ScanTyped, KeptRows
<1>3. Calm({}) /\ Safe({})
  BY <1>1, StillCalm DEF Safe
<1>4. \A o \in promoted' : kind'[o] = "deploy"
  BY <1>2, ScanTyped DEF Kept
<1>5. JTypeOK' /\ WorldInv'
  BY <1>1, <1>2, <1>3, <1>4, ScanTyped, CalmType, CalmWorld
<1>6. ScanInv' /\ JobInv' /\ CleanupInv' /\ StoppedInv' /\ LockInv'
  BY <1>1, <1>2, <1>3, StageStill DEF Kept
<1>. QED
  BY <1>2, <1>5, <1>6 DEF JInv

LEMMA JobsStep ==
    ASSUME JInv, [JNext]_vars
    PROVE  JInv'
<1>1. CASE ScanStep
  BY <1>1, CleanUpInv, FinishStoppingInv, ScanOperationInv, PrepareScanInv, RemoveStaleInv,
     StaleStoppedInv, NextJobInv, PrepareJobInv, AwaitStoppedInv, StartJobInv, CreateJobInv,
     WaitJobInv, RecordRunInv, RequestCleanupInv, AfterRunInv, RolloutInv, EnsureAppInv,
     SettleInv DEF ScanStep
<1>2. CASE Discover \/ CleanUpFails \/ ExecutionFails \/ AttemptsRunOut
  BY <1>2, DiscoverInv, CleanUpFailsInv, ExecutionFailsInv
<1>3. CASE StartRepair \/ RepairApp \/ Crash \/ Recover \/ ClientRequest
  BY <1>3, RepairInv, HostInv, ClientInv
<1>4. CASE \E u \in Units : SwarmStep(u)
  BY <1>4, SwarmInv
<1>5. CASE \E r \in Runs : RunVanishes(r) \/ \E code \in {"ok", "failed"} : Exit(r, code)
  BY <1>5, VanishInv, ExitInv
<1>6. CASE UNCHANGED vars
  BY <1>6, StutterInv
<1>. QED
  BY <1>1, <1>2, <1>3, <1>4, <1>5, <1>6, Zenon DEF JNext

(* The inductive invariant of the scan, the repair, Swarm and the clients     *)
(* (reconcile/jobs.rs, docker/jobs.rs).                                      *)
THEOREM JobRunsInvariant == JSpec => []JInv
BY JobsInit, JobsStep, PTL DEF JSpec

(* A finished deletion leaves no service, task or container of any run        *)
(* (remove_jobs), for every number of jobs and operations.                   *)
THEOREM JobRunsDeletionStopsRuns == JSpec => []DeletionStopsRuns
<1>1. JInv => DeletionStopsRuns
  BY DEF JInv, WorldInv, Quiet, DeletionStopsRuns
<1>. QED
  BY <1>1, JobRunsInvariant, PTL

(* The application never shares its volume with a run that writes it          *)
(* exclusively (create_job, check_volumes_free): one of the two is gone.     *)
THEOREM JobRunsExclusiveRunsAlone == JSpec => []ExclusiveRunsAlone
<1>1. JInv => ExclusiveRunsAlone
  BY DEF JInv, WorldInv, Quiet, ExclusiveRunsAlone
<1>. QED
  BY <1>1, JobRunsInvariant, PTL

-----------------------------------------------------------------------------
(* Which steps start a run *)

StartsNone == \A r \in Runs : ~Starts(r)

LEMMA RemovalStartsNone ==
    ASSUME JInv, docker' = docker \/ \E rs : docker' = WithoutServices(rs)
    PROVE  StartsNone
BY StillCalm, WithoutCalm, RunFacts DEF StartsNone, Starts, Calm

LEMMA AppStartsNone ==
    ASSUME JInv, docker' = [docker EXCEPT ![App].svc = TRUE]
    PROVE  StartsNone
<1>1. docker \in [Units -> UnitRecord]
  BY DEF JInv, JTypeOK, UnitRecord
<1>2. \A r \in Runs : docker'[r] = docker[r]
  BY <1>1, RunFacts
<1>. QED
  BY <1>2 DEF StartsNone, Starts

(* Only create_job starts a run, after its last read.                        *)
LEMMA OnlyCreateStarts ==
    ASSUME JInv, [JNext]_vars
    PROVE  \/ StartsNone
           \/ /\ scan.pc = "starting" /\ scan.step > Len(CheckStart(scan.job))
              /\ docker' = [docker EXCEPT ![Run] = Created]
<1>1. CASE CreateJob
  BY <1>1, RemovalStartsNone DEF CreateJob
<1>2. CASE CleanUp \/ RemoveStale \/ PrepareJob \/ StartJob \/ Rollout
  <2>1. docker' = docker \/ \E rs : docker' = WithoutServices(rs)
    BY <1>2, Zenon DEF CleanUp, RemoveStale, PrepareJob, StartJob, Rollout
  <2>. QED
    BY <2>1, RemovalStartsNone
<1>3. CASE \/ FinishStopping \/ ScanOperation \/ Prepare \/ StaleStopped \/ NextJob
           \/ AwaitStopped \/ WaitJob \/ RecordRun \/ RequestCleanup \/ AfterRun \/ Settle
  <2>1. docker' = docker
    BY <1>3, Zenon DEF FinishStopping, ScanOperation, Prepare, StaleStopped, NextJob,
       AwaitStopped, WaitJob, RecordRun, RequestCleanup, AfterRun, Settle
  <2>. QED
    BY <2>1, RemovalStartsNone
<1>4. CASE EnsureApp \/ RepairApp
  <2>1. docker' = docker \/ docker' = [docker EXCEPT ![App].svc = TRUE]
    BY <1>4, Zenon DEF EnsureApp, RepairApp
  <2>. QED
    BY <2>1, RemovalStartsNone, AppStartsNone
<1>5. CASE \/ Discover \/ CleanUpFails \/ ExecutionFails \/ AttemptsRunOut \/ StartRepair
           \/ ClientRequest \/ Crash \/ Recover \/ UNCHANGED vars
  <2>1. docker' = docker
    BY <1>5, Zenon DEF Discover, CleanUpFails, ExecutionFails, AttemptsRunOut, StartRepair,
       ClientRequest, Crash, Recover, vars, jobVars
  <2>. QED
    BY <2>1, RemovalStartsNone
<1>6. CASE \E u \in Units : SwarmStep(u)
  BY <1>6, SwarmCalm, RunFacts DEF Calm, StartsNone, Starts
<1>7. CASE \E r \in Runs : RunVanishes(r) \/ \E code \in {"ok", "failed"} : Exit(r, code)
  <2>1. CASE \E r \in Runs : RunVanishes(r)
    BY <2>1, RemovalStartsNone DEF RunVanishes
  <2>2. CASE \E r \in Runs : \E code \in {"ok", "failed"} : Exit(r, code)
    BY <2>2, ExitCalm, RunFacts DEF Calm, StartsNone, Starts
  <2>. QED
    BY <1>7, <2>1, <2>2
<1>. QED
  BY <1>1, <1>2, <1>3, <1>4, <1>5, <1>6, <1>7, Zenon DEF JNext, ScanStep

(* Nothing of any run is left when a run starts, and it did not succeed before.*)
LEMMA CreateAlone ==
    ASSUME JInv, scan.pc = "starting", scan.step > Len(CheckStart(scan.job)),
           docker' = [docker EXCEPT ![Run] = Created]
    PROVE  /\ \A q \in Runs : ~docker[q].task /\ ~docker[q].ctr
           /\ \A r \in Runs : Starts(r) => r = Run
           /\ Run \in Runs /\ Run[2] = scan.op
           /\ Run \notin done \/ scan.op \in ended
<1>1. /\ scan.job \in Jobs /\ Run \in Runs /\ Run \notin recorded
      /\ \A k \in Jobs : k < scan.job => <<k, scan.op>> \in recorded
      /\ \A r \in Runs : r[2] # scan.op => Quiet(r)
  BY JobStage
<1>2. scan.step > 2
  BY CheckStartReads DEF JInv, ScanInv
<1>3. /\ Run \notin done \/ scan.op \in ended
      /\ \A o \in Ops : ~docker[<<scan.job, o>>].task /\ ~docker[<<scan.job, o>>].ctr
  <2>1. scan.step > 1
    BY <1>2, CheckStartReads DEF JInv, ScanInv
  <2>. QED
    BY <1>2, <2>1 DEF JInv, LockInv
<1>4. ASSUME NEW q \in Runs PROVE ~docker[q].task /\ ~docker[q].ctr
  <2>0. q = <<q[1], q[2]>> /\ q[1] \in Jobs /\ q[2] \in Ops /\ q[1] \in Nat /\ scan.job \in Nat
    BY <1>1, RunFacts, MaxJobsAssumption DEF Jobs
  <2>1. CASE q[2] # scan.op
    BY <1>1, <2>1 DEF Quiet
  <2>2. CASE q[2] = scan.op /\ q[1] < scan.job
    <3>1. q \in recorded
      BY <1>1, <2>0, <2>2
    <3>2. docker[q].exit # "none"
      BY <3>1 DEF JInv, WorldInv
    <3>. QED
      BY <3>2 DEF JInv, WorldInv
  <2>3. CASE q[1] = scan.job
    BY <1>3, <2>0, <2>3
  <2>4. CASE q[2] = scan.op /\ scan.job < q[1]
    <3>1. docker[q] = Gone
      BY <1>1, <2>4 DEF JInv, WorldInv, Run
    <3>. QED
      BY <3>1, GoneFacts
  <2>. QED
    BY <2>0, <2>1, <2>2, <2>3, <2>4
<1>5. ASSUME NEW r \in Runs, Starts(r) PROVE r = Run
  <2>1. docker \in [Units -> UnitRecord]
    BY DEF JInv, JTypeOK, UnitRecord
  <2>. QED
    BY <1>5, <2>1, RunFacts DEF Starts
<1>6. Run[2] = scan.op
  BY DEF Run
<1>. QED
  BY <1>1, <1>3, <1>4, <1>5, <1>6

(* Runs never overlap: whatever crashed or was superseded in between, a run   *)
(* starts only when no task and no container of any run is left (run_jobs,   *)
(* create_job).                                                              *)
THEOREM JobRunsNeverOverlap == JSpec => RunsNeverOverlap
<1>1. ASSUME JInv, [JNext]_vars
      PROVE  [\A r, q \in Runs : Starts(r) => ~docker[q].task /\ ~docker[q].ctr]_vars
  BY <1>1, OnlyCreateStarts, CreateAlone DEF StartsNone
<1>. QED
  BY <1>1, JobRunsInvariant, PTL DEF JSpec, RunsNeverOverlap

(* A run that succeeded is started again only if a job's failure was recorded *)
(* on its operation, or somebody removed a run of it: no crash, lost record,  *)
(* retry or cleanup reruns it (execute_job, run_job).                         *)
THEOREM JobRunsSuccessIsNotRerun == JSpec => SuccessIsNotRerun
<1>1. ASSUME JInv, [JNext]_vars
      PROVE  [\A r \in Runs : Starts(r) /\ r \in done => r[2] \in ended]_vars
  BY <1>1, OnlyCreateStarts, CreateAlone DEF StartsNone
<1>. QED
  BY <1>1, JobRunsInvariant, PTL DEF JSpec, SuccessIsNotRerun

=============================================================================
