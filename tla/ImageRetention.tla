---------------------------- MODULE ImageRetention ----------------------------
(***************************************************************************)
(* Cleanup of the images the daemon builds, beside the preparations,       *)
(* restores and rollbacks that use them (apps/piqueld/src/reconcile/       *)
(* images.rs, store/images/mod.rs).                                        *)
(*                                                                         *)
(* `in_use' is a tokio RwLock: whoever is about to record images holds it  *)
(* shared from before it chooses them until its target is saved, and       *)
(* cleanup only tries to take it exclusively.  Each step below is one      *)
(* await of its activity.                                                  *)
(*                                                                         *)
(* The rows are those of OperationStore, for one environment.  A target    *)
(* has one service and one image, built by this installation: cleanup      *)
(* leaves every other image alone.                                         *)
(***************************************************************************)
EXTENDS OperationStore

CONSTANTS
    Images,       \* images a build may produce, by content
    NoImage,
    Keep,         \* images.keep_deployments
    MaxRestores,  \* bound on the restores clients ask for
    MaxFaults     \* bound on crashes, failures and images a container uses

ASSUME RetentionAssumption ==
    /\ NoImage \notin Images
    /\ Keep \in Nat /\ MaxRestores \in Nat /\ MaxFaults \in Nat

\* Automatic rollback is for failed rollouts (rolls_back).
ASSUME RolloutAssumption == "rollout" \in Errors

VARIABLES
    images,   \* the images in Docker
    imageOf,  \* the image in the target each operation prepared
    scan,     \* the environment's scan: preparing or rolling back
    client,   \* a client's restore
    cleaner,  \* the cleanup pass
    budget

vars == <<storeVars, images, imageOf, scan, client, cleaner, budget>>

NoScan == [at |-> "idle", op |-> 0, image |-> NoImage, deployment |-> 0]
NoRestore == [at |-> "idle", deployment |-> 0]
NoClean == [at |-> "idle", retained |-> {}, todo |-> {}]

Init ==
    /\ StoreInit
    /\ images = {}
    /\ imageOf = [o \in Ops |-> NoImage]
    /\ scan = NoScan
    /\ client = NoRestore
    /\ cleaner = NoClean
    /\ budget = [restores |-> MaxRestores, faults |-> MaxFaults]

ImageOf(t) == IF t = 0 THEN NoImage ELSE imageOf[t]

\* Whoever holds `in_use' shared.
Readers ==
    (IF scan.at \in {"choose", "save", "ensure", "accept"} THEN {"scan"} ELSE {})
      \cup (IF client.at \in {"ensure", "accept"} THEN {"client"} ELSE {})

-----------------------------------------------------------------------------
(* The roots (retained_on) *)

Succeeded == {d \in succeededAt : target[d] # 0}

\* Mutant: the last deployments are kept whether they succeeded or not.
RecentOfAll == {d \in Ops : target[d] # 0 /\ count - d < Keep}

Recent == {d \in Succeeded : Cardinality({e \in Succeeded : e > d}) < Keep}

\* The targets of Current, which PromotionSource is part of, Latest and Recent.
RootTargets ==
    {resolved, IF count = 0 THEN 0 ELSE target[count]} \cup {target[d] : d \in Recent}

\* retained_images
Retained == {ImageOf(t) : t \in RootTargets} \ {NoImage}

-----------------------------------------------------------------------------
(* Preparation (prepare_target) *)

Current(o) == live /\ o = count /\ state[o] = "running"

\* The environment is read, with the target whose images may be reused.
BeginPreparation(o) ==
    /\ scan.at = "idle"
    /\ Current(o) /\ kind[o] = "deploy" /\ target[o] = 0
    /\ scan' = [at |-> "prepare", op |-> o, image |-> ImageOf(resolved),
                deployment |-> 0]
    /\ UNCHANGED <<storeVars, images, imageOf, client, cleaner, budget>>

\* images_in_use, by a preparation or a rollback.
HoldImages ==
    /\ scan.at \in {"prepare", "rollback"}
    /\ cleaner.at = "idle"
    /\ scan' = [scan EXCEPT !.at = IF @ = "prepare" THEN "choose" ELSE "ensure"]
    /\ UNCHANGED <<storeVars, images, imageOf, client, cleaner, budget>>

\* Reuses the image of the active target, which is not looked for, or builds
\* one; the build cache may return one that is there.
ChooseImage ==
    /\ scan.at = "choose"
    /\ \/ scan.image # NoImage /\ scan' = [scan EXCEPT !.at = "save"] /\ UNCHANGED images
       \/ \E i \in Images : /\ images' = images \cup {i}
                            /\ scan' = [scan EXCEPT !.at = "save", !.image = i]
    /\ UNCHANGED <<storeVars, imageOf, client, cleaner, budget>>

\* The target is saved unless the operation was superseded; the guard drops.
SaveTarget ==
    /\ scan.at = "save"
    /\ IF Current(scan.op)
         THEN /\ SavePrepared(scan.op)
              /\ imageOf' = [imageOf EXCEPT ![scan.op] = scan.image]
         ELSE UNCHANGED <<storeVars, imageOf>>
    /\ scan' = NoScan
    /\ UNCHANGED <<images, client, cleaner, budget>>

Fault == budget.faults > 0 /\ budget' = [budget EXCEPT !.faults = @ - 1]

\* A build fails or times out, or the preparation is cancelled.
PreparationFails ==
    /\ scan.at \in {"prepare", "choose", "save"}
    /\ Fault
    /\ scan' = NoScan
    /\ UNCHANGED <<storeVars, images, imageOf, client, cleaner>>

-----------------------------------------------------------------------------
(* Rollback and restore *)

\* roll_back: the deployment to restore is read before the lock.
BeginRollback(o) ==
    /\ scan.at = "idle"
    /\ Current(o)
    /\ RollsBack(o, "rollout")
    /\ \E d \in Ops :
          /\ IsRollbackTarget(o, d)
          /\ scan' = [at |-> "rollback", op |-> o, image |-> NoImage, deployment |-> d]
    /\ UNCHANGED <<storeVars, images, imageOf, client, cleaner, budget>>

Present(d) == ImageOf(target[d]) \in images

\* Without a rollback the operation just fails (fail, fail_operation).
FailInstead ==
    IF Current(scan.op)
      THEN TransitionOperation(scan.op, "running", "failed", "rollout")
      ELSE UNCHANGED storeVars

\* ImagesInUse::ensure: a build is not built again.
EnsureRollback ==
    /\ scan.at = "ensure"
    /\ IF Present(scan.deployment)
         THEN scan' = [scan EXCEPT !.at = "accept"] /\ UNCHANGED storeVars
         ELSE scan' = NoScan /\ FailInstead
    /\ UNCHANGED <<images, imageOf, client, cleaner, budget>>

\* Store::roll_back, refused when a newer intent came, or by the bound.
AcceptRollback ==
    /\ scan.at = "accept"
    /\ IF Accepts /\ Current(scan.op) /\ count < MaxOps
         THEN RollBack(scan.op, "rollout", scan.deployment)
         ELSE FailInstead
    /\ scan' = NoScan
    /\ UNCHANGED <<images, imageOf, client, cleaner, budget>>

\* ApplicationService::restore reads the deployment's target ...
BeginRestore(d) ==
    /\ client.at = "idle"
    /\ budget.restores > 0
    /\ Accepts /\ Restorable(d)
    /\ client' = [at |-> "wait", deployment |-> d]
    /\ budget' = [budget EXCEPT !.restores = @ - 1]
    /\ UNCHANGED <<storeVars, images, imageOf, scan, cleaner>>

\* ... takes the lock, ...
HoldRestore ==
    /\ client.at = "wait"
    /\ cleaner.at = "idle"
    /\ client' = [client EXCEPT !.at = "ensure"]
    /\ UNCHANGED <<storeVars, images, imageOf, scan, cleaner, budget>>

\* ... checks its images (reuse_images) ...
EnsureRestore ==
    /\ client.at = "ensure"
    /\ client' = IF live /\ Present(client.deployment)
                   THEN [client EXCEPT !.at = "accept"] ELSE NoRestore
    /\ UNCHANGED <<storeVars, images, imageOf, scan, cleaner, budget>>

\* ... and is accepted, or refused because of what came in between.
AcceptRestored ==
    /\ client.at = "accept"
    /\ IF Accepts /\ count < MaxOps
         THEN RequestRestore(client.deployment)
         ELSE UNCHANGED storeVars
    /\ client' = NoRestore
    /\ UNCHANGED <<images, imageOf, scan, cleaner, budget>>

\* Docker does not list its images in time, or the client goes away.
ReuseFails ==
    /\ Fault
    /\ \/ scan.at = "ensure" /\ scan' = NoScan /\ FailInstead /\ UNCHANGED client
       \/ /\ client.at \in {"wait", "ensure"}
          /\ client' = NoRestore
          /\ UNCHANGED <<storeVars, scan>>
    /\ UNCHANGED <<images, imageOf, cleaner>>

-----------------------------------------------------------------------------
(* Cleanup (clean_images) *)

\* Mutant: cleanup only minds preparations.
LockFreeOfScan == "scan" \notin Readers

\* try_write
LockFree == Readers = {}

BeginCleanup ==
    /\ cleaner.at = "idle"
    /\ LockFree
    /\ images # {}
    /\ cleaner' = [NoClean EXCEPT !.at = "roots"]
    /\ UNCHANGED <<storeVars, images, imageOf, scan, client, budget>>

\* Mutant: the roots are read one by one.
ReadRootsOneByOne ==
    /\ cleaner.at = "roots"
    /\ cleaner' = IF cleaner.todo = {}
                    THEN [cleaner EXCEPT !.retained = {ImageOf(resolved)} \ {NoImage},
                                         !.todo = images]
                    ELSE [at |-> "list", todo |-> {}, retained |-> cleaner.retained \cup
                              ({ImageOf(t) : t \in RootTargets \ {resolved}} \ {NoImage})]
    /\ UNCHANGED <<storeVars, images, imageOf, scan, client, budget>>

\* retained_images, from one snapshot.
ReadRoots ==
    /\ cleaner.at = "roots"
    /\ cleaner' = [cleaner EXCEPT !.at = "list", !.retained = Retained]
    /\ UNCHANGED <<storeVars, images, imageOf, scan, client, budget>>

\* Mutant: only images a target once recorded are considered.
UnretainedIfRecorded ==
    {i \in images \ cleaner.retained : \E o \in Ops : imageOf[o] = i}

\* The listed images that no root retains.
Unretained == images \ cleaner.retained

ListImages ==
    /\ cleaner.at = "list"
    /\ cleaner' = [cleaner EXCEPT !.at = "remove", !.todo = Unretained]
    /\ UNCHANGED <<storeVars, images, imageOf, scan, client, budget>>

\* remove_image
RemoveImage(i) ==
    /\ cleaner.at = "remove" /\ i \in cleaner.todo
    /\ images' = images \ {i}
    /\ cleaner' = [cleaner EXCEPT !.todo = @ \ {i}]
    /\ UNCHANGED <<storeVars, imageOf, scan, client, budget>>

\* A container uses the image, or its removal fails.
KeepImage(i) ==
    /\ cleaner.at = "remove" /\ i \in cleaner.todo
    /\ Fault
    /\ cleaner' = [cleaner EXCEPT !.todo = @ \ {i}]
    /\ UNCHANGED <<storeVars, images, imageOf, scan, client>>

EndCleanup ==
    /\ cleaner.at = "remove" /\ cleaner.todo = {}
    /\ cleaner' = NoClean
    /\ UNCHANGED <<storeVars, images, imageOf, scan, client, budget>>

-----------------------------------------------------------------------------
(* Everything else *)

\* Requests at any time, and the transactions of the scan that record no
\* target.  A deployment succeeds once its target was published.  The rows of a
\* deleted environment take their targets along.  Running the latest operation
\* again at a client's request changes no target and no root, and is left out.
Work ==
    /\ \/ RequestDeploy \/ RequestDelete
       \/ scan.at = "idle" /\ \E o \in Ops :
             \/ TransitionOperation(o, "requested", "running", "none")
             \/ o \in promoted /\ TransitionOperation(o, "running", "succeeded", "none")
             \/ kind[o] = "deploy" /\ \E code \in Errors :
                   TransitionOperation(o, "running", "failed", code)
             \/ PublishPrepared(o)
             \/ FinishDeleteOperation(o)
    /\ imageOf' = [o \in Ops |-> IF live' THEN imageOf[o] ELSE NoImage]
    /\ UNCHANGED <<images, scan, client, cleaner, budget>>

\* The daemon stops and starts, at any await.
Restart ==
    /\ Fault
    /\ RecoverInterrupted \/ ((\A o \in Ops : state[o] # "running") /\ UNCHANGED storeVars)
    /\ scan' = NoScan /\ client' = NoRestore /\ cleaner' = NoClean
    /\ UNCHANGED <<images, imageOf>>

ScanStep ==
    HoldImages \/ ChooseImage \/ SaveTarget \/ EnsureRollback \/ AcceptRollback

ClientStep == HoldRestore \/ EnsureRestore \/ AcceptRestored

CleanerStep ==
    \/ ReadRoots \/ ListImages \/ EndCleanup
    \/ \E i \in Images : RemoveImage(i)

Next ==
    \/ \E o \in Ops : BeginPreparation(o) \/ BeginRollback(o)
    \/ ScanStep \/ PreparationFails
    \/ \E d \in Ops : BeginRestore(d)
    \/ ClientStep \/ ReuseFails
    \/ BeginCleanup \/ CleanerStep
    \/ \E i \in Images : KeepImage(i)
    \/ Work \/ Restart

Spec == Init /\ [][Next]_vars

(***************************************************************************)
(* An activity that was begun goes on: preparations are bounded by their   *)
(* timeout and the lock is first come, first served.  Cleanup runs after   *)
(* every operation and periodically.  Nothing makes a client, an operation *)
(* or a fault happen.                                                      *)
(***************************************************************************)
FairSpec ==
    /\ Spec
    /\ WF_vars(ScanStep) /\ WF_vars(ClientStep)
    /\ WF_vars(CleanerStep) /\ WF_vars(BeginCleanup)

-----------------------------------------------------------------------------
(* What retention guarantees *)

\* The activities and rows have their types; cleanup and the activities that
\* record images exclude each other.
ImTypeOK ==
    /\ images \in SUBSET Images
    /\ imageOf \in [Ops -> Images \cup {NoImage}]
    /\ scan \in [at : {"idle", "prepare", "choose", "save", "rollback", "ensure", "accept"},
                 op : Targets, image : Images \cup {NoImage}, deployment : Targets]
    /\ client \in [at : {"idle", "wait", "ensure", "accept"}, deployment : Targets]
    /\ cleaner \in [at : {"idle", "roots", "list", "remove"},
                    retained : SUBSET Images, todo : SUBSET Images]
    /\ cleaner.at # "idle" => Readers = {}
    /\ budget \in [restores : 0 .. MaxRestores, faults : 0 .. MaxFaults]

\* The images of what an environment runs, of its latest deployment and of
\* its last successful ones are never removed, although they become roots
\* only when a target is saved, published or succeeds, while cleanup works
\* from roots it read earlier (clean_images).
RootsArePresent == ImTypeOK /\ Retained \subseteq images

\* What an activity chose or checked under the lock is there when it is
\* recorded, also what it read before it waited for the lock (prepare_target
\* reuses the images of the active target without looking for them).
ChosenImagesStay ==
    /\ scan.at = "save" => scan.image \in images
    /\ scan.at = "accept" => Present(scan.deployment)
    /\ client.at = "accept" /\ live => Present(client.deployment)

\* With a deployment kept, the automatic rollback of a failing rollout never
\* lacks its images, whatever was deployed, restored and cleaned before
\* (rollback_target and retained_on choose independently).
RollbackIsAvailable ==
    Keep > 0 => \A d \in Ops :
        /\ count # 0 /\ RollsBack(count, "rollout")
        /\ IsRollbackTarget(count, d)
        => Present(d)

\* An image that nothing needs any more is removed in the end, also one whose
\* build was never recorded because it failed, was superseded or the daemon
\* stopped.
GarbageIsRemoved ==
    \A i \in Images :
        i \in images \ Retained ~> i \notin images \/ i \in Retained

=============================================================================
