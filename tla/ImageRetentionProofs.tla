------------------------- MODULE ImageRetentionProofs -------------------------
(***************************************************************************)
(* Proofs about ImageRetention, for every number of operations, attempts,  *)
(* images, restores and faults and every number of deployments kept: the   *)
(* images of the roots and those an activity chose are there, and so is    *)
(* what an automatic rollback restores.                                    *)
(*                                                                         *)
(* The inductive invariant says why: what a preparation may reuse is the   *)
(* image of the active target, a root; what a rollback or restore picked   *)
(* stays restorable; a saved target has an image; and while cleanup works  *)
(* from the roots it read, no new root appears.                            *)
(***************************************************************************)
EXTENDS ImageRetention, OperationStoreProofs, FiniteSetTheorems

\* The scan's operation has a row; what it reads before it waits for the lock
\* is still right when it has it.
ScanReads ==
    /\ scan.at # "idle" => live /\ scan.op \in Ops /\ scan.op <= count
    /\ scan.at \in {"prepare", "choose"} => scan.image = ImageOf(resolved)
    /\ scan.at \in {"prepare", "choose", "save"} /\ Current(scan.op) => target[scan.op] = 0
    /\ scan.at \in {"rollback", "ensure", "accept"} =>
           /\ scan.deployment \in Ops
           /\ Restorable(scan.deployment)
           /\ Current(scan.op) => /\ RollsBack(scan.op, "rollout")
                                  /\ IsRollbackTarget(scan.op, scan.deployment)

\* So is what a client's restore read.
ClientReads ==
    client.at # "idle" =>
        client.deployment \in Ops /\ (live => Restorable(client.deployment))

\* Saved targets have images.
SavedHaveImages == \A o \in Ops : target[o] # 0 => imageOf[target[o]] \in Images

\* Cleanup works from roots that include today's.
CleanerSpares ==
    /\ cleaner.at \in {"list", "remove"} => Retained \subseteq cleaner.retained
    /\ cleaner.at = "remove" => cleaner.todo \cap cleaner.retained = {}

IInv ==
    /\ StoreInv
    /\ RootsArePresent
    /\ ChosenImagesStay
    /\ ScanReads
    /\ ClientReads
    /\ SavedHaveImages
    /\ CleanerSpares

ScanRecord ==
    [at : {"idle", "prepare", "choose", "save", "rollback", "ensure", "accept"},
     op : Targets, image : Images \cup {NoImage}, deployment : Targets]
ClientRecord == [at : {"idle", "wait", "ensure", "accept"}, deployment : Targets]
CleanerRecord ==
    [at : {"idle", "roots", "list", "remove"}, retained : SUBSET Images, todo : SUBSET Images]
BudgetRecord == [restores : 0 .. MaxRestores, faults : 0 .. MaxFaults]

-----------------------------------------------------------------------------
(* Records *)

LEMMA IdleRecords ==
    /\ NoScan \in ScanRecord /\ NoScan.at = "idle"
    /\ NoRestore \in ClientRecord /\ NoRestore.at = "idle"
    /\ NoClean \in CleanerRecord /\ NoClean.at = "idle"
<1>1. 0 \in Targets
  BY MaxOpsAssumption DEF Targets
<1>. HIDE DEF Targets
<1>. QED
  BY <1>1 DEF NoScan, NoRestore, NoClean, ScanRecord, ClientRecord, CleanerRecord

(* A fault uses up the budget. *)
LEMMA FaultType ==
    ASSUME budget \in BudgetRecord, Fault
    PROVE  budget' \in BudgetRecord
<1>1. budget.faults \in 0 .. MaxFaults /\ budget.faults > 0
      /\ budget' = [budget EXCEPT !.faults = budget.faults - 1]
  BY DEF Fault, BudgetRecord
<1>2. budget.faults - 1 \in 0 .. MaxFaults
  BY <1>1, RetentionAssumption
<1>. QED
  BY <1>1, <1>2 DEF BudgetRecord

(* Who holds the lock. *)
LEMMA ReadersEmpty ==
    Readers = {} <=> /\ scan.at \notin {"choose", "save", "ensure", "accept"}
                     /\ client.at \notin {"ensure", "accept"}
BY DEF Readers

-----------------------------------------------------------------------------
(* Roots *)

\* The images of the roots, one kind of root at a time.
RootImages ==
    \A i : i \in Retained <=>
               /\ i # NoImage
               /\ \/ i = ImageOf(resolved)
                  \/ count # 0 /\ i = ImageOf(target[count])
                  \/ \E d \in Recent : i = ImageOf(target[d])

LEMMA RetainedMembers == RootImages
<1>1. ImageOf(0) = NoImage
  BY DEF ImageOf
<1>. HIDE DEF ImageOf, Recent
<1>. QED
  BY <1>1 DEF Retained, RootTargets, RootImages

LEMMA RetainedMembersNext == RootImages'
BY RetainedMembers, PTL

(* Roots are images this installation built. *)
LEMMA RetainedType ==
    ASSUME StoreInv, ImTypeOK
    PROVE  Retained \subseteq Images
<1>1. \A t \in Targets : ImageOf(t) \in Images \cup {NoImage}
  BY MaxOpsAssumption DEF ImTypeOK, ImageOf, Targets, Ops
<1>2. resolved \in Targets /\ (count # 0 => count \in Ops)
      /\ target \in [Ops -> Targets] /\ succeededAt \subseteq Ops
  BY DEF StoreInv, TypeOK, Targets, Ops
<1>3. Recent \subseteq Ops
  BY <1>2 DEF Recent, Succeeded
<1>. HIDE DEF ImageOf, Recent
<1>. QED
  BY <1>1, <1>2, <1>3, RetainedMembers DEF RootImages

(* A deployment that is no newer than the last that succeeded is recent only  *)
(* if it was before.                                                          *)
LEMMA RecentShrinks ==
    ASSUME StoreInv, StoreInv', Succeeded \subseteq Succeeded',
           NEW d \in Recent', d \in Succeeded
    PROVE  d \in Recent
<1>. DEFINE A == {e \in Succeeded : e > d}
            B == {e \in Succeeded' : e > d}
<1>1. succeededAt' \subseteq Ops
  BY DEF StoreInv, TypeOK
<1>2. IsFiniteSet(Ops)
  BY FS_Interval, MaxOpsAssumption DEF Ops
<1>3. B \subseteq Ops /\ A \subseteq B
  BY <1>1 DEF Succeeded
<1>4. IsFiniteSet(B)
  BY <1>2, <1>3, FS_Subset
<1>5. IsFiniteSet(A) /\ Cardinality(A) <= Cardinality(B)
  BY <1>3, <1>4, FS_Subset
<1>6. Cardinality(A) \in Nat /\ Cardinality(B) \in Nat
  BY <1>4, <1>5, FS_CardinalityType
<1>7. Cardinality(B) < Keep
  BY DEF Recent
<1>8. Cardinality(A) < Keep
  BY <1>5, <1>6, <1>7, RetentionAssumption
<1>. QED
  BY <1>8 DEF Recent

(* What is read of the rows stays when they do. *)
LEMMA RowsSame ==
    ASSUME UNCHANGED <<storeVars, imageOf>>
    PROVE  /\ live' = live /\ deleteIntent' = deleteIntent /\ resolved' = resolved
           /\ count' = count /\ state' = state /\ kind' = kind /\ target' = target
           /\ rolledBack' = rolledBack /\ succeededAt' = succeededAt
           /\ imageOf' = imageOf /\ Retained' = Retained
<1>1. UNCHANGED storeVars /\ imageOf' = imageOf
  BY Zenon
<1>2. /\ live' = live /\ deleteIntent' = deleteIntent /\ resolved' = resolved
      /\ count' = count /\ state' = state /\ kind' = kind /\ target' = target
      /\ rolledBack' = rolledBack /\ succeededAt' = succeededAt
  BY <1>1, Zenon DEF storeVars, envVars, execVars, rowVars, historyVars
<1>3. Succeeded' = Succeeded
  BY <1>2 DEF Succeeded
<1>4. Recent' = Recent
  BY <1>3, Zenon DEF Recent
<1>5. RootTargets' = RootTargets
  BY <1>2, <1>4, Zenon DEF RootTargets
<1>6. Retained' = Retained
  BY <1>1, <1>5, Zenon DEF Retained, ImageOf
<1>. QED
  BY <1>1, <1>2, <1>6

\* Steps that make no new root: the latest target is published or succeeds, or
\* an operation without a target comes.
Spared ==
    /\ imageOf' = imageOf /\ target' = target
    /\ succeededAt \subseteq succeededAt'
    /\ \A d \in succeededAt' \ succeededAt : d = count
    /\ resolved' = resolved \/ (count # 0 /\ resolved' = target[count])
    /\ count' = count \/ (count' \in Ops /\ target[count'] = 0)

LEMMA SparedRoots ==
    ASSUME StoreInv, StoreInv', Spared
    PROVE  Retained' \subseteq Retained
<1>0. /\ imageOf' = imageOf /\ target' = target
      /\ succeededAt \subseteq succeededAt' /\ \A d \in succeededAt' \ succeededAt : d = count
      /\ resolved' = resolved \/ (count # 0 /\ resolved' = target[count])
      /\ count' = count \/ (count' \in Ops /\ target[count'] = 0)
  BY DEF Spared
<1>1. \A t : ImageOf(t)' = ImageOf(t)
  BY <1>0 DEF ImageOf
<1>2. Succeeded \subseteq Succeeded' /\ \A d \in Succeeded' : d \in Succeeded \/ d = count
  BY <1>0 DEF Succeeded
<1>3. ImageOf(0) = NoImage
  BY DEF ImageOf
<1>4. \A d \in Recent' : d \in Succeeded' /\ d \in succeededAt'
  BY DEF Recent, Succeeded
<1>5. \A d \in succeededAt' : d # 0
  BY MaxOpsAssumption DEF StoreInv, TypeOK, Ops
<1>6. \A d \in Recent' : d \in Recent \/ (count # 0 /\ d = count)
  BY <1>2, <1>4, <1>5, RecentShrinks
<1>. HIDE DEF ImageOf, Recent
<1>7. ASSUME NEW i \in Retained' PROVE i \in Retained
  <2>1. /\ i # NoImage
        /\ \/ i = ImageOf(resolved')
           \/ count' # 0 /\ i = ImageOf(target[count'])
           \/ \E d \in Recent' : i = ImageOf(target[d])
    <3>1. RootImages'
      BY RetainedMembersNext
    <3>. QED
      BY <1>0, <1>1, <1>7, <3>1 DEF RootImages, ImageOf
  <2>. QED
    BY <1>0, <1>3, <1>6, <2>1, RetainedMembers DEF RootImages
<1>. QED
  BY <1>7

-----------------------------------------------------------------------------
(* Every step is a transaction of the store or leaves its rows alone *)

LEMMA FailInsteadRefines ==
    ASSUME IInv, scan.at # "idle", FailInstead
    PROVE  \/ UNCHANGED storeVars
           \/ scan.op \in Ops /\ TransitionOperation(scan.op, "running", "failed", "rollout")
BY DEF FailInstead, IInv, ScanReads

LEMMA StepRefines ==
    ASSUME IInv, [Next]_vars
    PROVE  [StoreNext]_storeVars
<1>. USE RolloutAssumption
<1>1. CASE SaveTarget
  <2>1. scan.at = "save" /\ scan.op \in Ops
    BY <1>1 DEF SaveTarget, IInv, ScanReads
  <2>2. CASE Current(scan.op)
    <3>1. PrepareTarget(scan.op)
      BY <1>1, <2>1, <2>2 DEF SaveTarget, PrepareTarget, IInv, ScanReads
    <3>. QED
      BY <2>1, <3>1 DEF StoreNext, Execute
  <2>. QED
    BY <1>1, <2>2 DEF SaveTarget
<1>2. ASSUME scan.at # "idle", FailInstead PROVE [StoreNext]_storeVars
  BY <1>2, FailInsteadRefines DEF StoreNext, Execute
<1>3. CASE EnsureRollback \/ ReuseFails
  BY <1>2, <1>3 DEF EnsureRollback, ReuseFails
<1>4. CASE AcceptRollback
  <2>1. scan.at = "accept" /\ scan.op \in Ops /\ scan.deployment \in Ops
    BY <1>4 DEF AcceptRollback, IInv, ScanReads
  <2>2. CASE Current(scan.op) /\ RollBack(scan.op, "rollout", scan.deployment)
    <3>1. RollsBack(scan.op, "rollout") /\ IsRollbackTarget(scan.op, scan.deployment)
      BY <2>1, <2>2 DEF IInv, ScanReads
    <3>. QED
      BY <2>1, <2>2, <3>1 DEF StoreNext, Execute
  <2>. QED
    BY <1>2, <1>4, <2>1, <2>2 DEF AcceptRollback
<1>5. CASE AcceptRestored
  <2>1. client.deployment \in Ops
    BY <1>5 DEF AcceptRestored, IInv, ClientReads
  <2>. QED
    BY <1>5, <2>1 DEF AcceptRestored, StoreNext, Request
<1>6. CASE Work
  <2>1. \/ RequestDeploy \/ RequestDelete
        \/ \E o \in Ops :
             \/ TransitionOperation(o, "requested", "running", "none")
             \/ TransitionOperation(o, "running", "succeeded", "none")
             \/ \E code \in Errors : TransitionOperation(o, "running", "failed", code)
             \/ PublishPrepared(o)
             \/ FinishDeleteOperation(o)
    BY <1>6, Zenon DEF Work
  <2>. QED
    BY <2>1 DEF StoreNext, Request, Execute
<1>7. CASE Restart
  BY <1>7 DEF Restart, StoreNext
<1>8. ASSUME NEW o \in Ops, BeginPreparation(o) \/ BeginRollback(o) \/ BeginRestore(o)
      PROVE  UNCHANGED storeVars
  BY <1>8, Zenon DEF BeginPreparation, BeginRollback, BeginRestore
<1>9. ASSUME NEW i \in Images, RemoveImage(i) \/ KeepImage(i) PROVE UNCHANGED storeVars
  BY <1>9, Zenon DEF RemoveImage, KeepImage
<1>10. CASE \/ HoldImages \/ ChooseImage \/ PreparationFails \/ HoldRestore \/ EnsureRestore
            \/ BeginCleanup \/ ReadRoots \/ ListImages \/ EndCleanup \/ UNCHANGED vars
  BY <1>10, Zenon DEF HoldImages, ChooseImage, PreparationFails, HoldRestore, EnsureRestore,
     BeginCleanup, ReadRoots, ListImages, EndCleanup, vars
<1>. QED
  BY <1>1, <1>3, <1>4, <1>5, <1>6, <1>7, <1>8, <1>9, <1>10
     DEF Next, ScanStep, ClientStep, CleanerStep

-----------------------------------------------------------------------------
(* Steps that leave the rows alone preserve the invariant *)

\* What the invariant says of a scan's record in the next state.
ScanRight ==
    /\ scan' \in ScanRecord
    /\ ScanReads'
    /\ cleaner'.at # "idle" => scan'.at \notin {"choose", "save", "ensure", "accept"}
    /\ scan'.at = "save" => scan'.image \in images'
    /\ scan'.at = "accept" => Present(scan.deployment)'

ClientRight ==
    /\ client' \in ClientRecord
    /\ ClientReads'
    /\ cleaner'.at # "idle" => client'.at \notin {"ensure", "accept"}
    /\ client'.at = "accept" /\ live' => Present(client.deployment)'

CleanerRight == cleaner' \in CleanerRecord /\ CleanerSpares'

(* The invariant, put together. *)
LEMMA Assemble ==
    ASSUME StoreInv', images' \in SUBSET Images, imageOf' \in [Ops -> Images \cup {NoImage}],
           budget' \in BudgetRecord, SavedHaveImages', Retained' \subseteq images',
           ScanRight, ClientRight, CleanerRight
    PROVE  IInv'
<1>1. cleaner'.at # "idle" => Readers' = {}
  BY DEF ScanRight, ClientRight, Readers
<1>2. ImTypeOK'
  BY <1>1 DEF ImTypeOK, ScanRight, ClientRight, CleanerRight, ScanRecord, ClientRecord,
     CleanerRecord, BudgetRecord
<1>3. ChosenImagesStay'
  BY DEF ChosenImagesStay, ScanRight, ClientRight
<1>. QED
  BY <1>2, <1>3 DEF IInv, RootsArePresent, ScanRight, ClientRight, CleanerRight

(* An activity that does not move stays right while no image it needs goes. *)
LEMMA StillRight ==
    ASSUME IInv, UNCHANGED <<storeVars, imageOf>>,
           images \subseteq images' \/ cleaner.at # "idle"
    PROVE  /\ scan' = scan /\ (cleaner'.at # "idle" => Readers = {}) => ScanRight
           /\ client' = client /\ (cleaner'.at # "idle" => Readers = {}) => ClientRight
           /\ cleaner' = cleaner => CleanerRight
<1>1. /\ live' = live /\ resolved' = resolved /\ count' = count /\ state' = state
      /\ target' = target /\ rolledBack' = rolledBack /\ succeededAt' = succeededAt
      /\ imageOf' = imageOf /\ Retained' = Retained
  BY RowsSame
<1>2. cleaner.at # "idle" => /\ scan.at \notin {"choose", "save", "ensure", "accept"}
                             /\ client.at \notin {"ensure", "accept"}
  BY ReadersEmpty DEF IInv, RootsArePresent, ImTypeOK
<1>3. ASSUME scan' = scan, cleaner'.at # "idle" => Readers = {} PROVE ScanRight
  <2>1. ScanReads'
    BY <1>1, <1>3 DEF IInv, ScanReads, ImageOf, Current, RollsBack, IsRollbackTarget, Restorable
  <2>2. scan' \in ScanRecord
    BY <1>3 DEF IInv, RootsArePresent, ImTypeOK, ScanRecord
  <2>3. cleaner'.at # "idle" => scan'.at \notin {"choose", "save", "ensure", "accept"}
    BY <1>3, ReadersEmpty
  <2>. QED
    BY <1>1, <1>2, <1>3, <2>1, <2>2, <2>3
       DEF ScanRight, IInv, ChosenImagesStay, Present, ImageOf
<1>4. ASSUME client' = client, cleaner'.at # "idle" => Readers = {} PROVE ClientRight
  <2>1. ClientReads'
    BY <1>1, <1>4 DEF IInv, ClientReads, Restorable
  <2>2. client' \in ClientRecord
    BY <1>4 DEF IInv, RootsArePresent, ImTypeOK, ClientRecord
  <2>3. cleaner'.at # "idle" => client'.at \notin {"ensure", "accept"}
    BY <1>4, ReadersEmpty
  <2>. QED
    BY <1>1, <1>2, <1>4, <2>1, <2>2, <2>3
       DEF ClientRight, IInv, ChosenImagesStay, Present, ImageOf
<1>5. ASSUME cleaner' = cleaner PROVE CleanerRight
  BY <1>1, <1>5 DEF CleanerRight, CleanerRecord, CleanerSpares, IInv, RootsArePresent, ImTypeOK
<1>. QED
  BY <1>3, <1>4, <1>5

(* What the rows say does not change with them. *)
LEMMA RowsStill ==
    ASSUME IInv, UNCHANGED <<storeVars, imageOf>>
    PROVE  /\ StoreInv' /\ imageOf' \in [Ops -> Images \cup {NoImage}] /\ SavedHaveImages'
           /\ Retained' = Retained /\ Retained \subseteq images
<1>1. UNCHANGED storeVars
  BY Zenon
<1>2. StoreInv'
  BY <1>1, StepInv DEF IInv
<1>. QED
  BY <1>2, RowsSame DEF IInv, RootsArePresent, ImTypeOK, SavedHaveImages

(* A scan moves and leaves the rows alone. *)
LEMMA ScanMoves ==
    ASSUME IInv, UNCHANGED <<storeVars, imageOf>>, client' = client, cleaner' = cleaner,
           images \subseteq images', images' \in SUBSET Images, budget' \in BudgetRecord,
           ScanRight
    PROVE  IInv'
<1>1. cleaner'.at # "idle" => Readers = {}
  BY DEF IInv, RootsArePresent, ImTypeOK
<1>2. ClientRight /\ CleanerRight
  BY <1>1, StillRight
<1>3. Retained' \subseteq images'
  BY RowsStill
<1>. QED
  BY <1>2, <1>3, RowsStill, Assemble

(* Preparations read the active target, take the lock and choose an image. *)
LEMMA PreparationStep ==
    ASSUME IInv, (\E o \in Ops : BeginPreparation(o)) \/ HoldImages \/ ChooseImage
                   \/ PreparationFails
    PROVE  IInv'
<1>1. /\ images \in SUBSET Images /\ scan \in ScanRecord /\ budget \in BudgetRecord
      /\ imageOf \in [Ops -> Images \cup {NoImage}]
      /\ resolved \in Targets /\ count \in Targets
  BY DEF IInv, RootsArePresent, ImTypeOK, ScanRecord, BudgetRecord, StoreInv, TypeOK
<1>2. UNCHANGED <<storeVars, imageOf>> /\ client' = client /\ cleaner' = cleaner
  BY Zenon DEF BeginPreparation, HoldImages, ChooseImage, PreparationFails
<1>r. /\ live' = live /\ resolved' = resolved /\ count' = count /\ state' = state
      /\ target' = target /\ rolledBack' = rolledBack /\ succeededAt' = succeededAt
      /\ imageOf' = imageOf
  BY <1>2, RowsSame
<1>s. cleaner.at # "idle" => scan.at \notin {"choose", "save", "ensure", "accept"}
  BY ReadersEmpty DEF IInv, RootsArePresent, ImTypeOK
<1>3. ASSUME NEW o \in Ops, BeginPreparation(o) PROVE IInv'
  <2>1. images' = images /\ budget' = budget
    BY <1>3, Zenon DEF BeginPreparation
  <2>2. ImageOf(resolved) \in Images \cup {NoImage} /\ 0 \in Targets /\ o \in Targets /\ o <= o
    BY <1>1, MaxOpsAssumption DEF ImageOf, Targets, Ops
  <2>3. /\ scan' \in ScanRecord /\ scan'.at = "prepare" /\ scan'.op = o
        /\ scan'.image = ImageOf(resolved)
    <3>. HIDE DEF Targets, ImageOf
    <3>. QED
      BY <1>3, <2>2 DEF BeginPreparation, ScanRecord
  <2>4. live /\ o = count /\ target[o] = 0
    BY <1>3 DEF BeginPreparation, Current
  <2>5. ScanReads'
    BY <1>r, <2>2, <2>3, <2>4 DEF ScanReads, ImageOf
  <2>6. ScanRight
    BY <2>3, <2>5 DEF ScanRight
  <2>. QED
    BY <1>1, <1>2, <2>1, <2>6, ScanMoves
<1>4. CASE HoldImages
  <2>1. images' = images /\ budget' = budget /\ cleaner.at = "idle"
    BY <1>4, Zenon DEF HoldImages
  <2>2. /\ scan' \in ScanRecord /\ scan'.op = scan.op /\ scan'.image = scan.image
        /\ scan'.deployment = scan.deployment
        /\ \/ scan.at = "prepare" /\ scan'.at = "choose"
           \/ scan.at = "rollback" /\ scan'.at = "ensure"
    <3>. HIDE DEF Targets
    <3>. QED
      BY <1>1, <1>4 DEF HoldImages, ScanRecord
  <2>3. ScanReads'
    BY <1>r, <2>2 DEF IInv, ScanReads, ImageOf, Current, RollsBack, IsRollbackTarget, Restorable
  <2>4. ScanRight
    BY <1>2, <2>1, <2>2, <2>3 DEF ScanRight
  <2>. QED
    BY <1>1, <1>2, <2>1, <2>4, ScanMoves
<1>5. CASE ChooseImage
  <2>1. scan.at = "choose" /\ budget' = budget
    BY <1>5, Zenon DEF ChooseImage
  <2>2. /\ scan' \in ScanRecord /\ scan'.op = scan.op /\ scan'.at = "save"
        /\ images \subseteq images' /\ images' \in SUBSET Images
        /\ \/ scan'.image = scan.image /\ scan.image # NoImage
           \/ scan'.image \in images'
    <3>. HIDE DEF Targets
    <3>1. CASE scan.image # NoImage /\ scan' = [scan EXCEPT !.at = "save"] /\ UNCHANGED images
      BY <1>1, <3>1 DEF ScanRecord
    <3>2. ASSUME NEW i \in Images, images' = images \cup {i},
                 scan' = [scan EXCEPT !.at = "save", !.image = i]
          PROVE  /\ scan' \in ScanRecord /\ scan'.op = scan.op /\ scan'.at = "save"
                 /\ images \subseteq images' /\ images' \in SUBSET Images
                 /\ scan'.image \in images'
      BY <1>1, <3>2 DEF ScanRecord
    <3>. QED
      BY <1>5, <3>1, <3>2 DEF ChooseImage
  <2>3. scan'.image \in images'
    <3>1. CASE scan'.image = scan.image /\ scan.image # NoImage
      <4>1. scan.image = ImageOf(resolved)
        BY <2>1 DEF IInv, ScanReads
      <4>2. scan.image \in Retained
        BY <3>1, <4>1, RetainedMembers DEF RootImages
      <4>. QED
        BY <2>2, <3>1, <4>2 DEF IInv, RootsArePresent
    <3>. QED
      BY <2>2, <3>1
  <2>4. ScanReads'
    BY <1>r, <2>1, <2>2 DEF IInv, ScanReads, Current
  <2>5. ScanRight
    BY <1>2, <1>s, <2>1, <2>2, <2>3, <2>4 DEF ScanRight
  <2>. QED
    BY <1>1, <1>2, <2>1, <2>2, <2>5, ScanMoves
<1>6. CASE PreparationFails
  <2>1. images' = images /\ Fault
    BY <1>6, Zenon DEF PreparationFails
  <2>2. scan' \in ScanRecord /\ scan'.at = "idle"
    BY <1>6, IdleRecords DEF PreparationFails
  <2>3. ScanRight
    BY <2>2 DEF ScanRight, ScanReads
  <2>. QED
    BY <1>1, <1>2, <2>1, <2>3, FaultType, ScanMoves
<1>. QED
  BY <1>3, <1>4, <1>5, <1>6

(* A rollback picks the deployment it restores; its images are checked. *)
LEMMA RollbackReads ==
    ASSUME IInv,
           \/ \E o \in Ops : BeginRollback(o)
           \/ EnsureRollback /\ Present(scan.deployment)
    PROVE  IInv'
<1>1. /\ images \in SUBSET Images /\ scan \in ScanRecord /\ budget \in BudgetRecord
      /\ count \in Targets
  BY DEF IInv, RootsArePresent, ImTypeOK, ScanRecord, BudgetRecord, StoreInv, TypeOK
<1>2. /\ UNCHANGED <<storeVars, imageOf>> /\ client' = client /\ cleaner' = cleaner
      /\ images' = images /\ budget' = budget
  BY Zenon DEF BeginRollback, EnsureRollback
<1>r. /\ live' = live /\ resolved' = resolved /\ count' = count /\ state' = state
      /\ target' = target /\ rolledBack' = rolledBack /\ succeededAt' = succeededAt
      /\ imageOf' = imageOf
  BY <1>2, RowsSame
<1>3. ASSUME NEW o \in Ops, BeginRollback(o) PROVE IInv'
  <2>1. PICK d \in Ops :
            /\ IsRollbackTarget(o, d)
            /\ scan' = [at |-> "rollback", op |-> o, image |-> NoImage, deployment |-> d]
    BY <1>3 DEF BeginRollback
  <2>2. o \in Targets /\ d \in Targets /\ o <= o
    BY DEF Targets, Ops
  <2>3. /\ scan' \in ScanRecord /\ scan'.at = "rollback" /\ scan'.op = o
        /\ scan'.deployment = d
    <3>. HIDE DEF Targets
    <3>. QED
      BY <2>1, <2>2 DEF ScanRecord
  <2>4. live /\ o = count /\ RollsBack(o, "rollout") /\ Restorable(d)
    BY <1>3, <2>1 DEF BeginRollback, Current, IsRollbackTarget
  <2>5. ScanReads'
    BY <1>r, <2>1, <2>2, <2>3, <2>4 DEF ScanReads, RollsBack, IsRollbackTarget, Restorable
  <2>6. ScanRight
    BY <2>3, <2>5 DEF ScanRight
  <2>. QED
    BY <1>1, <1>2, <2>6, ScanMoves
<1>4. CASE EnsureRollback /\ Present(scan.deployment)
  <2>1. scan.at = "ensure" /\ scan' = [scan EXCEPT !.at = "accept"]
    BY <1>4 DEF EnsureRollback
  <2>2. /\ scan' \in ScanRecord /\ scan'.op = scan.op /\ scan'.at = "accept"
        /\ scan'.deployment = scan.deployment
    <3>. HIDE DEF Targets
    <3>. QED
      BY <1>1, <2>1 DEF ScanRecord
  <2>3. ScanReads'
    BY <1>r, <2>1, <2>2 DEF IInv, ScanReads, Current, RollsBack, IsRollbackTarget, Restorable
  <2>4. cleaner'.at = "idle"
    BY <1>2, <2>1, ReadersEmpty DEF IInv, RootsArePresent, ImTypeOK
  <2>5. Present(scan.deployment)'
    BY <1>2, <1>4, <1>r, <2>2 DEF Present, ImageOf
  <2>6. ScanRight
    BY <2>2, <2>3, <2>4, <2>5 DEF ScanRight
  <2>. QED
    BY <1>1, <1>2, <2>6, ScanMoves
<1>. QED
  BY <1>3, <1>4

(* A client's restore reads, waits and checks. *)
LEMMA RestoreReads ==
    ASSUME IInv,
           \/ \E d \in Ops : BeginRestore(d)
           \/ HoldRestore \/ EnsureRestore
           \/ ReuseFails /\ client' = NoRestore /\ UNCHANGED <<storeVars, scan>>
    PROVE  IInv'
<1>1. /\ images \in SUBSET Images /\ client \in ClientRecord /\ budget \in BudgetRecord
  BY DEF IInv, RootsArePresent, ImTypeOK, ClientRecord, BudgetRecord
<1>2. /\ UNCHANGED <<storeVars, imageOf>> /\ scan' = scan /\ cleaner' = cleaner
      /\ images' = images
  BY Zenon DEF BeginRestore, HoldRestore, EnsureRestore, ReuseFails
<1>r. /\ live' = live /\ target' = target /\ succeededAt' = succeededAt /\ imageOf' = imageOf
  BY <1>2, RowsSame
<1>3. cleaner'.at # "idle" => Readers = {}
  BY <1>2 DEF IInv, RootsArePresent, ImTypeOK
<1>4. ScanRight /\ CleanerRight
  BY <1>2, <1>3, StillRight
<1>5. ASSUME ClientRight, budget' \in BudgetRecord PROVE IInv'
  BY <1>1, <1>2, <1>4, <1>5, RowsStill, Assemble
<1>6. ASSUME NEW d \in Ops, BeginRestore(d) PROVE IInv'
  <2>1. budget' \in BudgetRecord
    <3>1. budget.restores \in 0 .. MaxRestores /\ budget.restores > 0
          /\ budget' = [budget EXCEPT !.restores = budget.restores - 1]
      BY <1>1, <1>6 DEF BeginRestore, BudgetRecord
    <3>2. budget.restores - 1 \in 0 .. MaxRestores
      BY <3>1, RetentionAssumption
    <3>. QED
      BY <1>1, <3>1, <3>2 DEF BudgetRecord
  <2>2. d \in Targets
    BY DEF Ops, Targets
  <2>3. client' \in ClientRecord /\ client'.at = "wait" /\ client'.deployment = d
    <3>. HIDE DEF Targets
    <3>. QED
      BY <1>6, <2>2 DEF BeginRestore, ClientRecord
  <2>4. Restorable(d)
    BY <1>6 DEF BeginRestore
  <2>5. ClientRight
    BY <1>r, <2>3, <2>4 DEF ClientRight, ClientReads, Restorable
  <2>. QED
    BY <1>5, <2>1, <2>5
<1>7. CASE HoldRestore
  <2>1. /\ client' \in ClientRecord /\ client'.at = "ensure" /\ client.at = "wait"
        /\ client'.deployment = client.deployment /\ cleaner.at = "idle" /\ budget' = budget
    <3>. HIDE DEF Targets
    <3>. QED
      BY <1>1, <1>7 DEF HoldRestore, ClientRecord
  <2>2. ClientRight
    BY <1>2, <1>r, <2>1 DEF ClientRight, ClientReads, Restorable, IInv
  <2>. QED
    BY <1>1, <1>5, <2>1, <2>2
<1>8. CASE EnsureRestore
  <2>1. client.at = "ensure" /\ budget' = budget
    BY <1>8 DEF EnsureRestore
  <2>2. cleaner'.at = "idle"
    BY <1>2, <2>1, ReadersEmpty DEF IInv, RootsArePresent, ImTypeOK
  <2>3. CASE live /\ Present(client.deployment)
    <3>1. client' \in ClientRecord /\ client'.at = "accept" /\ client'.deployment = client.deployment
      <4>. HIDE DEF Targets
      <4>. QED
        BY <1>1, <1>8, <2>3 DEF EnsureRestore, ClientRecord
    <3>2. ClientReads'
      BY <1>r, <2>1, <3>1 DEF ClientReads, Restorable, IInv
    <3>3. Present(client.deployment)'
      BY <1>2, <1>r, <2>3, <3>1 DEF Present, ImageOf
    <3>4. ClientRight
      BY <2>2, <3>1, <3>2, <3>3 DEF ClientRight
    <3>. QED
      BY <1>1, <1>5, <2>1, <3>4
  <2>4. CASE client' = NoRestore
    BY <1>1, <1>5, <2>1, <2>4, IdleRecords DEF ClientRight, ClientReads
  <2>. QED
    BY <1>8, <2>3, <2>4 DEF EnsureRestore
<1>9. CASE ReuseFails /\ client' = NoRestore
  <2>1. budget' \in BudgetRecord
    BY <1>1, <1>9, FaultType DEF ReuseFails
  <2>. QED
    BY <1>5, <1>9, <2>1, IdleRecords DEF ClientRight, ClientReads
<1>. QED
  BY <1>6, <1>7, <1>8, <1>9

(* A cleanup pass: it takes the lock, reads the roots, lists and removes. *)
LEMMA CleanupStep ==
    ASSUME IInv, BeginCleanup \/ CleanerStep \/ \E i \in Images : KeepImage(i)
    PROVE  IInv'
<1>1. /\ images \in SUBSET Images /\ cleaner \in CleanerRecord /\ budget \in BudgetRecord
      /\ (cleaner.at # "idle" => Readers = {})
  BY DEF IInv, RootsArePresent, ImTypeOK, CleanerRecord, BudgetRecord
<1>2. UNCHANGED <<storeVars, imageOf>> /\ scan' = scan /\ client' = client
  BY Zenon DEF BeginCleanup, CleanerStep, ReadRoots, ListImages, EndCleanup, RemoveImage, KeepImage
<1>3. Retained' = Retained /\ Retained \subseteq images /\ Retained \subseteq Images
  BY <1>2, RowsStill, RetainedType DEF IInv, RootsArePresent
<1>4. ASSUME CleanerRight, images' \in SUBSET Images, Retained \subseteq images',
             budget' \in BudgetRecord, Readers = {},
             images \subseteq images' \/ cleaner.at # "idle"
      PROVE  IInv'
  <2>1. ScanRight /\ ClientRight
    BY <1>2, <1>4, StillRight
  <2>. QED
    BY <1>2, <1>3, <1>4, <2>1, RowsStill, Assemble
<1>5. CASE BeginCleanup
  <2>1. images' = images /\ budget' = budget /\ Readers = {}
    BY <1>5, Zenon DEF BeginCleanup, LockFree
  <2>2. cleaner' \in CleanerRecord /\ cleaner'.at = "roots"
    BY <1>5, IdleRecords DEF BeginCleanup, CleanerRecord, NoClean
  <2>3. CleanerRight
    BY <2>2 DEF CleanerRight, CleanerSpares
  <2>. QED
    BY <1>1, <1>3, <1>4, <2>1, <2>3
<1>6. CASE ReadRoots
  <2>1. images' = images /\ budget' = budget /\ cleaner.at = "roots"
    BY <1>6, Zenon DEF ReadRoots
  <2>2. cleaner' \in CleanerRecord /\ cleaner'.at = "list" /\ cleaner'.retained = Retained
    <3>. HIDE DEF Retained
    <3>. QED
      BY <1>1, <1>3, <1>6 DEF ReadRoots, CleanerRecord
  <2>3. CleanerRight
    BY <1>3, <2>2 DEF CleanerRight, CleanerSpares
  <2>. QED
    BY <1>1, <1>3, <1>4, <2>1, <2>3
<1>7. CASE ListImages
  <2>1. images' = images /\ budget' = budget /\ cleaner.at = "list"
    BY <1>7, Zenon DEF ListImages
  <2>2. /\ cleaner' \in CleanerRecord /\ cleaner'.at = "remove"
        /\ cleaner'.retained = cleaner.retained /\ cleaner'.todo = images \ cleaner.retained
    BY <1>1, <1>7 DEF ListImages, CleanerRecord, Unretained
  <2>3. CleanerRight
    BY <1>3, <2>1, <2>2 DEF CleanerRight, CleanerSpares, IInv
  <2>. QED
    BY <1>1, <1>3, <1>4, <2>1, <2>3
<1>8. ASSUME NEW i \in Images, RemoveImage(i) \/ KeepImage(i) PROVE IInv'
  <2>1. cleaner.at = "remove" /\ i \in cleaner.todo
    BY <1>8 DEF RemoveImage, KeepImage
  <2>2. i \notin Retained
    BY <2>1 DEF IInv, CleanerSpares
  <2>3. images' = images \/ images' = images \ {i}
    BY <1>8 DEF RemoveImage, KeepImage
  <2>4. budget' \in BudgetRecord
    BY <1>1, <1>8, FaultType DEF RemoveImage, KeepImage
  <2>5. /\ cleaner' \in CleanerRecord /\ cleaner'.at = "remove"
        /\ cleaner'.retained = cleaner.retained /\ cleaner'.todo = cleaner.todo \ {i}
    BY <1>1, <1>8, <2>1 DEF RemoveImage, KeepImage, CleanerRecord
  <2>6. CleanerRight
    BY <1>3, <2>1, <2>5 DEF CleanerRight, CleanerSpares, IInv
  <2>. QED
    BY <1>1, <1>3, <1>4, <2>1, <2>2, <2>3, <2>4, <2>6
<1>9. CASE EndCleanup
  <2>1. images' = images /\ budget' = budget /\ cleaner.at = "remove" /\ cleaner' = NoClean
    BY <1>9, Zenon DEF EndCleanup
  <2>2. CleanerRight
    BY <2>1, IdleRecords DEF CleanerRight, CleanerSpares
  <2>. QED
    BY <1>1, <1>3, <1>4, <2>1, <2>2
<1>. QED
  BY <1>5, <1>6, <1>7, <1>8, <1>9 DEF CleanerStep

-----------------------------------------------------------------------------
(* Steps that change the rows preserve the invariant *)

LEMMA RowsMove ==
    ASSUME IInv, [StoreNext]_storeVars, images' = images, budget' \in BudgetRecord,
           imageOf' \in [Ops -> Images \cup {NoImage}],
           \A t \in Ops : live' /\ imageOf'[t] # imageOf[t] => imageOf'[t] \in images,
           SavedHaveImages', Retained' \subseteq images,
           \/ cleaner' = NoClean
           \/ cleaner' = cleaner /\ (cleaner.at = "idle" \/ Retained' \subseteq Retained),
           \/ scan' = NoScan
           \/ scan' = scan /\ scan.at = "idle"
           \/ /\ scan' = scan /\ live' = live /\ resolved' = resolved /\ imageOf' = imageOf
              /\ count' = count + 1,
           client' \in {client, NoRestore}
    PROVE  IInv'
<1>1. StoreInv' /\ images' \in SUBSET Images
  BY StepInv DEF IInv, RootsArePresent, ImTypeOK
<1>2. cleaner.at # "idle" => /\ scan.at \notin {"choose", "save", "ensure", "accept"}
                             /\ client.at \notin {"ensure", "accept"}
  BY ReadersEmpty DEF IInv, RootsArePresent, ImTypeOK
<1>3. scan \in ScanRecord /\ client \in ClientRecord /\ cleaner \in CleanerRecord
  BY DEF IInv, RootsArePresent, ImTypeOK, ScanRecord, ClientRecord, CleanerRecord
<1>4. cleaner'.at # "idle" => cleaner' = cleaner
  BY IdleRecords
<1>r. ASSUME NEW d \in Ops, Restorable(d), live'
      PROVE  d \in succeededAt' /\ target'[d] # 0 /\ target'[d] = target[d]
  BY <1>r, RestorableStep DEF IInv
<1>5. ScanRight
  <2>1. CASE scan'.at = "idle"
    BY <1>3, <2>1, IdleRecords DEF ScanRight, ScanReads
  <2>2. CASE /\ scan' = scan /\ live' = live /\ resolved' = resolved /\ imageOf' = imageOf
             /\ count' = count + 1 /\ scan.at # "idle"
    <3>1. live /\ scan.op \in Ops /\ scan.op <= count
      BY <2>2 DEF IInv, ScanReads
    <3>2. scan.op <= count' /\ scan.op # count'
      BY <2>2, <3>1 DEF IInv, StoreInv, TypeOK, Targets, Ops
    <3>3. scan.at \in {"rollback", "ensure", "accept"} =>
             /\ scan.deployment \in Ops /\ Restorable(scan.deployment)'
             /\ target'[scan.deployment] = target[scan.deployment]
      BY <1>r, <2>2, <3>1 DEF IInv, ScanReads, Restorable
    <3>4. ScanReads'
      BY <2>2, <3>1, <3>2, <3>3 DEF IInv, ScanReads, ImageOf, Current
    <3>5. scan.at = "accept" => Present(scan.deployment)'
      BY <2>2, <3>3 DEF IInv, ChosenImagesStay, Present, ImageOf
    <3>. QED
      BY <1>2, <1>3, <1>4, <2>2, <3>4, <3>5 DEF ScanRight, IInv, ChosenImagesStay
  <2>. QED
    BY <2>1, <2>2, IdleRecords
<1>6. ClientRight
  <2>1. CASE client' = NoRestore \/ client.at = "idle"
    BY <1>3, <2>1, IdleRecords DEF ClientRight, ClientReads
  <2>2. CASE client' = client /\ client.at # "idle"
    <3>1. client.deployment \in Ops
      BY <2>2 DEF IInv, ClientReads
    <3>2. live' => live
      BY DEF StoreNext, Request, RequestDeploy, RequestDelete, RequestRestore, AcceptRestore,
         StopEnvironment, StartEnvironment, Accepts, Execute, TransitionOperation, RollBack,
         RecordOperationError, FinishDeleteOperation, RequestReconcile, RetryOperation,
         PrepareTarget, SavePrepared, PublishPrepared, RecoverInterrupted, storeVars, envVars
    <3>3. live' => /\ Restorable(client.deployment)'
                   /\ target'[client.deployment] = target[client.deployment]
      BY <1>r, <2>2, <3>1, <3>2 DEF IInv, ClientReads, Restorable
    <3>4. ClientReads'
      BY <2>2, <3>1, <3>3 DEF ClientReads
    <3>5. client.at = "accept" /\ live' => Present(client.deployment)'
      <4>1. SUFFICES ASSUME client.at = "accept", live'
                     PROVE  /\ target'[client.deployment] # 0
                            /\ imageOf'[target'[client.deployment]] \in images
        BY <2>2 DEF Present, ImageOf
      <4>2. ImageOf(target[client.deployment]) \in images
        BY <3>2, <4>1 DEF IInv, ChosenImagesStay, Present
      <4>3. target[client.deployment] \in Ops
        <5>1. target[client.deployment] \in Targets /\ target[client.deployment] # 0
          BY <2>2, <3>1, <3>2, <4>1 DEF IInv, ClientReads, Restorable, StoreInv, TypeOK
        <5>. QED
          BY <5>1, MaxOpsAssumption DEF Targets, Ops
      <4>4. target[client.deployment] # 0 /\ imageOf[target[client.deployment]] \in images
        BY <4>2, <4>3, MaxOpsAssumption DEF ImageOf, Ops
      <4>. QED
        BY <3>3, <4>1, <4>3, <4>4
    <3>. QED
      BY <1>2, <1>3, <1>4, <2>2, <3>4, <3>5 DEF ClientRight
  <2>. QED
    BY <2>1, <2>2
<1>7. CleanerRight
  <2>1. CASE cleaner' = NoClean
    BY <2>1, IdleRecords DEF CleanerRight, CleanerSpares
  <2>2. CASE cleaner' = cleaner /\ (cleaner.at = "idle" \/ Retained' \subseteq Retained)
    BY <1>3, <2>2 DEF CleanerRight, CleanerSpares, IInv
  <2>. QED
    BY <2>1, <2>2
<1>. QED
  BY <1>1, <1>5, <1>6, <1>7, Assemble

(* Transitions, publications and new operations make no new root. *)
LEMMA SparedSteps ==
    ASSUME IInv, imageOf' = imageOf,
           \/ UNCHANGED storeVars
           \/ RequestDeploy \/ RequestDelete \/ RecoverInterrupted
           \/ \E o \in Ops : \E from, to, code : TransitionOperation(o, from, to, code)
           \/ \E o \in Ops : PublishPrepared(o)
    PROVE  Spared
<1>1. /\ count \in 0 .. MaxOps /\ \A o \in Ops : o # 0
      /\ \A o \in Ops : o > count => target[o] = 0
  BY MaxOpsAssumption DEF IInv, StoreInv, TypeOK, RowsEndAtCount, Targets, Ops
<1>2. CASE UNCHANGED storeVars \/ RecoverInterrupted
  <2>1. target' = target /\ succeededAt' = succeededAt /\ resolved' = resolved /\ count' = count
    BY <1>2, Zenon DEF RecoverInterrupted, storeVars, envVars, rowVars, historyVars
  <2>. QED
    BY <2>1 DEF Spared
<1>3. CASE RequestDeploy \/ RequestDelete
  <2>1. /\ target' = target /\ succeededAt' = succeededAt /\ resolved' = resolved
        /\ count' = count + 1 /\ count < MaxOps
    BY <1>3, Zenon DEF RequestDeploy, RequestDelete, StartOperation
  <2>2. count' \in Ops /\ count' > count
    BY <1>1, <2>1, MaxOpsAssumption DEF Ops
  <2>. QED
    BY <1>1, <2>1, <2>2 DEF Spared
<1>4. ASSUME NEW o \in Ops, NEW from, NEW to, NEW code, TransitionOperation(o, from, to, code)
      PROVE  Spared
  <2>1. /\ target' = target /\ resolved' = resolved /\ count' = count /\ o = count
        /\ succeededAt' = succeededAt \/ succeededAt' = succeededAt \cup {o}
    BY <1>4, Zenon DEF TransitionOperation, envVars, rowVars
  <2>. QED
    BY <2>1 DEF Spared
<1>5. ASSUME NEW o \in Ops, PublishPrepared(o) PROVE Spared
  <2>1. /\ target' = target /\ resolved' = target[o] /\ count' = count /\ o = count
        /\ succeededAt' = succeededAt
    BY <1>5, Zenon DEF PublishPrepared, historyVars
  <2>. QED
    BY <1>1, <2>1 DEF Spared
<1>. QED
  BY <1>2, <1>3, <1>4, <1>5

(* So they keep what the rows say of images. *)
LEMMA SparedMove ==
    ASSUME IInv, StoreInv', Spared
    PROVE  /\ imageOf' \in [Ops -> Images \cup {NoImage}] /\ SavedHaveImages'
           /\ Retained' \subseteq Retained /\ Retained' \subseteq images
<1>1. Retained' \subseteq Retained
  BY SparedRoots DEF IInv
<1>2. imageOf' = imageOf /\ target' = target
  BY DEF Spared
<1>. QED
  BY <1>1, <1>2 DEF IInv, RootsArePresent, ImTypeOK, SavedHaveImages

(* A restore makes a root of a target whose image is there. *)
LEMMA RestoredRoots ==
    ASSUME IInv, StoreInv', imageOf' = imageOf, NEW st, NEW er, NEW oc, NEW r,
           NEW d \in Ops, Present(d), AcceptRestore(st, er, oc, d, r)
    PROVE  /\ SavedHaveImages' /\ Retained' \subseteq images
           /\ live' = live /\ resolved' = resolved /\ count' = count + 1
<1>1. /\ live' = live /\ resolved' = resolved /\ count' = count + 1 /\ count < MaxOps
      /\ succeededAt' = succeededAt
      /\ target' = [target EXCEPT ![count + 1] = target[d]] /\ target[d] # 0
  BY Zenon DEF AcceptRestore, StartOperation, Restorable
<1>2. /\ count \in 0 .. MaxOps /\ target \in [Ops -> Targets] /\ succeededAt \subseteq Ops
      /\ \A o \in Ops : o > count => o \notin succeededAt
  BY DEF IInv, StoreInv, TypeOK, RowsEndAtCount, Targets
<1>3. count + 1 \in Ops /\ count + 1 > count /\ count + 1 # 0
  BY <1>1, <1>2, MaxOpsAssumption DEF Ops
<1>4. /\ target'[count + 1] = target[d]
      /\ \A o \in Ops : o # count + 1 => target'[o] = target[o]
      /\ \A o \in succeededAt : target'[o] = target[o]
  BY <1>1, <1>2, <1>3
<1>5. SavedHaveImages'
  BY <1>2, <1>4 DEF IInv, SavedHaveImages
<1>6. Succeeded' = Succeeded
  BY <1>1, <1>4 DEF Succeeded
<1>7. Recent' = Recent /\ \A e \in Recent : target'[e] = target[e]
  BY <1>4, <1>6 DEF Recent, Succeeded
<1>8. \A t : ImageOf(t)' = ImageOf(t)
  BY DEF ImageOf
<1>9. Retained \subseteq images /\ ImageOf(target[d]) \in images
  BY DEF IInv, RootsArePresent, Present
<1>10. ASSUME NEW i \in Retained' PROVE i \in images
  <2>1. \/ i \in Retained
        \/ i = ImageOf(target[d])
    <3>1. /\ i # NoImage
          /\ \/ i = ImageOf(resolved)
             \/ i = ImageOf(target[d])
             \/ \E e \in Recent : i = ImageOf(target[e])
      BY <1>1, <1>4, <1>7, <1>8, <1>10, RetainedMembersNext DEF RootImages, ImageOf
    <3>. HIDE DEF ImageOf, Recent
    <3>. QED
      BY <3>1, RetainedMembers DEF RootImages
  <2>. QED
    BY <1>9, <2>1
<1>. QED
  BY <1>1, <1>5, <1>10

(* A saved target's image is there. *)
LEMMA SavedRoots ==
    ASSUME IInv, StoreInv', NEW o \in Ops, NEW i \in images, o = count,
           target' = [target EXCEPT ![o] = o], imageOf' = [imageOf EXCEPT ![o] = i],
           resolved' = resolved, count' = count, succeededAt' = succeededAt
    PROVE  /\ imageOf' \in [Ops -> Images \cup {NoImage}]
           /\ \A t \in Ops : imageOf'[t] # imageOf[t] => imageOf'[t] \in images
           /\ SavedHaveImages' /\ Retained' \subseteq images
<1>1. /\ images \in SUBSET Images /\ imageOf \in [Ops -> Images \cup {NoImage}]
      /\ target \in [Ops -> Targets] /\ succeededAt \subseteq Ops /\ resolved \in Targets
      /\ Retained \subseteq images
  BY DEF IInv, RootsArePresent, ImTypeOK, StoreInv, TypeOK
<1>2. o # 0 /\ \A t \in Targets : t = 0 \/ t \in Ops
  BY MaxOpsAssumption DEF Ops, Targets
<1>3. /\ imageOf' \in [Ops -> Images \cup {NoImage}] /\ imageOf'[o] = i
      /\ \A t \in Ops : imageOf'[t] = imageOf[t] \/ imageOf'[t] = i
  BY <1>1
<1>4. target'[o] = o /\ \A p \in Ops : p # o => target'[p] = target[p]
  BY <1>1
<1>5. SavedHaveImages'
  BY <1>1, <1>2, <1>3, <1>4 DEF IInv, SavedHaveImages
<1>6. Succeeded \subseteq Succeeded' /\ \A p \in Succeeded' : p # o => p \in Succeeded
  BY <1>1, <1>2, <1>4 DEF Succeeded
<1>7. Recent' \subseteq Ops /\ \A p \in Recent' : p # o => p \in Recent
  <2>1. \A p \in Recent' : p \in Succeeded' /\ p \in Ops
    BY <1>1 DEF Recent, Succeeded
  <2>. QED
    BY <1>6, <2>1, RecentShrinks DEF IInv
<1>8. \A t \in Targets : ImageOf(t)' = ImageOf(t) \/ ImageOf(t)' = i
  BY <1>2, <1>3 DEF ImageOf
<1>9. ImageOf(target[o])' = i
  BY <1>2, <1>3, <1>4 DEF ImageOf
<1>10. ASSUME NEW j \in Retained' PROVE j \in images
  <2>1. /\ j # NoImage
        /\ \/ j = ImageOf(resolved)'
           \/ j = ImageOf(target[o])'
           \/ \E p \in Recent' : j = ImageOf(target[p])'
    BY <1>10, RetainedMembersNext DEF RootImages
  <2>2. CASE j = ImageOf(resolved)'
    BY <1>1, <1>8, <2>1, <2>2, RetainedMembers DEF RootImages, ImageOf
  <2>3. CASE j = ImageOf(target[o])'
    BY <1>9, <2>3
  <2>4. ASSUME NEW p \in Recent', p # o, j = ImageOf(target[p])' PROVE j \in images
    <3>1. p \in Ops /\ p \in Recent /\ target'[p] = target[p] /\ target[p] \in Targets
      BY <1>1, <1>4, <1>7, <2>4
    <3>2. j = i \/ j = ImageOf(target[p])
      BY <1>2, <1>3, <2>4, <3>1 DEF ImageOf
    <3>. HIDE DEF ImageOf, Recent
    <3>. QED
      BY <1>1, <2>1, <3>1, <3>2, RetainedMembers DEF RootImages
  <2>. QED
    BY <2>1, <2>2, <2>3, <2>4
<1>. QED
  BY <1>3, <1>5, <1>10

(* A preparation saves its target, unless it was superseded. *)
LEMMA SaveStep ==
    ASSUME IInv, [StoreNext]_storeVars, SaveTarget
    PROVE  IInv'
<1>1. /\ scan.at = "save" /\ scan.op \in Ops /\ scan.image \in images /\ cleaner.at = "idle"
      /\ budget \in BudgetRecord
  BY ReadersEmpty DEF SaveTarget, IInv, ScanReads, ChosenImagesStay, RootsArePresent, ImTypeOK,
     BudgetRecord
<1>2. /\ scan' = NoScan /\ images' = images /\ client' = client /\ cleaner' = cleaner
      /\ budget' = budget
  BY Zenon DEF SaveTarget
<1>3. StoreInv'
  BY StepInv DEF IInv
<1>4. CASE Current(scan.op)
  <2>1. /\ scan.op = count /\ target' = [target EXCEPT ![scan.op] = scan.op]
        /\ imageOf' = [imageOf EXCEPT ![scan.op] = scan.image]
        /\ resolved' = resolved /\ count' = count /\ succeededAt' = succeededAt
    BY <1>4, Zenon DEF SaveTarget, SavePrepared, envVars, historyVars
  <2>2. /\ imageOf' \in [Ops -> Images \cup {NoImage}]
        /\ \A t \in Ops : imageOf'[t] # imageOf[t] => imageOf'[t] \in images
        /\ SavedHaveImages' /\ Retained' \subseteq images
    BY <1>1, <1>3, <2>1, SavedRoots
  <2>. QED
    BY <1>1, <1>2, <2>2, RowsMove
<1>5. CASE ~Current(scan.op)
  <2>1. UNCHANGED storeVars /\ imageOf' = imageOf
    BY <1>5, Zenon DEF SaveTarget
  <2>2. Spared
    BY <2>1, SparedSteps
  <2>. QED
    BY <1>1, <1>2, <1>3, <2>1, <2>2, SparedMove, RowsMove
<1>. QED
  BY <1>4, <1>5

(* An operation fails instead of being rolled back. *)
LEMMA FailInsteadStep ==
    ASSUME IInv, [StoreNext]_storeVars, scan.at # "idle", FailInstead, scan' = NoScan,
           imageOf' = imageOf, images' = images, client' = client, cleaner' = cleaner,
           budget' \in BudgetRecord
    PROVE  IInv'
<1>1. StoreInv'
  BY StepInv DEF IInv
<1>2. Spared
  BY FailInsteadRefines, SparedSteps
<1>. QED
  BY <1>1, <1>2, SparedMove, RowsMove

(* An automatic rollback is accepted, or the operation just fails. *)
LEMMA RollbackStep ==
    ASSUME IInv, [StoreNext]_storeVars,
           \/ EnsureRollback /\ ~Present(scan.deployment)
           \/ ReuseFails /\ scan.at = "ensure" /\ FailInstead /\ scan' = NoScan /\ client' = client
           \/ AcceptRollback
    PROVE  IInv'
<1>1. budget \in BudgetRecord
  BY DEF IInv, RootsArePresent, ImTypeOK, BudgetRecord
<1>2. CASE EnsureRollback /\ ~Present(scan.deployment)
  <2>1. /\ scan.at = "ensure" /\ scan' = NoScan /\ FailInstead /\ images' = images
        /\ imageOf' = imageOf /\ client' = client /\ cleaner' = cleaner /\ budget' = budget
    BY <1>2, Zenon DEF EnsureRollback
  <2>. QED
    BY <1>1, <2>1, FailInsteadStep
<1>3. CASE ReuseFails /\ scan.at = "ensure" /\ FailInstead /\ scan' = NoScan /\ client' = client
  <2>1. Fault /\ images' = images /\ imageOf' = imageOf /\ cleaner' = cleaner
    BY <1>3, Zenon DEF ReuseFails
  <2>. QED
    BY <1>1, <1>3, <2>1, FaultType, FailInsteadStep
<1>4. CASE AcceptRollback
  <2>1. /\ scan.at = "accept" /\ scan' = NoScan /\ images' = images
        /\ imageOf' = imageOf /\ client' = client /\ cleaner' = cleaner /\ budget' = budget
    BY <1>4, Zenon DEF AcceptRollback
  <2>2. CASE FailInstead
    BY <1>1, <2>1, <2>2, FailInsteadStep
  <2>3. CASE RollBack(scan.op, "rollout", scan.deployment)
    <3>1. scan.deployment \in Ops /\ Present(scan.deployment) /\ cleaner.at = "idle"
      BY <2>1, ReadersEmpty DEF IInv, ScanReads, ChosenImagesStay, RootsArePresent, ImTypeOK
    <3>2. StoreInv'
      BY StepInv DEF IInv
    <3>3. SavedHaveImages' /\ Retained' \subseteq images
      BY <2>1, <2>3, <3>1, <3>2, RestoredRoots DEF RollBack
    <3>. QED
      BY <1>1, <2>1, <3>1, <3>3, RowsMove DEF IInv, RootsArePresent, ImTypeOK
  <2>. QED
    BY <1>4, <2>2, <2>3 DEF AcceptRollback
<1>. QED
  BY <1>2, <1>3, <1>4

(* A client's restore is accepted or refused. *)
LEMMA RestoreStep ==
    ASSUME IInv, [StoreNext]_storeVars, AcceptRestored
    PROVE  IInv'
<1>1. /\ client.at = "accept" /\ client.deployment \in Ops /\ cleaner.at = "idle"
      /\ budget \in BudgetRecord
  BY ReadersEmpty DEF AcceptRestored, IInv, ClientReads, RootsArePresent, ImTypeOK, BudgetRecord
<1>2. /\ client' = NoRestore /\ images' = images /\ imageOf' = imageOf /\ scan' = scan
      /\ cleaner' = cleaner /\ budget' = budget
  BY Zenon DEF AcceptRestored
<1>3. StoreInv'
  BY StepInv DEF IInv
<1>4. CASE Accepts /\ RequestRestore(client.deployment)
  <2>1. Present(client.deployment)
    BY <1>1, <1>4 DEF IInv, ChosenImagesStay, Accepts
  <2>2. /\ SavedHaveImages' /\ Retained' \subseteq images
        /\ live' = live /\ resolved' = resolved /\ count' = count + 1
    BY <1>1, <1>2, <1>3, <1>4, <2>1, RestoredRoots DEF RequestRestore
  <2>. QED
    BY <1>1, <1>2, <2>2, RowsMove DEF IInv, RootsArePresent, ImTypeOK
<1>5. CASE UNCHANGED storeVars
  <2>1. UNCHANGED <<storeVars, imageOf>> /\ (cleaner'.at # "idle" => Readers = {})
    BY <1>1, <1>2, <1>5
  <2>2. ScanRight /\ CleanerRight
    BY <1>2, <2>1, StillRight
  <2>3. ClientRight
    BY <1>2, IdleRecords DEF ClientRight, ClientReads
  <2>. QED
    BY <1>1, <1>2, <2>1, <2>2, <2>3, RowsStill, Assemble DEF IInv, RootsArePresent, ImTypeOK
<1>. QED
  BY <1>4, <1>5 DEF AcceptRestored

(* Requests, transitions, publication and deletion. *)
LEMMA WorkStep ==
    ASSUME IInv, [StoreNext]_storeVars, Work
    PROVE  IInv'
<1>1. budget \in BudgetRecord /\ imageOf \in [Ops -> Images \cup {NoImage}]
  BY DEF IInv, RootsArePresent, ImTypeOK, BudgetRecord
<1>2. /\ imageOf' = [o \in Ops |-> IF live' THEN imageOf[o] ELSE NoImage]
      /\ images' = images /\ scan' = scan /\ client' = client /\ cleaner' = cleaner
      /\ budget' = budget
  BY Zenon DEF Work
<1>3. StoreInv'
  BY StepInv DEF IInv
<1>4. ASSUME live', Spared,
             \/ scan.at = "idle"
             \/ live' = live /\ resolved' = resolved /\ count' = count + 1
      PROVE  IInv'
  <2>1. imageOf' = imageOf
    BY <1>1, <1>2, <1>4
  <2>. QED
    BY <1>1, <1>2, <1>3, <1>4, <2>1, SparedMove, RowsMove
<1>5. live' => imageOf' = imageOf
  BY <1>1, <1>2
<1>6. CASE RequestDeploy \/ RequestDelete
  <2>0. live /\ UNCHANGED <<live, resolved>> /\ count' = count + 1
    BY <1>6, Zenon DEF RequestDeploy, RequestDelete, StartOperation, Accepts, envVars
  <2>1. live' /\ live' = live /\ resolved' = resolved /\ count' = count + 1
    BY <2>0
  <2>2. Spared
    BY <1>5, <1>6, <2>1, SparedSteps
  <2>. QED
    BY <1>4, <2>1, <2>2
<1>7. ASSUME NEW o \in Ops, scan.at = "idle",
             (\E from, to, code : TransitionOperation(o, from, to, code)) \/ PublishPrepared(o)
      PROVE  IInv'
  <2>0. live /\ UNCHANGED live
    BY <1>7, Zenon DEF TransitionOperation, PublishPrepared, envVars
  <2>1. live'
    BY <2>0
  <2>2. Spared
    BY <1>5, <1>7, <2>1, SparedSteps
  <2>. QED
    BY <1>4, <1>7, <2>1, <2>2
<1>8. ASSUME NEW o \in Ops, scan.at = "idle", FinishDeleteOperation(o) PROVE IInv'
  <2>1. /\ live' = FALSE /\ resolved' = 0 /\ count' = 0 /\ target' = [p \in Ops |-> 0]
        /\ succeededAt' = {}
    BY <1>8, Zenon DEF FinishDeleteOperation
  <2>2. imageOf' \in [Ops -> Images \cup {NoImage}] /\ SavedHaveImages'
    BY <1>1, <1>2, <2>1 DEF SavedHaveImages
  <2>3. Recent' = {}
    BY <2>1 DEF Recent, Succeeded
  <2>4. Retained' = {}
    BY <2>1, <2>3, RetainedMembersNext DEF RootImages, ImageOf
  <2>5. Retained' \subseteq images /\ Retained' \subseteq Retained
    BY <2>4
  <2>. QED
    BY <1>1, <1>2, <1>8, <2>1, <2>2, <2>5, RowsMove
<1>. QED
  BY <1>6, <1>7, <1>8 DEF Work

(* The daemon stops and starts. *)
LEMMA RestartStep ==
    ASSUME IInv, [StoreNext]_storeVars, Restart
    PROVE  IInv'
<1>1. /\ Fault /\ images' = images /\ imageOf' = imageOf /\ scan' = NoScan
      /\ client' = NoRestore /\ cleaner' = NoClean
      /\ RecoverInterrupted \/ UNCHANGED storeVars
  BY Zenon DEF Restart
<1>2. budget' \in BudgetRecord
  BY <1>1, FaultType DEF IInv, RootsArePresent, ImTypeOK, BudgetRecord
<1>3. StoreInv'
  BY StepInv DEF IInv
<1>4. Spared
  BY <1>1, SparedSteps
<1>. QED
  BY <1>1, <1>2, <1>3, <1>4, SparedMove, RowsMove

-----------------------------------------------------------------------------
(* The invariant *)

LEMMA RetentionInit == Init => IInv
<1>. SUFFICES ASSUME Init PROVE IInv
  OBVIOUS
<1>1. StoreInv /\ resolved = 0 /\ count = 0 /\ succeededAt = {} /\ target = [o \in Ops |-> 0]
  BY InitInv DEF Init, StoreInit
<1>2. /\ scan \in ScanRecord /\ scan.at = "idle" /\ client \in ClientRecord
      /\ client.at = "idle" /\ cleaner \in CleanerRecord /\ cleaner.at = "idle"
  BY IdleRecords DEF Init
<1>3. budget \in BudgetRecord
  BY RetentionAssumption DEF Init, BudgetRecord
<1>4. ImTypeOK
  BY <1>2, <1>3 DEF Init, ImTypeOK, ScanRecord, ClientRecord, CleanerRecord, BudgetRecord
<1>5. Recent = {}
  BY <1>1 DEF Recent, Succeeded
<1>6. Retained = {}
  BY <1>1, <1>5, RetainedMembers DEF RootImages, ImageOf
<1>7. Retained \subseteq images
  BY <1>6
<1>8. ChosenImagesStay /\ ScanReads /\ ClientReads /\ SavedHaveImages /\ CleanerSpares
  BY <1>1, <1>2 DEF ChosenImagesStay, ScanReads, ClientReads, SavedHaveImages, CleanerSpares
<1>. QED
  BY <1>1, <1>4, <1>7, <1>8 DEF IInv, RootsArePresent

LEMMA RetentionStep == IInv /\ [Next]_vars => IInv'
<1>. SUFFICES ASSUME IInv, [Next]_vars PROVE IInv'
  OBVIOUS
<1>1. [StoreNext]_storeVars
  BY StepRefines
<1>2. CASE UNCHANGED vars
  <2>1. /\ UNCHANGED <<storeVars, imageOf>> /\ images' = images /\ budget' = budget
        /\ scan' = scan /\ client' = client /\ cleaner' = cleaner
    BY <1>2, Zenon DEF vars
  <2>2. ScanRight
    BY <2>1, StillRight DEF IInv, RootsArePresent, ImTypeOK
  <2>. QED
    BY <2>1, <2>2, ScanMoves DEF IInv, RootsArePresent, ImTypeOK, BudgetRecord
<1>3. CASE (\E o \in Ops : BeginPreparation(o)) \/ HoldImages \/ ChooseImage \/ PreparationFails
  BY <1>3, PreparationStep
<1>4. CASE \E o \in Ops : BeginRollback(o)
  BY <1>4, RollbackReads
<1>5. CASE SaveTarget
  BY <1>1, <1>5, SaveStep
<1>6. CASE EnsureRollback
  BY <1>1, <1>6, RollbackReads, RollbackStep
<1>7. CASE AcceptRollback
  BY <1>1, <1>7, RollbackStep
<1>8. CASE (\E d \in Ops : BeginRestore(d)) \/ HoldRestore \/ EnsureRestore
  BY <1>8, RestoreReads
<1>9. CASE AcceptRestored
  BY <1>1, <1>9, RestoreStep
<1>10. CASE ReuseFails
  <2>1. \/ scan.at = "ensure" /\ scan' = NoScan /\ FailInstead /\ client' = client
        \/ client' = NoRestore /\ UNCHANGED <<storeVars, scan>>
    BY <1>10, Zenon DEF ReuseFails
  <2>. QED
    BY <1>1, <1>10, <2>1, RestoreReads, RollbackStep
<1>11. CASE BeginCleanup \/ CleanerStep \/ \E i \in Images : KeepImage(i)
  BY <1>11, CleanupStep
<1>12. CASE Work
  BY <1>1, <1>12, WorkStep
<1>13. CASE Restart
  BY <1>1, <1>13, RestartStep
<1>. QED
  BY <1>2, <1>3, <1>4, <1>5, <1>6, <1>7, <1>8, <1>9, <1>10, <1>11, <1>12, <1>13
     DEF Next, ScanStep, ClientStep

(* The inductive invariant holds throughout. *)
THEOREM RetentionInvariant == Spec => []IInv
<1>1. Init => IInv
  BY RetentionInit
<1>2. IInv /\ [Next]_vars => IInv'
  BY RetentionStep
<1>. QED
  BY <1>1, <1>2, PTL DEF Spec

(* Every step beside the cleanup is a transaction the store allows. *)
THEOREM RetentionImplementsStore == Spec => StoreSpec
<1>1. Init => StoreInit
  BY DEF Init
<1>2. IInv /\ [Next]_vars => [StoreNext]_storeVars
  BY StepRefines
<1>. QED
  BY <1>1, <1>2, RetentionInvariant, PTL DEF Spec, StoreSpec

(* The images of what runs, of the latest deployment and of the last          *)
(* successful ones are never removed (clean_images, retained_on).             *)
THEOREM RetentionRootsArePresent == Spec => []RootsArePresent
BY RetentionInvariant, PTL DEF IInv

(* What an activity chose or checked under the lock is there when it is       *)
(* recorded (prepare_target, ImagesInUse::ensure, reuse_images).              *)
THEOREM RetentionChosenImagesStay == Spec => []ChosenImagesStay
BY RetentionInvariant, PTL DEF IInv

(* With a deployment kept, an automatic rollback never lacks its images       *)
(* (rollback_target and retained_on choose independently).                    *)
THEOREM RetentionRollbackIsAvailable == Spec => []RollbackIsAvailable
<1>1. IInv => RollbackIsAvailable
  <2>1. SUFFICES ASSUME IInv, Keep > 0, NEW d \in Ops, RollsBack(count, "rollout"),
                        IsRollbackTarget(count, d)
                 PROVE  Present(d)
    BY DEF RollbackIsAvailable
  <2>2. d \in Succeeded /\ target[d] # 0 /\ succeededAt \subseteq Ops
    BY <2>1 DEF IsRollbackTarget, Restorable, Succeeded, IInv, StoreInv, TypeOK
  <2>3. \A e \in Succeeded : e <= d
    BY <2>1, <2>2 DEF IsRollbackTarget, Restorable, RollsBack, Succeeded
  <2>4. {e \in Succeeded : e > d} = {}
    <3>1. d \in Nat /\ \A e \in Succeeded : e \in Nat
      BY <2>1, <2>2, MaxOpsAssumption DEF Succeeded, Ops
    <3>. HIDE DEF Succeeded
    <3>. QED
      BY <2>3, <3>1
  <2>5. d \in Recent
    BY <2>1, <2>2, <2>4, FS_EmptySet DEF Recent
  <2>6. target[d] \in Ops /\ imageOf[target[d]] \in Images
    <3>1. target[d] \in Targets
      BY <2>1 DEF IInv, StoreInv, TypeOK
    <3>. QED
      BY <2>1, <2>2, <3>1, MaxOpsAssumption DEF IInv, SavedHaveImages, Targets, Ops
  <2>7. ImageOf(target[d]) \in Images /\ ImageOf(target[d]) # NoImage
    BY <2>2, <2>6, RetentionAssumption DEF ImageOf
  <2>8. ImageOf(target[d]) \in Retained
    <3>. HIDE DEF ImageOf, Recent
    <3>. QED
      BY <2>5, <2>7, RetainedMembers DEF RootImages
  <2>. QED
    BY <2>1, <2>8 DEF Present, IInv, RootsArePresent
<1>. QED
  BY <1>1, RetentionInvariant, PTL

=============================================================================
