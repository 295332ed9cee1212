--------------------------- MODULE AcceptanceProofs ---------------------------
(***************************************************************************)
(* Proofs about Acceptance, for every number of calls, keys, revisions,    *)
(* operations and expiries: what requests do to the environment refines    *)
(* OperationStore, a repeated call acts once for each receipt it lost, and *)
(* on what its client inspected.                                           *)
(*                                                                         *)
(* The inductive invariant says why: what an application's environment     *)
(* would deploy changes only with its revision, so a revision names one    *)
(* content; the application that has the name is never one that had it     *)
(* before; and a call that took effect more often than it lost receipts    *)
(* still has one.                                                          *)
(***************************************************************************)
EXTENDS Acceptance, OperationStoreProofs

AppRecord ==
    [id : 0 .. 2, generation : 0 .. MaxRevisions, saved : 0 .. MaxRevisions,
     deleting : BOOLEAN]
Contents == (0 .. MaxRevisions) \X Names
CallRecord ==
    [key : Keys \cup {0}, kind : Requests \cup {"none"}, app : 0 .. 2,
     expected : 0 .. NoCheck, to : Names, seen : (0 .. 2) \X Contents]
ReceiptRecord == [call : {0} \cup CallIds, app : 0 .. 2]

\* The application and what its environment is resolved to.
IntentInv ==
    /\ app \in AppRecord /\ name \in Names /\ resolvedAt \in 0 .. MaxRevisions
    /\ live => app.id = 1 /\ app.generation > 0 /\ resolvedAt <= app.generation
    /\ app.id = 0 => app = NoApp
    /\ app.deleting => live /\ deleteIntent

\* A deployment of the present revision captured what would be deployed now;
\* one that was promoted also if the revision advanced with it.
SnapshotInv ==
    /\ revision \in [Ops -> 0 .. MaxRevisions]
    /\ captured \in [Ops -> Contents]
    /\ live => \A o \in Ops :
           /\ revision[o] <= app.generation
           /\ revision[o] = app.generation /\ target[o] \in {0, o} => captured[o] = Rendered
    /\ ResolvedIsCurrent

\* A call names the application that had the name when it was sent, and its
\* revision names what that would have deployed.
CallsInv ==
    /\ calls \in [CallIds -> CallRecord]
    /\ \A i \in CallIds : calls[i].kind # "none" =>
           /\ calls[i].key \in Keys
           /\ calls[i].seen[1] = calls[i].app
           /\ app.id = 1 => calls[i].app = 1
           /\ app.id = 0 => calls[i].app # 2
           /\ calls[i].app = app.id /\ calls[i].expected # NoCheck =>
                  /\ calls[i].expected <= app.generation
                  /\ calls[i].expected = app.generation => calls[i].seen[2] = Rendered

\* A receipt is that of a call under its key, and of what still exists.
ReceiptsInv ==
    /\ receipts \in [Keys -> ReceiptRecord]
    /\ \A k \in Keys : receipts[k] # NoReceipt =>
           /\ receipts[k].call # 0 /\ receipts[k].app # 0
           /\ calls[receipts[k].call].key = k
           /\ calls[receipts[k].call].kind # "none"
           /\ calls[receipts[k].call].kind \in {"save", "apply"} => receipts[k].app = app.id
           /\ calls[receipts[k].call].kind \notin {"save", "apply", "destroy"} => live
    /\ expiries \in 0 .. MaxExpiries

\* A call that acted once more than it lost receipts has one.
ActsInv ==
    /\ acts \in [CallIds -> Nat] /\ lapses \in [CallIds -> Nat]
    /\ \A i \in CallIds : acts[i] > lapses[i] =>
           /\ acts[i] = lapses[i] + 1
           /\ calls[i].kind # "none"
           /\ receipts[calls[i].key].call = i

AInv ==
    /\ StoreInv
    /\ IntentInv
    /\ SnapshotInv
    /\ CallsInv
    /\ ReceiptsInv
    /\ ActsInv

-----------------------------------------------------------------------------
(* What steps of the store do to an environment that stays. *)

\* Targets are prepared once, and a new operation may carry one of an older.
TargetsMove ==
    /\ promoted' = promoted
    /\ count' \in {count, count + 1}
    /\ \A o \in Ops :
           \/ target'[o] = target[o]
           \/ target[o] = 0 /\ target'[o] = o /\ o <= count
           \/ /\ o = count + 1 /\ count' = count + 1 /\ kind'[o] = "deploy"
              /\ target'[o] \notin {0, o}

LEMMA RestoreMoves ==
    ASSUME StoreInv, NEW st, NEW er, NEW oc, NEW d \in Ops, NEW r,
           AcceptRestore(st, er, oc, d, r)
    PROVE  TargetsMove
<1>1. /\ count < MaxOps /\ count' = count + 1 /\ promoted' = promoted
      /\ target' = [target EXCEPT ![count + 1] = target[d]]
      /\ kind' = [kind EXCEPT ![count + 1] = "deploy"]
      /\ d \in succeededAt /\ target[d] # 0
  BY Zenon DEF AcceptRestore, StartOperation, Restorable
<1>2. /\ count \in 0 .. MaxOps /\ kind \in [Ops -> Kinds] /\ target \in [Ops -> Targets]
      /\ d <= count /\ (target[d] = d \/ target[d] \in succeededAt)
      /\ \A e \in succeededAt : e \in Ops /\ e <= count
  BY <1>1, MaxOpsAssumption DEF StoreInv, TypeOK, RowsEndAtCount, RestoresOnlySucceededTargets, Targets, Ops
<1>3. count + 1 \in Ops /\ target[d] # count + 1
  BY <1>1, <1>2, MaxOpsAssumption DEF Ops
<1>. QED
  BY <1>1, <1>2, <1>3 DEF TargetsMove

LEMMA RowsMove == ASSUME UNCHANGED rowVars PROVE TargetsMove
BY DEF TargetsMove, rowVars

(* Every request is on an environment that exists, and never drops the       *)
(* intent to delete it.                                                      *)
LEMMA RequestMoves ==
    ASSUME StoreInv, Request
    PROVE  /\ live /\ live' /\ (deleteIntent => deleteIntent')
           /\ TargetsMove
           /\ [StoreNext]_storeVars
<1>1. live /\ UNCHANGED live /\ (deleteIntent' = TRUE \/ UNCHANGED deleteIntent)
  BY Zenon DEF Request, RequestDeploy, RequestDelete, RequestRestore, AcceptRestore,
               StopEnvironment, StartEnvironment, Accepts
<1>2. TargetsMove
  <2>1. CASE RequestDeploy \/ RequestDelete
    <3>1. count' = count + 1 /\ target' = target /\ promoted' = promoted
      BY <2>1, Zenon DEF RequestDeploy, RequestDelete, StartOperation
    <3>. QED
      BY <3>1 DEF TargetsMove
  <2>2. CASE StopEnvironment \/ StartEnvironment
    BY <2>2, RowsMove DEF StopEnvironment, StartEnvironment
  <2>3. CASE \E d \in Ops : RequestRestore(d)
    BY <2>3, RestoreMoves DEF RequestRestore
  <2>. QED
    BY <2>1, <2>2, <2>3 DEF Request
<1>. QED
  BY <1>1, <1>2 DEF StoreNext

(* So are the reconciler's transactions but the publication and the end of a *)
(* deletion.                                                                 *)
LEMMA ExecuteMoves ==
    ASSUME StoreInv, (\E o \in Ops : Execute(o)) \/ RecoverInterrupted,
           ~\E o \in Ops : PublishPrepared(o)
    PROVE  /\ live' => live /\ UNCHANGED deleteIntent /\ TargetsMove
           /\ [StoreNext]_storeVars
<1>1. [StoreNext]_storeVars
  BY DEF StoreNext
<1>2. CASE RecoverInterrupted
  <2>1. UNCHANGED <<live, deleteIntent, rowVars>>
    BY <1>2, Zenon DEF RecoverInterrupted, envVars
  <2>. QED
    BY <1>1, <2>1, RowsMove
<1>3. ASSUME NEW o \in Ops, Execute(o) PROVE live' => live /\ UNCHANGED deleteIntent /\ TargetsMove
  <2>1. ASSUME NEW from, NEW to, NEW code, TransitionOperation(o, from, to, code)
        PROVE  UNCHANGED <<live, deleteIntent, rowVars>>
    BY <2>1, Zenon DEF TransitionOperation, envVars
  <2>2. ASSUME NEW code, NEW d \in Ops, RollBack(o, code, d)
        PROVE  UNCHANGED <<live, deleteIntent>> /\ TargetsMove
    <3>1. UNCHANGED <<live, deleteIntent>>
      BY <2>2, Zenon DEF RollBack, AcceptRestore
    <3>. QED
      BY <2>2, <3>1, RestoreMoves DEF RollBack
  <2>3. ASSUME NEW code, RecordOperationError(o, code)
        PROVE  UNCHANGED <<live, deleteIntent, rowVars>>
    BY <2>3, Zenon DEF RecordOperationError, envVars
  <2>4. CASE FinishDeleteOperation(o)
    BY <2>4 DEF FinishDeleteOperation
  <2>5. CASE RequestReconcile(o)
    <3>1. UNCHANGED <<live, deleteIntent, rowVars>>
      BY <2>5, Zenon DEF RequestReconcile, RetryOperation, envVars
    <3>. QED
      BY <3>1, RowsMove
  <2>6. CASE PrepareTarget(o)
    <3>1. /\ UNCHANGED <<live, deleteIntent, count, promoted>>
          /\ target[o] = 0 /\ target' = [target EXCEPT ![o] = o] /\ o = count
      BY <2>6, Zenon DEF PrepareTarget, SavePrepared, envVars
    <3>2. target \in [Ops -> Targets] /\ o \in Nat
      BY MaxOpsAssumption DEF StoreInv, TypeOK, Ops
    <3>. QED
      BY <3>1, <3>2 DEF TargetsMove
  <2>. QED
    BY <1>3, <2>1, <2>2, <2>3, <2>4, <2>5, <2>6, RowsMove DEF Execute
<1>. QED
  BY <1>1, <1>2, <1>3

-----------------------------------------------------------------------------
(* What requests and the reconciler do to the application *)

\* What the environment would deploy changes only with the revision, and the
\* name passes from one application to none, and from none to another.
Advances ==
    \/ app'.id = app.id /\ app'.generation = app.generation /\ Rendered' = Rendered
    \/ app'.id = app.id /\ app'.generation > app.generation
    \/ ~live' /\ app.id = 1 /\ app'.id = 0
    \/ ~live' /\ app.id = 0 /\ app'.id = 2

\* The resolved revision follows the application's only with what it names.
ResolvedMoves ==
    live' => \/ resolvedAt' = resolvedAt
             \/ /\ resolvedAt = app.generation /\ resolvedAt' = app'.generation
                /\ Rendered' = Rendered

LEMMA NoAppRecord == NoApp \in AppRecord
BY AcceptanceAssumption DEF NoApp, AppRecord

LEMMA AdvanceRecord ==
    ASSUME NEW a \in AppRecord, a.generation < MaxRevisions
    PROVE  /\ a.generation \in Nat
           /\ a.id \in 0 .. 2 /\ a.saved \in 0 .. MaxRevisions /\ a.deleting \in BOOLEAN
           /\ a.generation + 1 \in 0 .. MaxRevisions
           /\ [a EXCEPT !.generation = @ + 1]
                = [id |-> a.id, generation |-> a.generation + 1, saved |-> a.saved,
                   deleting |-> a.deleting]
           /\ [a EXCEPT !.generation = @ + 1] \in AppRecord
<1>1. /\ a.generation \in Nat
      /\ a.id \in 0 .. 2 /\ a.saved \in 0 .. MaxRevisions /\ a.deleting \in BOOLEAN
      /\ a.generation + 1 \in 0 .. MaxRevisions
  BY AcceptanceAssumption DEF AppRecord
<1>2. [a EXCEPT !.generation = @ + 1]
        = [id |-> a.id, generation |-> a.generation + 1, saved |-> a.saved,
           deleting |-> a.deleting]
  BY DEF AppRecord
<1>. QED
  BY <1>1, <1>2 DEF AppRecord

LEMMA UnchangedIntent ==
    ASSUME IntentInv, UNCHANGED intentVars, UNCHANGED live, deleteIntent => deleteIntent'
    PROVE  IntentInv' /\ Advances /\ ResolvedMoves
BY DEF IntentInv, intentVars, Advances, ResolvedMoves, Rendered

LEMMA BumpIntent ==
    ASSUME IntentInv, live, live', CanAdvance, deleteIntent => deleteIntent', name' \in Names,
           NEW stale \in BOOLEAN, Bump(stale),
           name' = name \/ stale \/ app.saved \notin Renders
    PROVE  IntentInv' /\ Advances /\ ResolvedMoves
<1>1. /\ app \in AppRecord /\ app.generation < MaxRevisions
      /\ app' = [app EXCEPT !.generation = @ + 1]
      /\ resolvedAt' = IF resolvedAt = app.generation /\ ~stale
                         THEN app.generation + 1 ELSE resolvedAt
      /\ app.id = 1 /\ app.generation > 0 /\ resolvedAt <= app.generation
      /\ resolvedAt \in 0 .. MaxRevisions
  BY DEF IntentInv, CanAdvance, Bump
<1>2. /\ app' \in AppRecord /\ app'.id = 1 /\ app'.generation = app.generation + 1
      /\ app.generation \in Nat /\ app'.generation \in 0 .. MaxRevisions
      /\ app'.saved = app.saved /\ app'.deleting = app.deleting
  BY <1>1, AdvanceRecord
<1>3. ~stale => Rendered' = Rendered
  BY <1>2 DEF Rendered
<1>4. IntentInv'
  BY <1>1, <1>2 DEF IntentInv
<1>5. Advances
  BY <1>2, <1>1 DEF Advances
<1>6. ResolvedMoves
  BY <1>1, <1>2, <1>3 DEF ResolvedMoves
<1>. QED
  BY <1>4, <1>5, <1>6

LEMMA SaveIntent ==
    ASSUME IntentInv, NEW c, SaveConfiguration(c), live \in BOOLEAN, UNCHANGED live
    PROVE  IntentInv' /\ Advances /\ ResolvedMoves /\ app'.id # 0
<1>1. /\ app \in AppRecord /\ app.generation < MaxRevisions /\ ~app.deleting
      /\ app' = [id |-> IF app.id = 0 THEN 2 ELSE app.id,
                 generation |-> app.generation + 1,
                 saved |-> app.generation + 1, deleting |-> FALSE]
      /\ name' = name /\ resolvedAt' = resolvedAt
  BY DEF IntentInv, SaveConfiguration, CanAdvance
<1>2. app.generation \in Nat /\ app.generation + 1 \in 0 .. MaxRevisions /\ app.id \in 0 .. 2
  BY <1>1, AdvanceRecord
<1>3. app' \in AppRecord
  BY <1>1, <1>2 DEF AppRecord
<1>4. IntentInv'
  BY <1>1, <1>2, <1>3 DEF IntentInv
<1>5. Advances
  BY <1>1, <1>2 DEF IntentInv, Advances
<1>. QED
  BY <1>1, <1>2, <1>4, <1>5 DEF ResolvedMoves

LEMMA DestroyIntent ==
    ASSUME StoreInv, IntentInv, NEW c, DeleteApplication(c)
    PROVE  /\ IntentInv' /\ Advances /\ ResolvedMoves /\ UNCHANGED live
           /\ (live' => TargetsMove) /\ [StoreNext]_storeVars
<1>0. /\ app.id = 1 /\ (app.deleting \/ CanAdvance)
      /\ app' = IF live
                  THEN [app EXCEPT !.deleting = TRUE,
                                   !.generation = IF app.deleting THEN @ ELSE @ + 1]
                  ELSE NoApp
      /\ name' = name /\ resolvedAt' = resolvedAt
      /\ IF Accepts THEN RequestDelete ELSE UNCHANGED storeVars
  BY DEF DeleteApplication
<1>1. CASE Accepts
  <2>1. RequestDelete
    BY <1>0, <1>1
  <2>2. Request
    BY <2>1 DEF Request
  <2>3. UNCHANGED live /\ deleteIntent' = TRUE
    BY <2>1, Zenon DEF RequestDelete
  <2>. QED
    <3>1. live /\ live' /\ TargetsMove /\ [StoreNext]_storeVars
      BY <2>2, RequestMoves
    <3>2. ~app.deleting /\ app \in AppRecord /\ app.generation > 0 /\ resolvedAt <= app.generation
          /\ app.generation < MaxRevisions /\ resolvedAt \in 0 .. MaxRevisions /\ name \in Names
      BY <1>0, <1>1 DEF IntentInv, Accepts, CanAdvance
    <3>3. app' = [id |-> 1, generation |-> app.generation + 1, saved |-> app.saved,
                  deleting |-> TRUE]
      BY <1>0, <3>1, <3>2 DEF AppRecord
    <3>4. /\ app.generation \in Nat /\ app.generation + 1 \in 0 .. MaxRevisions
          /\ app.saved \in 0 .. MaxRevisions
      BY <3>2, AdvanceRecord
    <3>5. app' \in AppRecord
      BY <3>3, <3>4 DEF AppRecord
    <3>6. IntentInv'
      BY <1>0, <2>3, <3>1, <3>2, <3>3, <3>4, <3>5 DEF IntentInv
    <3>7. Advances
      <4>1. app.id = app'.id /\ app'.generation = app.generation + 1
        <5>1. app.id = 1
          BY <1>0
        <5>2. app'.id = 1 /\ app'.generation = app.generation + 1
          BY <3>3
        <5>. QED
          BY <5>1, <5>2
      <4>. QED
        BY <3>4, <4>1 DEF Advances
    <3>. QED
      BY <1>0, <2>3, <3>1, <3>6, <3>7 DEF ResolvedMoves
<1>2. CASE ~Accepts
  <2>1. UNCHANGED storeVars
    BY <1>0, <1>2
  <2>2. UNCHANGED <<live, deleteIntent, rowVars>>
    BY <2>1 DEF storeVars, envVars
  <2>3. CASE live
    <3>1. deleteIntent /\ deleteIntent'
      BY <1>2, <2>2, <2>3 DEF Accepts
    <3>2. /\ app \in AppRecord /\ app.generation > 0 /\ resolvedAt <= app.generation
          /\ resolvedAt \in 0 .. MaxRevisions /\ name \in Names
      BY <2>3 DEF IntentInv
    <3>3. app' = [id |-> 1, generation |-> IF app.deleting THEN app.generation
                                           ELSE app.generation + 1,
                  saved |-> app.saved, deleting |-> TRUE]
      BY <1>0, <2>3, <3>2 DEF AppRecord
    <3>4. /\ app.generation \in 0 .. MaxRevisions
          /\ ~app.deleting => app.generation + 1 \in 0 .. MaxRevisions
          /\ app.saved \in 0 .. MaxRevisions
      BY <1>0, <3>2, AcceptanceAssumption DEF AppRecord, CanAdvance
    <3>5. app' \in AppRecord
      BY <3>3, <3>4 DEF AppRecord
    <3>6. IntentInv'
      BY <1>0, <2>2, <2>3, <3>1, <3>2, <3>3, <3>4, <3>5 DEF IntentInv
    <3>7. Advances
      <4>1. Rendered' = Rendered
        BY <1>0, <3>3 DEF Rendered
      <4>. QED
        BY <1>0, <3>3, <3>4, <4>1 DEF Advances
    <3>. QED
      BY <1>0, <2>1, <2>2, <3>6, <3>7, RowsMove DEF ResolvedMoves
  <2>4. CASE ~live
    <3>1. app' = NoApp /\ ~live' /\ UNCHANGED live
      BY <1>0, <2>2, <2>4
    <3>2. IntentInv'
      BY <1>0, <2>2, <3>1, NoAppRecord DEF IntentInv, NoApp
    <3>3. Advances
      BY <1>0, <3>1 DEF Advances, NoApp
    <3>. QED
      BY <1>0, <2>1, <3>1, <3>2, <3>3 DEF ResolvedMoves
  <2>. QED
    BY <2>3, <2>4
<1>. QED
  BY <1>1, <1>2

(* The whole of a request: it is one of the store's or leaves that alone, on *)
(* an application that has the name before it or after it.                   *)
LEMMA PerformMoves ==
    ASSUME StoreInv, IntentInv, NEW c, c.to \in Names, Perform(c)
    PROVE  /\ IntentInv' /\ Advances /\ ResolvedMoves /\ UNCHANGED live
           /\ live' => TargetsMove
           /\ [StoreNext]_storeVars
           /\ app.id # 0 \/ app'.id # 0
           /\ c.kind \in {"save", "apply"} => app'.id # 0 /\ Selects(c)
           /\ c.kind = "destroy" => app.id = 1 /\ c.app = 1
           /\ c.kind \notin {"save", "apply", "destroy"} => live
           /\ c.kind # "none"
<1>0. live \in BOOLEAN
  BY DEF StoreInv, TypeOK
<1>1. ASSUME UNCHANGED storeVars
      PROVE  /\ UNCHANGED <<live, deleteIntent>> /\ TargetsMove /\ [StoreNext]_storeVars
  BY <1>1, RowsMove DEF storeVars, envVars
<1>2. ASSUME Request
      PROVE  /\ live /\ live' /\ UNCHANGED live /\ (deleteIntent => deleteIntent')
             /\ TargetsMove /\ [StoreNext]_storeVars /\ app.id = 1
  <2>1. live /\ live' /\ (deleteIntent => deleteIntent')
             /\ TargetsMove /\ [StoreNext]_storeVars
    BY <1>2, RequestMoves
  <2>2. UNCHANGED live
    BY <1>2, Zenon DEF Request, RequestDeploy, RequestDelete, RequestRestore, AcceptRestore,
               StopEnvironment, StartEnvironment
  <2>. QED
    BY <2>1, <2>2 DEF IntentInv
<1>3. CASE c.kind = "save" /\ SaveConfiguration(c) /\ UNCHANGED storeVars
  <2>1. Selects(c)
    BY <1>3 DEF SaveConfiguration
  <2>. QED
    BY <1>0, <1>1, <1>3, <2>1, SaveIntent
<1>4. CASE c.kind = "apply" /\ Apply(c)
  <2>1. Selects(c) /\ SaveConfiguration(c) /\ Request
    BY <1>4 DEF Apply, SaveConfiguration, Request
  <2>. QED
    BY <1>0, <1>2, <1>4, <2>1, SaveIntent
<1>5. CASE c.kind = "rename" /\ RenameEnvironment(c.to)
  <2>1. Accepts /\ UNCHANGED storeVars
    BY <1>5 DEF RenameEnvironment
  <2>2. live /\ app.id = 1 /\ UNCHANGED <<live, deleteIntent>> /\ TargetsMove /\ [StoreNext]_storeVars
    BY <1>1, <2>1 DEF Accepts, IntentInv
  <2>3. IntentInv' /\ Advances /\ ResolvedMoves
    <3>1. CASE name = c.to
      BY <1>5, <2>2, <3>1, UnchangedIntent DEF RenameEnvironment
    <3>2. CASE name # c.to
      <4>. DEFINE stale == app.saved \in Renders
      <4>1. CanAdvance /\ name' = c.to /\ Bump(stale)
        BY <1>5, <3>2 DEF RenameEnvironment
      <4>3. stale \in BOOLEAN /\ (stale \/ app.saved \notin Renders)
        OBVIOUS
      <4>2. live' /\ (deleteIntent => deleteIntent') /\ name' \in Names
        BY <2>2, <4>1
      <4>. HIDE DEF stale
      <4>. QED
        BY <2>2, <4>1, <4>2, <4>3, BumpIntent
    <3>. QED
      BY <3>1, <3>2
  <2>. QED
    BY <1>5, <2>2, <2>3
<1>6. CASE c.kind = "delete" /\ DeleteEnvironment
  <2>1. CASE deleteIntent
    <3>1. live /\ UNCHANGED storeVars /\ UNCHANGED intentVars
      BY <1>6, <2>1 DEF DeleteEnvironment
    <3>. QED
      BY <1>1, <1>6, <3>1, UnchangedIntent DEF IntentInv
  <2>2. CASE ~deleteIntent
    <3>1. live /\ CanAdvance /\ RequestDelete /\ Bump(FALSE) /\ name' = name
      BY <1>6, <2>2 DEF DeleteEnvironment
    <3>2. Request /\ name' \in Names
      BY <3>1 DEF Request, IntentInv
    <3>3. IntentInv' /\ Advances /\ ResolvedMoves
      BY <1>2, <3>1, <3>2, BumpIntent
    <3>. QED
      BY <1>2, <1>6, <3>2, <3>3
  <2>. QED
    BY <2>1, <2>2
<1>7. CASE c.kind = "destroy" /\ DeleteApplication(c)
  <2>1. app.id = 1 /\ c.app = 1
    BY <1>7 DEF DeleteApplication
  <2>. QED
    BY <1>7, <2>1, DestroyIntent
<1>8. CASE /\ c.kind \in {"deploy", "reconcile", "stop", "restore"}
           /\ Request /\ UNCHANGED intentVars
  <2>1. IntentInv' /\ Advances /\ ResolvedMoves
    BY <1>2, <1>8, UnchangedIntent
  <2>. QED
    BY <1>2, <1>8, <2>1
<1>. QED
  BY <1>3, <1>4, <1>5, <1>6, <1>7, <1>8 DEF Perform, Request

LEMMA WorkMoves ==
    ASSUME StoreInv, IntentInv, Work
    PROVE  /\ IntentInv' /\ Advances /\ ResolvedMoves
           /\ live' => live /\ TargetsMove
           /\ [StoreNext]_storeVars
<1>1. /\ live' => live /\ UNCHANGED deleteIntent /\ TargetsMove
      /\ [StoreNext]_storeVars
  BY ExecuteMoves DEF Work
<1>2. /\ app' = IF live /\ ~live' /\ app.deleting THEN NoApp ELSE app
      /\ resolvedAt' = IF live' THEN resolvedAt ELSE 0
      /\ name' = name
  BY Zenon DEF Work
<1>3. CASE live'
  <2>1. UNCHANGED intentVars /\ live /\ UNCHANGED deleteIntent
    BY <1>1, <1>2, <1>3 DEF intentVars
  <2>. QED
    BY <1>1, <1>3, <2>1, UnchangedIntent
<1>4. CASE ~live'
  <2>1. CASE live /\ app.deleting
    <3>1. app' = NoApp /\ app.id = 1 /\ resolvedAt' = 0 /\ name' = name
      BY <1>2, <1>4, <2>1 DEF IntentInv
    <3>2. Advances
      BY <1>4, <3>1 DEF Advances, NoApp
    <3>3. IntentInv'
      BY <1>4, <3>1, NoAppRecord, AcceptanceAssumption DEF IntentInv, NoApp
    <3>. QED
      BY <1>1, <1>4, <3>2, <3>3 DEF ResolvedMoves
  <2>2. CASE ~(live /\ app.deleting)
    <3>1. app' = app /\ resolvedAt' = 0 /\ name' = name /\ ~app.deleting
      BY <1>2, <1>4, <2>2 DEF IntentInv
    <3>2. Advances
      BY <3>1 DEF Advances, Rendered
    <3>3. IntentInv'
      BY <1>4, <3>1, AcceptanceAssumption DEF IntentInv
    <3>. QED
      BY <1>1, <1>4, <3>2, <3>3 DEF ResolvedMoves
  <2>. QED
    BY <2>1, <2>2
<1>. QED
  BY <1>3, <1>4

-----------------------------------------------------------------------------
(* Snapshots *)

LEMMA RenderedContents == ASSUME IntentInv PROVE Rendered \in Contents
<1>1. app.saved \in 0 .. MaxRevisions /\ name \in Names /\ 0 \in Names
  BY DEF IntentInv, AppRecord, Names
<1>. QED
  BY <1>1 DEF Rendered, Contents

LEMMA RenderedContentsNext == ASSUME IntentInv' PROVE Rendered' \in Contents
<1>1. app'.saved \in 0 .. MaxRevisions /\ name' \in Names /\ 0 \in Names
  BY DEF IntentInv, AppRecord, Names
<1>. QED
  BY <1>1 DEF Rendered, Contents

LEMMA LatestHasTarget ==
    ASSUME StoreInv, NEW o \in promoted, \A p \in promoted : p <= o
    PROVE  target[o] # 0
<1>1. PICK q \in promoted : (\A p \in promoted : p <= q) /\ target[q] # 0
  BY DEF StoreInv, ActiveTargetIsLastPublished
<1>2. \A p \in promoted : p \in Nat
  BY MaxOpsAssumption DEF StoreInv, TypeOK, Ops
<1>3. q <= o /\ o <= q
  BY <1>1
<1>. QED
  BY <1>1, <1>2, <1>3

LEMMA SnapshotStep ==
    ASSUME StoreInv, StoreInv', IntentInv, IntentInv', SnapshotInv,
           Advances, ResolvedMoves, live' => live /\ TargetsMove, Capture
    PROVE  SnapshotInv'
<1>0. /\ revision \in [Ops -> 0 .. MaxRevisions] /\ captured \in [Ops -> Contents]
      /\ app'.generation \in 0 .. MaxRevisions /\ app.generation \in 0 .. MaxRevisions
      /\ resolvedAt \in 0 .. MaxRevisions /\ MaxRevisions \in Nat
      /\ Rendered' \in Contents /\ NoContent \in Contents
  BY RenderedContentsNext, AcceptanceAssumption
     DEF SnapshotInv, IntentInv, AppRecord, Contents, NoContent, Names
<1>1. CASE live /\ ~live'
  <2>1. revision' = [o \in Ops |-> 0] /\ captured' = [o \in Ops |-> NoContent]
    BY <1>1 DEF Capture
  <2>. QED
    BY <1>0, <1>1, <2>1 DEF SnapshotInv, ResolvedIsCurrent
<1>2. CASE ~(live /\ ~live') /\ count' = count + 1 /\ kind'[count'] = "deploy"
  <2>1. /\ revision' = [revision EXCEPT ![count'] = app'.generation]
        /\ captured' = [captured EXCEPT ![count'] =
               IF target'[count'] # 0 THEN captured[target'[count']] ELSE Rendered']
    BY <1>2 DEF Capture
  <2>2. count' \in Ops /\ target' \in [Ops -> Targets] /\ count \in Nat
    BY <1>2, MaxOpsAssumption DEF StoreInv, TypeOK, Targets, Ops
  <2>3. target'[count'] # 0 => target'[count'] \in Ops
    BY <2>2, MaxOpsAssumption DEF Targets, Ops
  <2>4. revision' \in [Ops -> 0 .. MaxRevisions] /\ captured' \in [Ops -> Contents]
    BY <1>0, <2>1, <2>3
  <2>5. CASE ~live'
    BY <2>4, <2>5 DEF SnapshotInv, ResolvedIsCurrent
  <2>6. CASE live'
    <3>1. /\ live /\ TargetsMove
          /\ \/ app'.generation = app.generation /\ Rendered' = Rendered
             \/ app'.generation > app.generation
      BY <2>6 DEF Advances
    <3>2. target[count'] = 0 /\ count' \notin promoted /\ promoted' = promoted
      BY <1>2, <2>2, <3>1 DEF StoreInv, RowsEndAtCount, TargetsMove
    <3>3. ASSUME NEW o \in Ops
          PROVE  /\ revision'[o] <= app'.generation
                 /\ revision'[o] = app'.generation /\ target'[o] \in {0, o}
                      => captured'[o] = Rendered'
      <4>1. CASE o = count'
        <5>1. revision'[o] = app'.generation
          BY <1>0, <2>1, <2>2, <4>1
        <5>2. target'[o] \in {0, o} => target'[o] = 0
          BY <1>2, <2>2, <3>1, <3>2, <4>1 DEF TargetsMove, StoreInv, RowsEndAtCount
        <5>. QED
          BY <1>0, <2>1, <2>2, <4>1, <5>1, <5>2
      <4>2. CASE o # count'
        <5>1. revision'[o] = revision[o] /\ captured'[o] = captured[o]
          BY <1>0, <2>1, <4>2
        <5>2. target'[o] = target[o] \/ (target[o] = 0 /\ target'[o] = o)
          BY <1>2, <3>1, <4>2 DEF TargetsMove
        <5>3. revision[o] \in 0 .. MaxRevisions /\ revision[o] <= app.generation
          BY <1>0, <3>1 DEF SnapshotInv
        <5>4. revision[o] = app.generation /\ target[o] \in {0, o} => captured[o] = Rendered
          BY <3>1 DEF SnapshotInv
        <5>. QED
          BY <1>0, <3>1, <5>1, <5>2, <5>3, <5>4
      <4>. QED
        BY <4>1, <4>2
    <3>4. ASSUME NEW o \in promoted', resolvedAt' = app'.generation,
                 \A p \in promoted' : p <= o, target'[o] = o
          PROVE  captured'[o] = Rendered'
      <4>1. o \in Ops /\ o # count' /\ o \in promoted /\ \A p \in promoted : p <= o
        BY <3>2, <3>4 DEF StoreInv, TypeOK
      <4>2. captured'[o] = captured[o] /\ target[o] = o
        <5>1. captured'[o] = captured[o]
          BY <1>0, <2>1, <4>1
        <5>2. target[o] # 0
          BY <4>1, LatestHasTarget
        <5>. QED
          BY <1>2, <3>1, <3>4, <4>1, <5>1, <5>2 DEF TargetsMove
      <4>3. resolvedAt = app.generation => captured[o] = Rendered
        BY <3>1, <4>1, <4>2 DEF SnapshotInv, ResolvedIsCurrent
      <4>4. resolvedAt = app.generation /\ Rendered' = Rendered
        BY <1>0, <2>6, <3>1, <3>4 DEF ResolvedMoves, IntentInv
      <4>. QED
        BY <4>2, <4>3, <4>4
    <3>. QED
      BY <2>4, <3>3, <3>4 DEF SnapshotInv, ResolvedIsCurrent
  <2>. QED
    BY <2>5, <2>6
<1>3. CASE ~(live /\ ~live') /\ ~(count' = count + 1 /\ kind'[count'] = "deploy")
  <2>1. revision' = revision /\ captured' = captured
    BY <1>3 DEF Capture, snapshotVars
  <2>2. CASE ~live'
    BY <1>0, <2>1, <2>2 DEF SnapshotInv, ResolvedIsCurrent
  <2>3. CASE live'
    <3>1. /\ live /\ TargetsMove
          /\ \/ app'.generation = app.generation /\ Rendered' = Rendered
             \/ app'.generation > app.generation
      BY <2>3 DEF Advances
    <3>2. promoted' = promoted
          /\ \A o \in Ops : target'[o] = target[o] \/ (target[o] = 0 /\ target'[o] = o)
      BY <1>3, <3>1 DEF TargetsMove
    <3>3. ASSUME NEW o \in Ops
          PROVE  /\ revision'[o] <= app'.generation
                 /\ revision'[o] = app'.generation /\ target'[o] \in {0, o}
                      => captured'[o] = Rendered'
      <4>1. target'[o] = target[o] \/ (target[o] = 0 /\ target'[o] = o)
        BY <3>2
      <4>2. revision[o] \in 0 .. MaxRevisions /\ revision[o] <= app.generation
        BY <1>0, <3>1 DEF SnapshotInv
      <4>3. revision[o] = app.generation /\ target[o] \in {0, o} => captured[o] = Rendered
        BY <3>1 DEF SnapshotInv
      <4>. QED
        BY <1>0, <2>1, <3>1, <4>1, <4>2, <4>3
    <3>4. ASSUME NEW o \in promoted', resolvedAt' = app'.generation,
                 \A p \in promoted' : p <= o, target'[o] = o
          PROVE  captured'[o] = Rendered'
      <4>1. o \in Ops /\ o \in promoted /\ \A p \in promoted : p <= o
        BY <3>2, <3>4 DEF StoreInv, TypeOK
      <4>2. target[o] = o
        <5>1. target[o] # 0
          BY <4>1, LatestHasTarget
        <5>. QED
          BY <3>2, <3>4, <4>1, <5>1
      <4>3. resolvedAt = app.generation => captured[o] = Rendered
        BY <3>1, <4>1, <4>2 DEF SnapshotInv, ResolvedIsCurrent
      <4>4. resolvedAt = app.generation /\ Rendered' = Rendered
        BY <1>0, <2>3, <3>1, <3>4 DEF ResolvedMoves, IntentInv
      <4>. QED
        BY <2>1, <4>3, <4>4
    <3>. QED
      BY <1>0, <2>1, <3>3, <3>4 DEF SnapshotInv, ResolvedIsCurrent
  <2>. QED
    BY <2>2, <2>3
<1>. QED
  BY <1>1, <1>2, <1>3

(* A publication resolves the environment to the revision its deployment     *)
(* captured.                                                                 *)
LEMMA PublishStep ==
    ASSUME StoreInv, IntentInv, SnapshotInv, NEW o \in Ops, Publish(o)
    PROVE  IntentInv' /\ SnapshotInv' /\ live /\ live'
<1>1. /\ o = count /\ promoted' = promoted \cup {o} /\ target' = target
      /\ live /\ UNCHANGED <<live, deleteIntent>>
      /\ resolvedAt' = revision[o] /\ app' = app /\ name' = name
      /\ revision' = revision /\ captured' = captured
  BY Zenon DEF Publish, PublishPrepared, snapshotVars
<1>2. /\ revision[o] \in 0 .. MaxRevisions /\ revision[o] <= app.generation
      /\ revision[o] = app.generation /\ target[o] \in {0, o} => captured[o] = Rendered
  BY <1>1 DEF SnapshotInv
<1>3. IntentInv'
  BY <1>1, <1>2 DEF IntentInv
<1>4. Rendered' = Rendered
  BY <1>1 DEF Rendered
<1>5. ASSUME NEW p \in promoted', resolvedAt' = app'.generation,
             \A q \in promoted' : q <= p, target'[p] = p
      PROVE  captured'[p] = Rendered'
  <2>1. p \in Ops /\ p <= count /\ o <= p
    BY <1>1, <1>5, MaxOpsAssumption DEF StoreInv, TypeOK, RowsEndAtCount, Ops, Targets
  <2>2. p = o
    BY <1>1, <2>1, MaxOpsAssumption DEF Ops
  <2>. QED
    BY <1>1, <1>2, <1>4, <1>5, <2>2
<1>. QED
  BY <1>1, <1>3, <1>4, <1>5 DEF SnapshotInv, ResolvedIsCurrent

-----------------------------------------------------------------------------
(* Calls and receipts *)

LEMMA CallsStep ==
    ASSUME IntentInv, IntentInv', CallsInv, Advances, UNCHANGED calls
    PROVE  CallsInv'
<1>0. app.generation \in Nat /\ app'.generation \in Nat
  BY AcceptanceAssumption DEF IntentInv, AppRecord
<1>. SUFFICES ASSUME NEW i \in CallIds, calls[i].kind # "none"
     PROVE  /\ calls[i].key \in Keys
            /\ calls[i].seen[1] = calls[i].app
            /\ app'.id = 1 => calls[i].app = 1
            /\ app'.id = 0 => calls[i].app # 2
            /\ calls[i].app = app'.id /\ calls[i].expected # NoCheck =>
                   /\ calls[i].expected <= app'.generation
                   /\ calls[i].expected = app'.generation => calls[i].seen[2] = Rendered'
  BY DEF CallsInv
<1>. DEFINE c == calls[i]
<1>1. /\ c.key \in Keys
      /\ c.seen[1] = c.app
      /\ app.id = 1 => c.app = 1
      /\ app.id = 0 => c.app # 2
      /\ c.app = app.id /\ c.expected # NoCheck =>
             /\ c.expected <= app.generation
             /\ c.expected = app.generation => c.seen[2] = Rendered
  BY DEF CallsInv
<1>2. c.expected \in Nat
  BY AcceptanceAssumption DEF CallsInv, CallRecord, NoCheck
<1>. HIDE DEF c
<1>3. /\ c.key \in Keys
      /\ c.seen[1] = c.app
      /\ app'.id = 1 => c.app = 1
      /\ app'.id = 0 => c.app # 2
      /\ c.app = app'.id /\ c.expected # NoCheck =>
             /\ c.expected <= app'.generation
             /\ c.expected = app'.generation => c.seen[2] = Rendered'
  BY <1>0, <1>1, <1>2 DEF Advances
<1>. QED
  BY <1>3 DEF c

\* What is kept of the receipts is still right after the step.
StillRight(r) ==
    /\ r \in [Keys -> ReceiptRecord]
    /\ \A k \in Keys : r[k] # NoReceipt =>
           /\ r[k] = receipts[k]
           /\ calls[r[k].call].kind \in {"save", "apply"} => r[k].app = app'.id
           /\ calls[r[k].call].kind \notin {"save", "apply", "destroy"} => live'
    /\ \A k \in Keys : receipts[k].call = 0 => r[k].call = 0

\* A call loses its receipt only as it counts the loss.
LossesCount(r) ==
    /\ lapses' \in [CallIds -> Nat]
    /\ \A i \in CallIds :
           /\ lapses'[i] >= lapses[i]
           /\ \A k \in Keys : receipts[k].call = i =>
                  r[k] = receipts[k] \/ lapses'[i] = lapses[i] + 1

LEMMA NoReceiptRecord == NoReceipt \in ReceiptRecord
BY DEF NoReceipt, ReceiptRecord

LEMMA KeptCounts ==
    ASSUME ReceiptsInv, ActsInv, NEW removed \in SUBSET Keys, Lapse(removed)
    PROVE  /\ Kept(removed) \in [Keys -> ReceiptRecord]
           /\ \A k \in Keys : Kept(removed)[k] # NoReceipt =>
                  k \notin removed /\ Kept(removed)[k] = receipts[k]
           /\ \A k \in Keys : receipts[k].call = 0 => Kept(removed)[k].call = 0
           /\ LossesCount(Kept(removed))
<1>1. receipts \in [Keys -> ReceiptRecord] /\ lapses \in [CallIds -> Nat]
  BY DEF ReceiptsInv, ActsInv
<1>2. /\ Kept(removed) = [k \in Keys |-> IF k \in removed THEN NoReceipt ELSE receipts[k]]
      /\ lapses' = [i \in CallIds |->
                       IF \E k \in removed : receipts[k].call = i THEN lapses[i] + 1
                       ELSE lapses[i]]
  BY DEF Kept, Lapse
<1>3. Kept(removed) \in [Keys -> ReceiptRecord]
  BY <1>1, <1>2, NoReceiptRecord
<1>4. \A k \in Keys : Kept(removed)[k] # NoReceipt =>
          k \notin removed /\ Kept(removed)[k] = receipts[k]
  BY <1>2
<1>5. \A k \in Keys : receipts[k].call = 0 => Kept(removed)[k].call = 0
  BY <1>2 DEF NoReceipt
<1>6. LossesCount(Kept(removed))
  <2>1. lapses' \in [CallIds -> Nat]
    BY <1>1, <1>2
  <2>2. ASSUME NEW i \in CallIds
        PROVE  /\ lapses'[i] >= lapses[i]
               /\ \A k \in Keys : receipts[k].call = i =>
                      Kept(removed)[k] = receipts[k] \/ lapses'[i] = lapses[i] + 1
    BY <1>1, <1>2
  <2>. QED
    BY <2>1, <2>2 DEF LossesCount
<1>. QED
  BY <1>3, <1>4, <1>5, <1>6

LEMMA RemovedRight ==
    ASSUME IntentInv, CallsInv, ReceiptsInv, ActsInv, Advances, live' => live, Lapse(Removed)
    PROVE  StillRight(Kept(Removed)) /\ LossesCount(Kept(Removed))
<1>1. Removed \in SUBSET Keys
  BY DEF Removed, OfEnvironment, OfApplication
<1>2. /\ Kept(Removed) \in [Keys -> ReceiptRecord]
      /\ \A k \in Keys : Kept(Removed)[k] # NoReceipt =>
             k \notin Removed /\ Kept(Removed)[k] = receipts[k]
      /\ \A k \in Keys : receipts[k].call = 0 => Kept(Removed)[k].call = 0
      /\ LossesCount(Kept(Removed))
  BY <1>1, KeptCounts
<1>3. ASSUME NEW k \in Keys, Kept(Removed)[k] # NoReceipt
      PROVE  /\ calls[receipts[k].call].kind \in {"save", "apply"} => receipts[k].app = app'.id
             /\ calls[receipts[k].call].kind \notin {"save", "apply", "destroy"} => live'
  <2>. DEFINE kd == calls[receipts[k].call].kind
  <2>1. k \notin Removed /\ receipts[k] # NoReceipt
    BY <1>2, <1>3
  <2>2. /\ receipts[k].call # 0 /\ receipts[k].app # 0
        /\ kd # "none"
        /\ kd \in {"save", "apply"} => receipts[k].app = app.id
        /\ kd \notin {"save", "apply", "destroy"} => live
    BY <2>1 DEF ReceiptsInv
  <2>3. receipts[k].call \in CallIds /\ kd \in Requests
    BY <2>2 DEF ReceiptsInv, ReceiptRecord, CallsInv, CallRecord
  <2>4. kd \notin {"save", "apply", "destroy"} => k \in OfEnvironment
    BY <2>2, <2>3 DEF OfEnvironment, Requests
  <2>5. kd \in {"save", "apply"} => k \in OfApplication
    BY <2>2 DEF OfEnvironment, OfApplication
  <2>6. live /\ ~live' => k \notin OfEnvironment
    BY <2>1 DEF Removed
  <2>7. app.id # 0 /\ app'.id = 0 => k \notin OfApplication
    BY <2>1 DEF Removed
  <2>. HIDE DEF kd
  <2>8. /\ kd \in {"save", "apply"} => receipts[k].app = app'.id
        /\ kd \notin {"save", "apply", "destroy"} => live'
    BY <2>2, <2>4, <2>5, <2>6, <2>7 DEF Advances
  <2>. QED
    BY <2>8 DEF kd
<1>. QED
  BY <1>2, <1>3 DEF StillRight

LEMMA KeptStep ==
    ASSUME CallsInv, ReceiptsInv, ActsInv, StillRight(receipts'), LossesCount(receipts'),
           UNCHANGED <<calls, acts>>, expiries' \in 0 .. MaxExpiries
    PROVE  ReceiptsInv' /\ ActsInv'
<1>1. ReceiptsInv'
  BY DEF ReceiptsInv, StillRight
<1>2. ASSUME NEW i \in CallIds, acts[i] > lapses'[i]
      PROVE  /\ acts[i] = lapses'[i] + 1
             /\ calls[i].kind # "none"
             /\ receipts'[calls[i].key].call = i
  <2>1. /\ acts[i] \in Nat /\ lapses[i] \in Nat /\ lapses'[i] \in Nat /\ lapses'[i] >= lapses[i]
        /\ acts[i] > lapses[i] => /\ acts[i] = lapses[i] + 1
                                  /\ calls[i].kind # "none"
                                  /\ receipts[calls[i].key].call = i
    BY DEF ActsInv, LossesCount
  <2>2. acts[i] = lapses[i] + 1 /\ lapses'[i] = lapses[i] /\ calls[i].kind # "none"
        /\ receipts[calls[i].key].call = i
    BY <1>2, <2>1
  <2>3. receipts'[calls[i].key] = receipts[calls[i].key]
    BY <2>1, <2>2 DEF CallsInv, LossesCount
  <2>. QED
    BY <2>2, <2>3
<1>. QED
  BY <1>1, <1>2 DEF ActsInv, LossesCount

-----------------------------------------------------------------------------
(* The steps *)

\* A step that may concern the application, its environment and their receipts.
LEMMA MovesStep ==
    ASSUME AInv, IntentInv', Advances, ResolvedMoves, live' => live /\ TargetsMove,
           [StoreNext]_storeVars, Capture, Lapse(Removed), UNCHANGED <<calls, expiries>>
    PROVE  /\ StoreInv' /\ IntentInv' /\ SnapshotInv' /\ CallsInv'
           /\ StillRight(Kept(Removed)) /\ LossesCount(Kept(Removed))
           /\ expiries' \in 0 .. MaxExpiries
<1>1. StoreInv'
  BY StepInv DEF AInv
<1>2. SnapshotInv'
  BY <1>1, SnapshotStep DEF AInv
<1>3. CallsInv'
  BY CallsStep DEF AInv
<1>4. StillRight(Kept(Removed)) /\ LossesCount(Kept(Removed))
  BY RemovedRight DEF AInv
<1>. QED
  BY <1>1, <1>2, <1>3, <1>4 DEF AInv, ReceiptsInv

LEMMA WorkStep == ASSUME AInv, Work PROVE AInv' /\ [StoreNext]_storeVars
<1>1. /\ Capture /\ receipts' = Kept(Removed) /\ Lapse(Removed)
      /\ UNCHANGED <<calls, acts, expiries>>
  BY Zenon DEF Work
<1>2. /\ IntentInv' /\ Advances /\ ResolvedMoves /\ (live' => live /\ TargetsMove)
      /\ [StoreNext]_storeVars
  BY WorkMoves DEF AInv
<1>3. /\ StoreInv' /\ SnapshotInv' /\ CallsInv'
      /\ StillRight(receipts') /\ LossesCount(receipts')
      /\ expiries' \in 0 .. MaxExpiries
  BY <1>1, <1>2, MovesStep
<1>4. ReceiptsInv' /\ ActsInv'
  BY <1>1, <1>3, KeptStep DEF AInv
<1>. QED
  BY <1>2, <1>3, <1>4 DEF AInv

LEMMA InspectedTo ==
    ASSUME IntentInv, NEW k, NEW asked, NEW forced PROVE Inspected(k, asked, forced).to \in Names
BY DEF Inspected, IntentInv, Names

LEMMA OtherRequestStep ==
    ASSUME AInv, NEW asked, OtherRequest(asked) PROVE AInv' /\ [StoreNext]_storeVars
<1>. DEFINE c == Inspected(0, asked, FALSE)
<1>1. /\ Perform(c) /\ Capture /\ receipts' = Kept(Removed) /\ Lapse(Removed)
      /\ UNCHANGED <<calls, acts, expiries>>
  BY Zenon DEF OtherRequest
<1>2. c.to \in Names
  BY InspectedTo DEF AInv
<1>. HIDE DEF c
<1>3. /\ IntentInv' /\ Advances /\ ResolvedMoves /\ (live' => live /\ TargetsMove)
      /\ [StoreNext]_storeVars
  BY <1>1, <1>2, PerformMoves DEF AInv
<1>4. /\ StoreInv' /\ SnapshotInv' /\ CallsInv'
      /\ StillRight(receipts') /\ LossesCount(receipts')
      /\ expiries' \in 0 .. MaxExpiries
  BY <1>1, <1>3, MovesStep
<1>5. ReceiptsInv' /\ ActsInv'
  BY <1>1, <1>4, KeptStep DEF AInv
<1>. QED
  BY <1>3, <1>4, <1>5 DEF AInv

(* A call under a key without a receipt acts and gets one.                   *)
LEMMA AcceptStep ==
    ASSUME AInv, NEW i \in CallIds, Accept(i) PROVE AInv' /\ [StoreNext]_storeVars
<1>. DEFINE c == calls[i]
            kept == Kept(Removed)
            of == IF app'.id = 0 THEN app.id ELSE app'.id
            new == [call |-> i, app |-> of]
<1>1. /\ c.kind # "none" /\ receipts[c.key].call = 0
      /\ Perform(c) /\ Capture
      /\ receipts' = [kept EXCEPT ![c.key] = new]
      /\ Lapse(Removed) /\ acts' = [acts EXCEPT ![i] = @ + 1]
      /\ UNCHANGED <<calls, expiries>>
  BY DEF Accept, StoreReceipt
<1>2. /\ c \in CallRecord /\ c.to \in Names /\ c.key \in Keys /\ i \in CallIds /\ i # 0
  BY <1>1 DEF AInv, CallsInv, CallRecord, CallIds
<1>3. /\ IntentInv' /\ Advances /\ ResolvedMoves /\ UNCHANGED live
      /\ (live' => TargetsMove)
      /\ [StoreNext]_storeVars
      /\ (app.id # 0 \/ app'.id # 0)
      /\ (c.kind \in {"save", "apply"} => app'.id # 0)
      /\ (c.kind \notin {"save", "apply", "destroy"} => live)
  BY <1>1, <1>2, PerformMoves DEF AInv
<1>4. /\ StoreInv' /\ SnapshotInv' /\ CallsInv'
      /\ StillRight(kept) /\ LossesCount(kept)
      /\ expiries' \in 0 .. MaxExpiries
  BY <1>1, <1>3, MovesStep
<1>5. of \in 0 .. 2 /\ of # 0
  BY <1>3 DEF AInv, IntentInv, AppRecord
<1>6. (c.kind \in {"save", "apply"} => of = app'.id)
      /\ (c.kind \notin {"save", "apply", "destroy"} => live')
  BY <1>3
<1>7. new \in ReceiptRecord /\ new.call = i /\ new.app = of
  BY <1>5 DEF ReceiptRecord
<1>. HIDE DEF kept, new, of
<1>8. /\ kept \in [Keys -> ReceiptRecord] /\ receipts' \in [Keys -> ReceiptRecord]
      /\ receipts'[c.key] = new
      /\ \A k \in Keys : k # c.key => receipts'[k] = kept[k]
  BY <1>1, <1>2, <1>4, <1>7 DEF StillRight
<1>9. ReceiptsInv'
  <2>1. ASSUME NEW k \in Keys, receipts'[k] # NoReceipt
        PROVE  /\ receipts'[k].call # 0 /\ receipts'[k].app # 0
               /\ calls[receipts'[k].call].key = k
               /\ calls[receipts'[k].call].kind # "none"
               /\ calls[receipts'[k].call].kind \in {"save", "apply"} => receipts'[k].app = app'.id
               /\ calls[receipts'[k].call].kind \notin {"save", "apply", "destroy"} => live'
    <3>1. CASE k = c.key
      BY <1>1, <1>2, <1>5, <1>6, <1>7, <1>8, <3>1
    <3>2. CASE k # c.key
      BY <1>4, <1>8, <2>1, <3>2 DEF StillRight, AInv, ReceiptsInv
    <3>. QED
      BY <3>1, <3>2
  <2>. QED
    BY <1>1, <1>4, <1>8, <2>1 DEF ReceiptsInv
<1>10. ActsInv'
  <2>1. acts \in [CallIds -> Nat] /\ lapses \in [CallIds -> Nat] /\ lapses' \in [CallIds -> Nat]
    BY <1>4 DEF AInv, ActsInv, LossesCount
  <2>2. ASSUME NEW j \in CallIds, acts'[j] > lapses'[j]
        PROVE  /\ acts'[j] = lapses'[j] + 1
               /\ calls[j].kind # "none"
               /\ receipts'[calls[j].key].call = j
    <3>1. /\ lapses'[j] >= lapses[j]
          /\ acts[j] > lapses[j] => /\ acts[j] = lapses[j] + 1
                                    /\ calls[j].kind # "none"
                                    /\ receipts[calls[j].key].call = j
      BY <1>4 DEF AInv, ActsInv, LossesCount
    <3>2. CASE j = i
      <4>1. ~(acts[i] > lapses[i])
        BY <1>1, <1>2, <3>1, <3>2
      <4>. QED
        BY <1>1, <1>7, <1>8, <2>1, <2>2, <3>1, <3>2, <4>1
    <3>3. CASE j # i
      <4>1. acts'[j] = acts[j] /\ acts[j] > lapses[j] /\ j # 0
        BY <1>1, <2>1, <2>2, <3>1, <3>3 DEF CallIds
      <4>2. acts[j] = lapses[j] + 1 /\ calls[j].kind # "none"
            /\ receipts[calls[j].key].call = j /\ lapses'[j] = lapses[j]
        BY <2>1, <2>2, <3>1, <4>1
      <4>3. calls[j].key \in Keys /\ calls[j].key # c.key
        BY <1>1, <4>1, <4>2 DEF AInv, CallsInv
      <4>4. kept[calls[j].key] = receipts[calls[j].key]
        BY <1>4, <2>1, <4>2, <4>3 DEF LossesCount
      <4>. QED
        BY <1>8, <4>1, <4>2, <4>3, <4>4
    <3>. QED
      BY <3>2, <3>3
  <2>3. acts' \in [CallIds -> Nat]
    BY <1>1, <2>1
  <2>. QED
    BY <1>1, <2>1, <2>2, <2>3 DEF ActsInv
<1>. QED
  BY <1>3, <1>4, <1>9, <1>10 DEF AInv

LEMMA ExpireStep ==
    ASSUME AInv, NEW k \in Keys, Expire(k) PROVE AInv' /\ UNCHANGED storeVars
<1>1. /\ expiries > 0 /\ expiries' = expiries - 1
      /\ receipts' = Kept({k}) /\ Lapse({k})
      /\ UNCHANGED <<storeVars, intentVars, snapshotVars, calls, acts>>
  BY DEF Expire
<1>2. /\ UNCHANGED <<live, deleteIntent, target, promoted>>
      /\ UNCHANGED <<app, name, resolvedAt, revision, captured>>
  BY <1>1 DEF storeVars, envVars, rowVars, intentVars, snapshotVars
<1>3. StoreInv' /\ IntentInv' /\ SnapshotInv' /\ CallsInv'
  <2>1. StoreInv'
    BY <1>1, StepInv DEF AInv
  <2>2. Rendered' = Rendered
    BY <1>2 DEF Rendered
  <2>. QED
    BY <1>1, <1>2, <2>1, <2>2 DEF AInv, IntentInv, SnapshotInv, CallsInv, ResolvedIsCurrent
<1>4. /\ Kept({k}) \in [Keys -> ReceiptRecord]
      /\ \A j \in Keys : Kept({k})[j] # NoReceipt => Kept({k})[j] = receipts[j]
      /\ \A j \in Keys : receipts[j].call = 0 => Kept({k})[j].call = 0
      /\ LossesCount(Kept({k}))
  BY <1>1, KeptCounts DEF AInv
<1>5. StillRight(receipts')
  BY <1>1, <1>2, <1>4 DEF StillRight, AInv, ReceiptsInv
<1>6. expiries' \in 0 .. MaxExpiries
  BY <1>1, AcceptanceAssumption DEF AInv, ReceiptsInv
<1>7. ReceiptsInv' /\ ActsInv'
  BY <1>1, <1>4, <1>5, <1>6, KeptStep DEF AInv
<1>. QED
  BY <1>1, <1>3, <1>7 DEF AInv

LEMMA PublishAStep ==
    ASSUME AInv, NEW o \in Ops, Publish(o) PROVE AInv' /\ [StoreNext]_storeVars
<1>1. /\ PublishPrepared(o) /\ UNCHANGED <<app, name>>
      /\ UNCHANGED <<receipts, calls, acts, lapses, expiries>>
  BY Zenon DEF Publish, callVars
<1>2. [StoreNext]_storeVars
  BY <1>1 DEF StoreNext, Execute
<1>3. StoreInv'
  BY <1>2, StepInv DEF AInv
<1>4. IntentInv' /\ SnapshotInv' /\ live /\ live'
  BY PublishStep DEF AInv
<1>5. CallsInv'
  <2>1. Rendered' = Rendered
    BY <1>1 DEF Rendered
  <2>. QED
    BY <1>1, <2>1 DEF AInv, CallsInv
<1>6. ReceiptsInv' /\ ActsInv'
  BY <1>1, <1>4 DEF AInv, ReceiptsInv, ActsInv
<1>. QED
  BY <1>2, <1>3, <1>4, <1>5, <1>6 DEF AInv

(* A client sends what it sees.                                              *)
LEMMA SendStep ==
    ASSUME AInv, NEW i \in CallIds, NEW k \in Keys, NEW asked \in CallKinds,
           NEW forced \in BOOLEAN, Send(i, k, asked, forced)
    PROVE  AInv' /\ UNCHANGED storeVars
<1>. DEFINE c == Inspected(k, asked, forced)
            unchecked == forced \/ asked \in Unconditional
<1>1. /\ calls[i].kind = "none" /\ calls' = [calls EXCEPT ![i] = c]
      /\ UNCHANGED <<storeVars, intentVars, snapshotVars, receipts, acts, lapses, expiries>>
  BY DEF Send
<1>2. /\ UNCHANGED <<live, deleteIntent, target, promoted>>
      /\ UNCHANGED <<app, name, resolvedAt, revision, captured>>
  BY <1>1 DEF storeVars, envVars, rowVars, intentVars, snapshotVars
<1>3. StoreInv' /\ IntentInv' /\ SnapshotInv' /\ Rendered' = Rendered
  <2>1. StoreInv'
    BY <1>1, StepInv DEF AInv
  <2>2. Rendered' = Rendered
    BY <1>2 DEF Rendered
  <2>. QED
    BY <1>1, <1>2, <2>1, <2>2 DEF AInv, IntentInv, SnapshotInv, ResolvedIsCurrent
<1>4. /\ c.key = k /\ c.kind = asked /\ c.app = app.id
      /\ c.expected = IF unchecked THEN NoCheck ELSE app.generation
      /\ c.seen = <<app.id, IF unchecked THEN NoContent ELSE Rendered>>
  BY DEF Inspected
<1>5. /\ asked \in Requests /\ asked # "none" /\ app.id \in 0 .. 2
      /\ app.generation \in 0 .. MaxRevisions /\ NoCheck = MaxRevisions + 1
      /\ app.generation \in Nat /\ app.generation # NoCheck
  BY AcceptanceAssumption DEF Requests, AInv, IntentInv, AppRecord, NoCheck
<1>6. c \in CallRecord
  <2>1. c.to \in Names
    BY InspectedTo DEF AInv
  <2>2. Rendered \in Contents /\ NoContent \in Contents
    BY RenderedContents, AcceptanceAssumption DEF AInv, Contents, NoContent, Names
  <2>3. c.seen \in (0 .. 2) \X Contents /\ c.expected \in 0 .. NoCheck
    BY <1>4, <1>5, <2>2, AcceptanceAssumption
  <2>4. c = [key |-> k, kind |-> asked, app |-> app.id, expected |-> c.expected,
             to |-> c.to, seen |-> c.seen]
    BY DEF Inspected
  <2>. HIDE DEF c
  <2>. QED
    BY <1>5, <2>1, <2>3, <2>4 DEF CallRecord
<1>7. /\ c.seen[1] = c.app
      /\ c.expected # NoCheck => c.expected = app.generation /\ c.seen[2] = Rendered
  BY <1>4
<1>. HIDE DEF c, unchecked
<1>8. /\ calls \in [CallIds -> CallRecord] /\ calls'[i] = c /\ calls' \in [CallIds -> CallRecord]
      /\ \A j \in CallIds : j # i => calls'[j] = calls[j]
  BY <1>1, <1>6 DEF AInv, CallsInv
<1>9. CallsInv'
  <2>1. ASSUME NEW j \in CallIds, calls'[j].kind # "none"
        PROVE  /\ calls'[j].key \in Keys
               /\ calls'[j].seen[1] = calls'[j].app
               /\ app.id = 1 => calls'[j].app = 1
               /\ app.id = 0 => calls'[j].app # 2
               /\ calls'[j].app = app.id /\ calls'[j].expected # NoCheck =>
                    /\ calls'[j].expected <= app.generation
                    /\ calls'[j].expected = app.generation => calls'[j].seen[2] = Rendered
    <3>1. CASE j = i
      BY <1>4, <1>5, <1>7, <1>8, <3>1
    <3>2. CASE j # i
      BY <1>8, <2>1, <3>2 DEF AInv, CallsInv
    <3>. QED
      BY <3>1, <3>2
  <2>. QED
    BY <1>2, <1>3, <1>8, <2>1 DEF CallsInv
<1>10. ReceiptsInv'
  <2>1. ASSUME NEW j \in Keys, receipts[j] # NoReceipt
        PROVE  calls'[receipts[j].call] = calls[receipts[j].call]
    <3>1. receipts[j].call \in CallIds /\ calls[receipts[j].call].kind # "none"
      BY <2>1 DEF AInv, ReceiptsInv, ReceiptRecord
    <3>. QED
      BY <1>1, <1>8, <3>1
  <2>. QED
    BY <1>1, <1>2, <2>1 DEF AInv, ReceiptsInv
<1>11. ActsInv'
  <2>1. ASSUME NEW j \in CallIds, acts[j] > lapses[j] PROVE calls'[j] = calls[j]
    BY <1>1, <1>8, <2>1 DEF AInv, ActsInv
  <2>. QED
    BY <1>1, <2>1 DEF AInv, ActsInv
<1>. QED
  BY <1>1, <1>3, <1>9, <1>10, <1>11 DEF AInv

LEMMA StutterStep == ASSUME AInv, UNCHANGED vars PROVE AInv' /\ UNCHANGED storeVars
<1>1. /\ UNCHANGED storeVars
      /\ UNCHANGED <<live, deleteIntent, target, promoted>>
      /\ UNCHANGED <<app, name, resolvedAt, revision, captured>>
      /\ UNCHANGED <<receipts, calls, acts, lapses, expiries>>
  BY DEF vars, storeVars, envVars, rowVars, intentVars, snapshotVars, callVars
<1>2. StoreInv' /\ Rendered' = Rendered
  BY <1>1, StepInv DEF AInv, Rendered
<1>. QED
  BY <1>1, <1>2 DEF AInv, IntentInv, SnapshotInv, ResolvedIsCurrent, CallsInv, ReceiptsInv, ActsInv

LEMMA AStep == ASSUME AInv, [ANext]_vars PROVE AInv' /\ [StoreNext]_storeVars
<1>1. ASSUME NEW i \in CallIds, NEW k \in Keys, NEW asked \in CallKinds,
             NEW forced \in BOOLEAN, Send(i, k, asked, forced)
      PROVE  AInv' /\ UNCHANGED storeVars
  BY <1>1, SendStep
<1>. QED
  BY <1>1, AcceptStep, ExpireStep, OtherRequestStep, PublishAStep, WorkStep, StutterStep DEF ANext

LEMMA AInitInv == AInit => AInv
<1>. SUFFICES ASSUME AInit PROVE AInv
  OBVIOUS
<1>1. StoreInv /\ live /\ ~deleteIntent /\ promoted = {}
  BY InitInv DEF AInit, StoreInit
<1>2. /\ app = [id |-> 1, generation |-> 1, saved |-> 1, deleting |-> FALSE]
      /\ name = 0 /\ resolvedAt = 0
      /\ revision = [o \in Ops |-> 0] /\ captured = [o \in Ops |-> NoContent]
      /\ receipts = [k \in Keys |-> NoReceipt] /\ calls = [i \in CallIds |-> NoCall]
      /\ acts = [i \in CallIds |-> 0] /\ lapses = [i \in CallIds |-> 0]
      /\ expiries = MaxExpiries
  BY DEF AInit
<1>3. IntentInv
  BY <1>1, <1>2, AcceptanceAssumption DEF IntentInv, AppRecord, Names
<1>4. NoContent \in Contents
  BY AcceptanceAssumption DEF NoContent, Contents, Names
<1>5. SnapshotInv
  BY <1>1, <1>2, <1>4, AcceptanceAssumption DEF SnapshotInv, ResolvedIsCurrent
<1>6. NoCall \in CallRecord /\ NoCall.kind = "none"
  BY <1>4, AcceptanceAssumption DEF NoCall, CallRecord, NoCheck, Names
<1>7. CallsInv
  BY <1>2, <1>6 DEF CallsInv
<1>8. ReceiptsInv
  BY <1>2, NoReceiptRecord, AcceptanceAssumption DEF ReceiptsInv
<1>9. ActsInv
  BY <1>2 DEF ActsInv
<1>. QED
  BY <1>1, <1>3, <1>5, <1>7, <1>8, <1>9 DEF AInv

-----------------------------------------------------------------------------
(* The inductive invariant of acceptance: a revision names one content, a    *)
(* name never returns to an application, and a call that acted has a receipt *)
(* or counted its loss (accept, bump_generation_on, publish_prepared).       *)
THEOREM AcceptanceInvariant == ASpec => []AInv
<1>1. AInit => AInv
  BY AInitInv
<1>2. AInv /\ [ANext]_vars => AInv'
  BY AStep
<1>. QED
  BY <1>1, <1>2, PTL DEF ASpec

(* Every request, accepted late, repeated or not, and every transaction      *)
(* between them, is a step of the operation store or leaves it alone         *)
(* (execute_mutation).                                                       *)
THEOREM AcceptanceImplementsStore == ASpec => StoreSpec
<1>1. AInit => StoreInit
  BY DEF AInit
<1>2. AInv /\ [ANext]_vars => [StoreNext]_storeVars
  BY AStep
<1>. QED
  BY <1>1, <1>2, AcceptanceInvariant, PTL DEF ASpec, StoreSpec

(* So the store's guarantees hold among clients that repeat their requests:  *)
(* the newest intent wins, a restore is of what succeeded, and nothing slips *)
(* in behind a deletion (start_operation, accept_restore_on,                 *)
(* request_delete_on).                                                       *)
THEOREM AcceptedRows ==
    ASpec => [](NewestIntentWins /\ RestoresOnlySucceededTargets /\ DeletionIsTheLastIntent)
<1>1. StoreInv => NewestIntentWins /\ RestoresOnlySucceededTargets /\ DeletionIsTheLastIntent
  BY DEF StoreInv
<1>2. AInv => StoreInv
  BY DEF AInv
<1>. QED
  BY <1>1, <1>2, AcceptanceInvariant, PTL

(* A repeated call takes effect once for each receipt it lost (accept,       *)
(* replay_on, prune_receipts).                                               *)
THEOREM AcceptanceRetriesActOnce == ASpec => []RetriesActOnce
<1>1. AInv => RetriesActOnce
  <2>. SUFFICES ASSUME AInv, NEW i \in CallIds PROVE acts[i] <= 1 + lapses[i]
    BY DEF RetriesActOnce
  <2>1. acts[i] \in Nat /\ lapses[i] \in Nat /\ (acts[i] > lapses[i] => acts[i] = lapses[i] + 1)
    BY DEF AInv, ActsInv
  <2>. QED
    BY <2>1
<1>. QED
  BY <1>1, AcceptanceInvariant, PTL

(* An environment resolved to the application's revision deploys what is     *)
(* saved and rendered now (publish_prepared, bump_generation_on).            *)
THEOREM AcceptanceResolvedIsCurrent == ASpec => []ResolvedIsCurrent
<1>1. AInv => ResolvedIsCurrent
  BY DEF AInv, SnapshotInv
<1>. QED
  BY <1>1, AcceptanceInvariant, PTL

(* Rows have their types, and an application that is being deleted has an    *)
(* environment whose deletion removes it (delete_application_on,             *)
(* finish_application_delete_on).                                            *)
THEOREM AcceptanceDeletionIsNotAbandoned == ASpec => []DeletionIsNotAbandoned
<1>1. AInv => DeletionIsNotAbandoned
  <2>. SUFFICES ASSUME AInv PROVE DeletionIsNotAbandoned
    OBVIOUS
  <2>1. \A k \in Keys : receipts[k] # NoReceipt =>
            /\ receipts[k].call \in CallIds
            /\ calls[receipts[k].call].key = k
            /\ receipts[k].app \in 1 .. 2
    BY DEF AInv, ReceiptsInv, ReceiptRecord
  <2>. QED
    BY <2>1 DEF AInv, DeletionIsNotAbandoned, ATypeOK, StoreInv, IntentInv, SnapshotInv,
                AppRecord, Contents, ReceiptsInv
<1>. QED
  BY <1>1, AcceptanceInvariant, PTL

(* No call is answered with an environment or a saved application that is    *)
(* gone (finish_delete_operation, finish_application_delete_on).             *)
THEOREM AcceptanceReceiptsGo == ASpec => []ReceiptsGoWithTheirSubject
<1>1. AInv => ReceiptsGoWithTheirSubject
  <2>. SUFFICES ASSUME AInv, NEW k \in Keys, receipts[k].call # 0
       PROVE  CASE k \in OfEnvironment -> live
                [] calls[receipts[k].call].kind \in {"save", "apply"}
                     -> receipts[k].app = app.id
                [] OTHER -> TRUE
    BY Zenon DEF ReceiptsGoWithTheirSubject
  <2>1. receipts[k] # NoReceipt
    BY DEF NoReceipt
  <2>2. /\ calls[receipts[k].call].kind \in {"save", "apply"} => receipts[k].app = app.id
        /\ calls[receipts[k].call].kind \notin {"save", "apply", "destroy"} => live
    BY <2>1 DEF AInv, ReceiptsInv
  <2>3. k \in OfEnvironment => calls[receipts[k].call].kind \notin {"save", "apply", "destroy"}
    BY DEF OfEnvironment
  <2>. QED
    BY <2>2, <2>3
<1>. QED
  BY <1>1, AcceptanceInvariant, PTL

(* A call with a precondition acts on exactly what its client inspected      *)
(* (check_generation, application_identity).                                 *)
THEOREM AcceptanceActsOnWhatWasInspected == ASpec => ActsOnWhatWasInspected
<1>. DEFINE Acts == \A i \in CallIds : acts'[i] # acts[i] /\ calls[i].expected # NoCheck
                        => calls[i].seen = <<app.id, Rendered>>
<1>1. AInv /\ [ANext]_vars => [Acts]_vars
  <2>. SUFFICES ASSUME AInv, ANext, NEW i \in CallIds, acts'[i] # acts[i],
                       calls[i].expected # NoCheck
                PROVE  calls[i].seen = <<app.id, Rendered>>
    OBVIOUS
  <2>0. acts \in [CallIds -> Nat]
    BY DEF AInv, ActsInv
  <2>1. Accept(i)
    <3>1. acts' = acts \/ \E j \in CallIds : Accept(j)
      BY Zenon DEF ANext, Send, Expire, OtherRequest, Publish, Work, callVars
    <3>2. PICK j \in CallIds : Accept(j)
      BY <3>1
    <3>3. acts' = [acts EXCEPT ![j] = @ + 1]
      BY <3>2 DEF Accept
    <3>. QED
      BY <2>0, <3>2, <3>3
  <2>. DEFINE c == calls[i]
  <2>2. c.kind # "none" /\ c.expected = app.generation /\ Perform(c)
    BY <2>1 DEF Accept
  <2>3. /\ c \in CallRecord /\ c.to \in Names /\ c.seen[1] = c.app
        /\ app.id = 1 => c.app = 1
        /\ c.app = app.id => c.seen[2] = Rendered
    BY <2>2 DEF AInv, CallsInv, CallRecord
  <2>4. /\ c.kind \in {"save", "apply"} => Selects(c)
        /\ c.kind = "destroy" => app.id = 1 /\ c.app = 1
        /\ c.kind \notin {"save", "apply", "destroy"} => live
    BY <2>2, <2>3, PerformMoves DEF AInv
  <2>5. c.app = app.id
    BY <2>3, <2>4 DEF Selects, AInv, IntentInv
  <2>6. c.seen = <<c.seen[1], c.seen[2]>>
    BY <2>3 DEF CallRecord
  <2>. QED
    BY <2>3, <2>5, <2>6
<1>. QED
  BY <1>1, AcceptanceInvariant, PTL DEF ASpec, ActsOnWhatWasInspected

=============================================================================
