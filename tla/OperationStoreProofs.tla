------------------------- MODULE OperationStoreProofs -------------------------
(***************************************************************************)
(* Proofs about OperationStore, for every number of operations and         *)
(* attempts and every set of errors.                                       *)
(*                                                                         *)
(* The inductive invariant adds to the guarantees of the store that rows   *)
(* exist exactly up to `count', that what comes later is blank, and that   *)
(* targets come from no later operation.                                   *)
(***************************************************************************)
EXTENDS OperationStore, TLAPS

\* Operations after the latest are blank rows; a deleted environment has none.
RowsEndAtCount ==
    /\ \A o \in Ops : state[o] = "absent" <=> o > count
    /\ \A o \in Ops : o > count => /\ kind[o] = "deploy"
                                   /\ target[o] = 0
                                   /\ rolledBack[o] = 0
                                   /\ o \notin promoted
                                   /\ o \notin succeededAt
    /\ ~live => count = 0

\* Attempts that have not started have no outcome.
FutureAttemptsBlank ==
    \A o \in Ops : \A n \in Attempts : n > attempt[o] => outcome[o][n] = "none"

StoreInv ==
    /\ TypeOK
    /\ RowsEndAtCount
    /\ NewestIntentWins
    /\ FutureAttemptsBlank
    /\ OutcomeAgreesWithState
    /\ ActiveTargetIsLastPublished
    /\ RestoresOnlySucceededTargets
    /\ RolledBackOnce
    /\ DeletionIsTheLastIntent

History == [Ops -> [Attempts -> Outcomes]]

-----------------------------------------------------------------------------

(* Saving an attempt writes the row of the current attempt of a deployment *)
(* and no other (save_deployment_attempt).                                 *)
LEMMA SaveAttempt ==
    ASSUME TypeOK, NEW h \in History, NEW o \in Ops, NEW r \in Outcomes
    PROVE  /\ SaveDeploymentAttempt(h, o, r) \in History
           /\ \A p \in Ops : p # o => SaveDeploymentAttempt(h, o, r)[p] = h[p]
           /\ \A n \in Attempts :
                  n # attempt[o] => SaveDeploymentAttempt(h, o, r)[o][n] = h[o][n]
           /\ kind[o] = "deploy" => SaveDeploymentAttempt(h, o, r)[o][attempt[o]] = r
<1>. DEFINE f == [h[o] EXCEPT ![attempt[o]] = r]
            g == [h EXCEPT ![o] = f]
<1>1. attempt[o] \in Attempts
  BY DEF TypeOK
<1>2. f \in [Attempts -> Outcomes] /\ f[attempt[o]] = r
      /\ \A n \in Attempts : n # attempt[o] => f[n] = h[o][n]
  BY <1>1 DEF History
<1>3. g \in History /\ g[o] = f /\ \A p \in Ops : p # o => g[p] = h[p]
  BY <1>2 DEF History
<1>4. SaveDeploymentAttempt(h, o, r) = IF kind[o] = "deploy" THEN g ELSE h
  BY DEF SaveDeploymentAttempt
<1>. HIDE DEF f, g
<1>. QED
  BY <1>2, <1>3, <1>4

(* Saving the attempt of `o' leaves every row but its current one alone.    *)
LEMMA OtherAttemptsKept ==
    ASSUME TypeOK, NEW h \in History, NEW o \in Ops, NEW r \in Outcomes,
           NEW p \in Ops, NEW n \in Attempts,
           ~(p = o /\ n = attempt[o] /\ kind[o] = "deploy")
    PROVE  SaveDeploymentAttempt(h, o, r)[p][n] = h[p][n]
<1>1. CASE kind[o] = "deploy"
  BY <1>1, SaveAttempt
<1>2. CASE kind[o] # "deploy"
  BY <1>2 DEF SaveDeploymentAttempt
<1>. QED
  BY <1>1, <1>2

(* What was rolled back is older than the latest operation.                *)
LEMMA RolledBackIsOlder ==
    ASSUME StoreInv, NEW o \in Ops, rolledBack[o] # 0
    PROVE  rolledBack[o] \in Ops /\ rolledBack[o] < count
<1>1. o <= count /\ rolledBack[o] < o
  BY DEF StoreInv, TypeOK, RowsEndAtCount, RolledBackOnce, Ops, Targets
<1>. QED
  BY <1>1, MaxOpsAssumption DEF StoreInv, TypeOK, Ops, Targets

(* A step that leaves the failures of older operations alone rolls nothing *)
(* back again.                                                             *)
LEMMA RollbacksKept ==
    ASSUME StoreInv, rolledBack' = rolledBack,
           \A d \in Ops : d < count /\ state[d] = "failed" /\ d \notin succeededAt
                            => state'[d] = "failed" /\ d \notin succeededAt'
    PROVE  RolledBackOnce'
<1>1. \A o \in Ops : rolledBack[o] # 0 => rolledBack[o] \in Ops /\ rolledBack[o] < count
  BY RolledBackIsOlder
<1>. QED
  BY <1>1 DEF StoreInv, RolledBackOnce

(* A created environment that was never deployed satisfies the invariant. *)
LEMMA InitInv == StoreInit => StoreInv
<1>. SUFFICES ASSUME StoreInit PROVE StoreInv
  OBVIOUS
<1>1. TypeOK
  <2>1. [n \in Attempts |-> "none"] \in [Attempts -> Outcomes]
    BY DEF Outcomes
  <2>2. outcome \in History
    BY <2>1 DEF StoreInit, History
  <2>3. /\ live \in BOOLEAN /\ deleteIntent \in BOOLEAN /\ stopped \in BOOLEAN
        /\ promoted \in SUBSET Ops /\ succeededAt \in SUBSET Ops /\ cleanup \in SUBSET Ops
    BY Zenon DEF StoreInit
  <2>5. resolved \in Targets /\ count \in Targets
    BY MaxOpsAssumption DEF StoreInit, Targets
  <2>4. /\ kind \in [Ops -> Kinds]
        /\ state \in [Ops -> States]
        /\ error \in [Ops -> Errors \cup {"none"}]
        /\ attempt \in [Ops -> Attempts]
        /\ target \in [Ops -> Targets]
        /\ rolledBack \in [Ops -> Targets]
    BY MaxOpsAssumption, MaxAttemptsAssumption DEF StoreInit, Kinds, States, Attempts, Targets
  <2>. QED
    BY <2>2, <2>3, <2>4, <2>5 DEF StoreInit, TypeOK, History
<1>2. RowsEndAtCount /\ NewestIntentWins /\ FutureAttemptsBlank /\ OutcomeAgreesWithState
  BY DEF StoreInit, RowsEndAtCount, NewestIntentWins, FutureAttemptsBlank,
         OutcomeAgreesWithState, Ops, Open, Terminal
<1>3. ActiveTargetIsLastPublished /\ RestoresOnlySucceededTargets
      /\ RolledBackOnce /\ DeletionIsTheLastIntent
  BY DEF StoreInit, ActiveTargetIsLastPublished, RestoresOnlySucceededTargets,
         RolledBackOnce, DeletionIsTheLastIntent
<1>. QED
  BY <1>1, <1>2, <1>3 DEF StoreInv

-----------------------------------------------------------------------------
(* Every transaction preserves the invariant. *)

(* transition_operation, from a requested or running operation. *)
LEMMA TransitionInv ==
    ASSUME StoreInv, NEW o \in Ops, NEW from \in Open,
           NEW to \in {"requested", "running", "succeeded", "failed", "cancelled"},
           NEW code \in Errors \cup {"none"},
           TransitionOperation(o, from, to, code)
    PROVE  StoreInv'
<1>1. /\ live
      /\ o = count
      /\ state[o] = from
      /\ (code # "none") <=> (to = "failed")
      /\ state' = [state EXCEPT ![o] = to]
      /\ error' = [error EXCEPT ![o] = code]
      /\ cleanup' = IF code = "job" THEN cleanup \cup {o} ELSE cleanup
      /\ outcome' = IF to \in Terminal THEN SaveDeploymentAttempt(outcome, o, to)
                    ELSE outcome
      /\ succeededAt' = IF to = "succeeded" /\ kind[o] = "deploy"
                        THEN succeededAt \cup {o} ELSE succeededAt
      /\ live' = live /\ deleteIntent' = deleteIntent /\ stopped' = stopped
      /\ resolved' = resolved /\ count' = count /\ kind' = kind /\ target' = target
      /\ promoted' = promoted /\ rolledBack' = rolledBack
  BY Zenon DEF TransitionOperation, envVars, rowVars
<1>2. \/ to = "running" /\ from # "running" /\ attempt[o] < MaxAttempts
           /\ attempt' = [attempt EXCEPT ![o] = attempt[o] + 1]
      \/ (to # "running" \/ from = "running") /\ attempt' = attempt
  BY DEF TransitionOperation, CountAttempt
<1>3. TypeOK /\ outcome \in History
  BY DEF StoreInv, TypeOK, History
<1>a. attempt' \in [Ops -> Attempts] /\ \A p \in Ops : attempt'[p] >= attempt[p]
  <2>1. attempt \in [Ops -> Attempts] /\ \A p \in Ops : attempt[p] \in Nat
    BY <1>3, MaxAttemptsAssumption DEF TypeOK, Attempts
  <2>2. CASE attempt' = attempt
    BY <2>1, <2>2
  <2>3. CASE attempt[o] < MaxAttempts /\ attempt' = [attempt EXCEPT ![o] = attempt[o] + 1]
    <3>1. attempt[o] + 1 \in Attempts /\ attempt[o] + 1 >= attempt[o]
      BY <2>1, <2>3, MaxAttemptsAssumption DEF Attempts
    <3>2. attempt' \in [Ops -> Attempts]
      BY <2>1, <2>3, <3>1
    <3>. QED
      BY <2>1, <2>3, <3>1, <3>2
  <2>. QED
    BY <1>2, <2>2, <2>3
<1>4. /\ outcome' \in History
      /\ \A p \in Ops : p # o => outcome'[p] = outcome[p]
      /\ \A n \in Attempts : n # attempt[o] => outcome'[o][n] = outcome[o][n]
      /\ kind[o] = "deploy" /\ to \in Terminal => outcome'[o][attempt[o]] = to
      /\ to \notin Terminal => outcome' = outcome
  <2>1. CASE to \in Terminal
    <3>1. to \in Outcomes
      BY <2>1 DEF Outcomes
    <3>. QED
      BY <1>1, <1>3, <2>1, <3>1, SaveAttempt
  <2>2. CASE to \notin Terminal
    BY <1>1, <1>3, <2>2
  <2>. QED
    BY <2>1, <2>2
<1>5. TypeOK'
  <2>1. (live \in BOOLEAN /\ deleteIntent \in BOOLEAN /\ stopped \in BOOLEAN)'
    BY <1>1, <1>3, Zenon DEF TypeOK
  <2>2. (cleanup \in SUBSET Ops /\ succeededAt \in SUBSET Ops)'
    BY <1>1, <1>3 DEF TypeOK
  <2>4. state' \in [Ops -> States] /\ error' \in [Ops -> Errors \cup {"none"}]
    BY <1>1, <1>3 DEF TypeOK, States
  <2>5. \A p \in Ops : error'[p] # "none" =>
             state'[p] = "failed" \/ (state'[p] = "running" /\ kind'[p] = "delete")
    BY <1>1, <1>3 DEF TypeOK
  <2>. QED
    BY <1>1, <1>3, <1>a, <1>4, <2>1, <2>2, <2>4, <2>5 DEF TypeOK, History
<1>6. RowsEndAtCount' /\ NewestIntentWins'
  BY <1>1, <1>3 DEF StoreInv, TypeOK, RowsEndAtCount, NewestIntentWins, Open, Ops
<1>7. FutureAttemptsBlank'
  <2>. SUFFICES ASSUME NEW p \in Ops, NEW n \in Attempts, n > attempt'[p]
                PROVE  outcome'[p][n] = "none"
    BY DEF FutureAttemptsBlank
  <2>1. n > attempt[p]
    BY <1>3, <1>a, MaxAttemptsAssumption DEF TypeOK, Attempts
  <2>2. p = o => n # attempt[o]
    BY <1>3, <2>1 DEF TypeOK, Attempts
  <2>3. outcome'[p][n] = outcome[p][n]
    BY <1>4, <2>2
  <2>. QED
    BY <2>1, <2>3 DEF StoreInv, FutureAttemptsBlank
<1>8. OutcomeAgreesWithState'
  <2>. SUFFICES ASSUME NEW p \in Ops, kind[p] = "deploy"
                PROVE  /\ state'[p] \in {"succeeded", "failed", "cancelled"}
                              => outcome'[p][attempt'[p]] = state'[p]
                       /\ state'[p] = "running" => outcome'[p][attempt'[p]] = "none"
    BY <1>1 DEF OutcomeAgreesWithState
  <2>1. CASE p # o
    <3>1. state'[p] = state[p] /\ attempt'[p] = attempt[p] /\ outcome'[p] = outcome[p]
      BY <1>1, <1>2, <1>3, <1>4, <2>1 DEF TypeOK
    <3>. QED
      BY <3>1 DEF StoreInv, OutcomeAgreesWithState
  <2>2. CASE p = o /\ to \in Terminal
    BY <1>1, <1>2, <1>3, <1>4, <2>2 DEF TypeOK, Terminal
  <2>3. CASE p = o /\ to = "running"
    <3>1. state'[o] = "running" /\ outcome' = outcome
      BY <1>1, <1>3, <1>4, <2>3 DEF TypeOK, Terminal
    <3>2. CASE from = "running"
      BY <1>1, <1>2, <2>3, <3>1, <3>2 DEF StoreInv, OutcomeAgreesWithState, Terminal
    <3>3. CASE from # "running"
      <4>1. attempt'[o] \in Attempts /\ attempt'[o] > attempt[o]
        BY <1>2, <1>3, <2>3, <3>3, MaxAttemptsAssumption DEF TypeOK, Attempts
      <4>. QED
        BY <2>3, <3>1, <4>1 DEF StoreInv, FutureAttemptsBlank, Terminal
    <3>. QED
      BY <3>2, <3>3
  <2>4. CASE p = o /\ to = "requested"
    BY <1>1, <1>3, <2>4 DEF TypeOK, Terminal
  <2>. QED
    BY <2>1, <2>2, <2>3, <2>4 DEF Terminal
<1>9. ActiveTargetIsLastPublished' /\ RestoresOnlySucceededTargets'
      /\ DeletionIsTheLastIntent'
  BY <1>1, <1>3 DEF StoreInv, TypeOK, ActiveTargetIsLastPublished,
     RestoresOnlySucceededTargets, DeletionIsTheLastIntent
<1>10. RolledBackOnce'
  <2>1. \A d \in Ops : d < count => d # o /\ state'[d] = state[d]
    BY <1>1, <1>3 DEF TypeOK, Targets
  <2>2. \A d \in Ops : d # o /\ d \notin succeededAt => d \notin succeededAt'
    BY <1>1
  <2>. QED
    BY <1>1, <2>1, <2>2, RollbacksKept
<1>. QED
  BY <1>5, <1>6, <1>7, <1>8, <1>9, <1>10 DEF StoreInv

(* retry_operation, stop_on and start_on: whether or not the latest          *)
(* operation is reset, and whatever happens to the stopped flag.             *)
LEMMA ResetInv ==
    ASSUME StoreInv,
           \/ UNCHANGED <<state, error>>
           \/ \E o \in Ops : Retriable(o) /\ ResetToRequested(o),
           stopped' \in BOOLEAN,
           UNCHANGED <<live, deleteIntent, resolved, attempt, cleanup, rowVars, historyVars>>
    PROVE  StoreInv'
<1>1. /\ live' = live /\ deleteIntent' = deleteIntent /\ resolved' = resolved
      /\ attempt' = attempt /\ cleanup' = cleanup /\ count' = count /\ kind' = kind
      /\ target' = target /\ promoted' = promoted /\ rolledBack' = rolledBack
      /\ succeededAt' = succeededAt /\ outcome' = outcome
  BY Zenon DEF rowVars, historyVars
<1>2. TypeOK
  BY DEF StoreInv
<1>3. /\ state' \in [Ops -> States] /\ error' \in [Ops -> Errors \cup {"none"}]
      /\ \A p \in Ops : \/ state'[p] = state[p] /\ error'[p] = error[p]
                        \/ /\ state'[p] = "requested" /\ error'[p] = "none"
                           /\ p = count /\ state[p] # "absent"
  <2>1. CASE UNCHANGED <<state, error>>
    BY <1>2, <2>1 DEF TypeOK
  <2>2. CASE \E o \in Ops : Retriable(o) /\ ResetToRequested(o)
    BY <1>2, <2>2 DEF TypeOK, Retriable, ResetToRequested, States
  <2>. QED
    BY <2>1, <2>2
<1>4. TypeOK'
  <2>1. (live \in BOOLEAN /\ deleteIntent \in BOOLEAN /\ stopped \in BOOLEAN)'
    BY <1>1, <1>2, Zenon DEF TypeOK
  <2>. QED
    BY <1>1, <1>2, <1>3, <2>1 DEF TypeOK
<1>5. RowsEndAtCount' /\ NewestIntentWins'
  BY <1>1, <1>2, <1>3 DEF StoreInv, TypeOK, RowsEndAtCount, NewestIntentWins, Open
<1>6. FutureAttemptsBlank' /\ OutcomeAgreesWithState'
  BY <1>1, <1>3 DEF StoreInv, FutureAttemptsBlank, OutcomeAgreesWithState, Terminal
<1>7. ActiveTargetIsLastPublished' /\ RestoresOnlySucceededTargets'
      /\ DeletionIsTheLastIntent'
  BY <1>1 DEF StoreInv, ActiveTargetIsLastPublished,
     RestoresOnlySucceededTargets, DeletionIsTheLastIntent
<1>8. RolledBackOnce'
  BY <1>1, <1>2, <1>3, RollbacksKept DEF TypeOK, Targets
<1>. QED
  BY <1>4, <1>5, <1>6, <1>7, <1>8 DEF StoreInv

(* record_operation_error, which the reconciler calls for deletions. *)
LEMMA RecordErrorInv ==
    ASSUME StoreInv, NEW o \in Ops, NEW code \in Errors,
           kind[o] = "delete", RecordOperationError(o, code)
    PROVE  StoreInv'
<1>1. /\ state[o] = "running" /\ error' = [error EXCEPT ![o] = code]
      /\ live' = live /\ deleteIntent' = deleteIntent /\ resolved' = resolved
      /\ attempt' = attempt /\ cleanup' = cleanup /\ count' = count /\ kind' = kind
      /\ target' = target /\ promoted' = promoted /\ rolledBack' = rolledBack
      /\ succeededAt' = succeededAt /\ outcome' = outcome /\ state' = state
      /\ stopped' = stopped
  BY Zenon DEF RecordOperationError, rowVars, historyVars, envVars
<1>2. TypeOK'
  <2>1. (live \in BOOLEAN /\ deleteIntent \in BOOLEAN /\ stopped \in BOOLEAN)'
    BY <1>1, Zenon DEF StoreInv, TypeOK
  <2>. QED
    BY <1>1, <2>1 DEF StoreInv, TypeOK
<1>. QED
  BY <1>1, <1>2 DEF StoreInv, RowsEndAtCount, NewestIntentWins, FutureAttemptsBlank,
     OutcomeAgreesWithState, ActiveTargetIsLastPublished,
     RestoresOnlySucceededTargets, RolledBackOnce, DeletionIsTheLastIntent

(* finish_delete_operation leaves no row. *)
LEMMA FinishDeleteInv ==
    ASSUME StoreInv, NEW o \in Ops, FinishDeleteOperation(o)
    PROVE  StoreInv'
<1>1. TypeOK'
  <2>1. outcome' \in History
    <3>1. [n \in Attempts |-> "none"] \in [Attempts -> Outcomes]
      BY DEF Outcomes
    <3>. QED
      BY <3>1 DEF FinishDeleteOperation, History
  <2>2. /\ (live \in BOOLEAN /\ deleteIntent \in BOOLEAN /\ stopped \in BOOLEAN)'
        /\ (promoted \in SUBSET Ops /\ succeededAt \in SUBSET Ops /\ cleanup \in SUBSET Ops)'
    BY Zenon DEF StoreInv, TypeOK, FinishDeleteOperation
  <2>3. (resolved \in Targets /\ count \in Targets)'
    BY MaxOpsAssumption DEF FinishDeleteOperation, Targets
  <2>4. /\ (kind \in [Ops -> Kinds])'
        /\ (state \in [Ops -> States])'
        /\ (error \in [Ops -> Errors \cup {"none"}])'
        /\ (attempt \in [Ops -> Attempts])'
        /\ (target \in [Ops -> Targets])'
        /\ (rolledBack \in [Ops -> Targets])'
    BY MaxOpsAssumption, MaxAttemptsAssumption
       DEF FinishDeleteOperation, Kinds, States, Attempts, Targets
  <2>. QED
    BY <2>1, <2>2, <2>3, <2>4 DEF FinishDeleteOperation, TypeOK, History
<1>2. RowsEndAtCount' /\ NewestIntentWins' /\ FutureAttemptsBlank' /\ OutcomeAgreesWithState'
  BY DEF FinishDeleteOperation, RowsEndAtCount, NewestIntentWins, FutureAttemptsBlank,
         OutcomeAgreesWithState, Ops, Open, Terminal
<1>3. ActiveTargetIsLastPublished' /\ RestoresOnlySucceededTargets'
      /\ RolledBackOnce' /\ DeletionIsTheLastIntent'
  BY DEF FinishDeleteOperation, ActiveTargetIsLastPublished, RestoresOnlySucceededTargets,
         RolledBackOnce, DeletionIsTheLastIntent
<1>. QED
  BY <1>1, <1>2, <1>3 DEF StoreInv

(* save_prepared of a target that was not prepared before. *)
LEMMA PrepareInv ==
    ASSUME StoreInv, NEW o \in Ops, PrepareTarget(o)
    PROVE  StoreInv'
<1>1. /\ target[o] = 0 /\ target' = [target EXCEPT ![o] = o] /\ o = count
      /\ live' = live /\ deleteIntent' = deleteIntent /\ resolved' = resolved
      /\ attempt' = attempt /\ cleanup' = cleanup /\ count' = count /\ kind' = kind
      /\ promoted' = promoted /\ rolledBack' = rolledBack
      /\ succeededAt' = succeededAt /\ outcome' = outcome /\ state' = state
      /\ stopped' = stopped /\ error' = error
  BY Zenon DEF PrepareTarget, SavePrepared, execVars, historyVars, envVars
<1>2. TypeOK'
  <2>1. (live \in BOOLEAN /\ deleteIntent \in BOOLEAN /\ stopped \in BOOLEAN)'
    BY <1>1, Zenon DEF StoreInv, TypeOK
  <2>2. target' \in [Ops -> Targets]
    BY <1>1 DEF StoreInv, TypeOK, Ops, Targets
  <2>. QED
    BY <1>1, <2>1, <2>2 DEF StoreInv, TypeOK
<1>3. ActiveTargetIsLastPublished'
  BY <1>1 DEF StoreInv, TypeOK, ActiveTargetIsLastPublished
<1>4. RestoresOnlySucceededTargets' /\ RowsEndAtCount'
  BY <1>1 DEF StoreInv, TypeOK, RestoresOnlySucceededTargets, RowsEndAtCount, Ops
<1>. QED
  BY <1>1, <1>2, <1>3, <1>4 DEF StoreInv, NewestIntentWins, FutureAttemptsBlank,
     OutcomeAgreesWithState, RolledBackOnce, DeletionIsTheLastIntent

(* publish_prepared *)
LEMMA PublishInv ==
    ASSUME StoreInv, NEW o \in Ops, PublishPrepared(o)
    PROVE  StoreInv'
<1>1. /\ target[o] # 0 /\ resolved' = target[o] /\ promoted' = promoted \cup {o}
      /\ o = count
      /\ live' = live /\ deleteIntent' = deleteIntent /\ target' = target
      /\ attempt' = attempt /\ cleanup' = cleanup /\ count' = count /\ kind' = kind
      /\ rolledBack' = rolledBack
      /\ succeededAt' = succeededAt /\ outcome' = outcome /\ state' = state
      /\ stopped' = stopped /\ error' = error
  BY Zenon DEF PublishPrepared, execVars, historyVars
<1>2. TypeOK'
  <2>1. (live \in BOOLEAN /\ deleteIntent \in BOOLEAN /\ stopped \in BOOLEAN)'
    BY <1>1, Zenon DEF StoreInv, TypeOK
  <2>. QED
    BY <1>1, <2>1 DEF StoreInv, TypeOK
<1>3. \A p \in promoted : p <= o
  BY <1>1, MaxOpsAssumption DEF StoreInv, TypeOK, RowsEndAtCount, Ops, Targets
<1>4. ActiveTargetIsLastPublished'
  BY <1>1, <1>3 DEF ActiveTargetIsLastPublished, Ops
<1>5. RowsEndAtCount'
  BY <1>1 DEF StoreInv, TypeOK, RowsEndAtCount, Ops
<1>. QED
  BY <1>1, <1>2, <1>4, <1>5 DEF StoreInv, NewestIntentWins, FutureAttemptsBlank,
     OutcomeAgreesWithState, RestoresOnlySucceededTargets, RolledBackOnce,
     DeletionIsTheLastIntent

(* recover_interrupted *)
LEMMA RecoverInv ==
    ASSUME StoreInv, RecoverInterrupted
    PROVE  StoreInv'
<1>. DEFINE saved(o) == SaveDeploymentAttempt(outcome, o, "cancelled")[o]
            row(o) == IF state[o] = "running" THEN saved(o) ELSE outcome[o]
<1>1. /\ outcome' = [o \in Ops |-> row(o)]
      /\ state' = [o \in Ops |-> IF state[o] = "running" THEN "requested" ELSE state[o]]
      /\ error' = [o \in Ops |-> IF state[o] = "running" THEN "none" ELSE error[o]]
  BY DEF RecoverInterrupted
<1>2. /\ live' = live /\ deleteIntent' = deleteIntent /\ resolved' = resolved
      /\ attempt' = attempt /\ cleanup' = cleanup /\ count' = count /\ kind' = kind
      /\ target' = target /\ promoted' = promoted /\ rolledBack' = rolledBack
      /\ succeededAt' = succeededAt /\ stopped' = stopped
  BY Zenon DEF RecoverInterrupted, rowVars, envVars
<1>3. TypeOK /\ outcome \in History
  BY DEF StoreInv, TypeOK, History
<1>4. \A o \in Ops : /\ saved(o) \in [Attempts -> Outcomes]
                     /\ \A n \in Attempts : n # attempt[o] => saved(o)[n] = outcome[o][n]
  <2>. SUFFICES ASSUME NEW o \in Ops
                PROVE  /\ saved(o) \in [Attempts -> Outcomes]
                       /\ \A n \in Attempts : n # attempt[o] => saved(o)[n] = outcome[o][n]
    OBVIOUS
  <2>1. "cancelled" \in Outcomes
    BY DEF Outcomes, Terminal
  <2>2. /\ SaveDeploymentAttempt(outcome, o, "cancelled") \in History
        /\ \A n \in Attempts : n # attempt[o] => saved(o)[n] = outcome[o][n]
    BY <1>3, <2>1, SaveAttempt
  <2>. QED
    BY <2>2 DEF History
<1>. HIDE DEF saved
<1>5. outcome' \in History
  BY <1>1, <1>3, <1>4 DEF History
<1>6. TypeOK'
  <2>1. (live \in BOOLEAN /\ deleteIntent \in BOOLEAN /\ stopped \in BOOLEAN)'
    BY <1>2, <1>3, Zenon DEF TypeOK
  <2>2. state' \in [Ops -> States] /\ error' \in [Ops -> Errors \cup {"none"}]
    BY <1>1, <1>3 DEF TypeOK, States
  <2>3. \A p \in Ops : error'[p] # "none" =>
             state'[p] = "failed" \/ (state'[p] = "running" /\ kind'[p] = "delete")
    BY <1>1, <1>2, <1>3 DEF TypeOK
  <2>. QED
    BY <1>2, <1>3, <1>5, <2>1, <2>2, <2>3 DEF TypeOK, History
<1>7. RowsEndAtCount' /\ NewestIntentWins'
  BY <1>1, <1>2, <1>3 DEF StoreInv, RowsEndAtCount, NewestIntentWins, Open
<1>8. FutureAttemptsBlank'
  <2>. SUFFICES ASSUME NEW p \in Ops, NEW n \in Attempts, n > attempt[p]
                PROVE  outcome'[p][n] = "none"
    BY <1>2 DEF FutureAttemptsBlank
  <2>1. n # attempt[p]
    BY <1>3, MaxAttemptsAssumption DEF TypeOK, Attempts
  <2>2. outcome'[p][n] = outcome[p][n]
    BY <1>1, <1>4, <2>1
  <2>. QED
    BY <2>2 DEF StoreInv, FutureAttemptsBlank
<1>9. OutcomeAgreesWithState'
  <2>. SUFFICES ASSUME NEW p \in Ops, kind[p] = "deploy"
                PROVE  /\ state'[p] \in {"succeeded", "failed", "cancelled"}
                              => outcome'[p][attempt[p]] = state'[p]
                       /\ state'[p] # "running"
    BY <1>2 DEF OutcomeAgreesWithState
  <2>1. CASE state[p] = "running"
    BY <1>1, <2>1
  <2>2. CASE state[p] # "running"
    BY <1>1, <2>2 DEF StoreInv, OutcomeAgreesWithState
  <2>. QED
    BY <2>1, <2>2
<1>10. RolledBackOnce'
  BY <1>1, <1>2, RollbacksKept
<1>. QED
  BY <1>2, <1>6, <1>7, <1>8, <1>9, <1>10 DEF StoreInv, ActiveTargetIsLastPublished,
     RestoresOnlySucceededTargets, DeletionIsTheLastIntent

-----------------------------------------------------------------------------
(* Requests that start an operation *)

\* What the rows a transaction passes to start_operation must satisfy: they are
\* the stored ones, or those with the running operation failed (roll_back).
StartableFrom(st, er, oc) ==
    /\ st \in [Ops -> States]
    /\ er \in [Ops -> Errors \cup {"none"}]
    /\ oc \in History
    /\ \A o \in Ops : st[o] = "absent" <=> o > count
    /\ \A o \in Ops : er[o] # "none" =>
           st[o] = "failed" \/ (st[o] = "running" /\ kind[o] = "delete")
    /\ \A o \in Ops : \A n \in Attempts : n > attempt[o] => oc[o][n] = "none"
    /\ \A o \in Ops :
           kind[o] = "deploy" /\ st[o] \in {"succeeded", "failed", "cancelled"}
               => oc[o][attempt[o]] = st[o]
    /\ \A o \in Ops : state[o] = "failed" => st[o] = "failed"

(* The rows start_operation leaves: one more operation, the only open one. *)
LEMMA StartRows ==
    ASSUME StoreInv, NEW st, NEW er, NEW oc, NEW k \in Kinds,
           StartableFrom(st, er, oc), StartOperation(st, er, oc, k),
           attempt' = attempt
    PROVE  /\ count + 1 \in Ops /\ count' = count + 1
           /\ state' \in [Ops -> States]
           /\ error' \in [Ops -> Errors \cup {"none"}]
           /\ outcome' \in History
           /\ kind' \in [Ops -> Kinds]
           /\ kind'[count + 1] = k
           /\ \A o \in Ops : o # count + 1 => kind'[o] = kind[o]
           /\ \A o \in Ops : error'[o] # "none" =>
                  state'[o] = "failed" \/ (state'[o] = "running" /\ kind'[o] = "delete")
           /\ \A o \in Ops : state'[o] = "absent" <=> o > count'
           /\ \A o \in Ops : o # count + 1 /\ st[o] = "failed" => state'[o] = "failed"
           /\ NewestIntentWins' /\ FutureAttemptsBlank' /\ OutcomeAgreesWithState'
<1>. DEFINE saved(o) == SaveDeploymentAttempt(oc, o, "superseded")[o]
            row(o) == IF st[o] \in Open THEN saved(o) ELSE oc[o]
<1>1. /\ count < MaxOps
      /\ count' = count + 1
      /\ state' = [o \in Ops |-> IF o = count + 1 THEN "requested"
                                 ELSE IF st[o] \in Open THEN "superseded" ELSE st[o]]
      /\ error' = [o \in Ops |-> IF st[o] \in Open THEN "none" ELSE er[o]]
      /\ outcome' = [o \in Ops |-> row(o)]
      /\ kind' = [kind EXCEPT ![count + 1] = k]
  BY DEF StartOperation
<1>2. TypeOK
  BY DEF StoreInv
<1>3. count + 1 \in Ops /\ count \in Nat
  BY <1>1, <1>2, MaxOpsAssumption DEF TypeOK, Ops, Targets
<1>4. /\ kind' \in [Ops -> Kinds] /\ kind'[count + 1] = k
      /\ \A o \in Ops : o # count + 1 => kind'[o] = kind[o]
  BY <1>1, <1>2, <1>3 DEF TypeOK
<1>5. /\ state' \in [Ops -> States] /\ error' \in [Ops -> Errors \cup {"none"}]
      /\ state'[count + 1] = "requested"
      /\ \A o \in Ops : o # count + 1 =>
             state'[o] = IF st[o] \in Open THEN "superseded" ELSE st[o]
      /\ \A o \in Ops : error'[o] = IF st[o] \in Open THEN "none" ELSE er[o]
  BY <1>1, <1>3 DEF StartableFrom, States
<1>6. st[count + 1] = "absent"
  BY <1>3 DEF StartableFrom
<1>7. \A o \in Ops : error'[o] # "none" =>
          state'[o] = "failed" \/ (state'[o] = "running" /\ kind'[o] = "delete")
  BY <1>3, <1>5, <1>6 DEF StartableFrom, Open
<1>8. \A o \in Ops : state'[o] = "absent" <=> o > count'
  <2>. SUFFICES ASSUME NEW o \in Ops PROVE state'[o] = "absent" <=> o > count'
    OBVIOUS
  <2>1. CASE o = count + 1
    BY <1>1, <1>3, <1>5, <2>1
  <2>2. CASE o # count + 1
    <3>1. o > count <=> o > count'
      BY <1>1, <1>3, <2>2 DEF Ops
    <3>2. state'[o] = "absent" <=> st[o] = "absent"
      BY <1>5, <2>2 DEF Open
    <3>. QED
      BY <3>1, <3>2 DEF StartableFrom
  <2>. QED
    BY <2>1, <2>2
<1>9. NewestIntentWins'
  BY <1>1, <1>5 DEF NewestIntentWins, Open
<1>10. \A o \in Ops : /\ saved(o) \in [Attempts -> Outcomes]
                      /\ \A n \in Attempts : n # attempt[o] => saved(o)[n] = oc[o][n]
                      /\ kind[o] = "deploy" => saved(o)[attempt[o]] = "superseded"
  <2>. SUFFICES ASSUME NEW o \in Ops
                PROVE  /\ saved(o) \in [Attempts -> Outcomes]
                       /\ \A n \in Attempts : n # attempt[o] => saved(o)[n] = oc[o][n]
                       /\ kind[o] = "deploy" => saved(o)[attempt[o]] = "superseded"
    OBVIOUS
  <2>1. "superseded" \in Outcomes /\ oc \in History
    BY DEF Outcomes, Terminal, StartableFrom
  <2>2. /\ SaveDeploymentAttempt(oc, o, "superseded") \in History
        /\ \A n \in Attempts : n # attempt[o] => saved(o)[n] = oc[o][n]
        /\ kind[o] = "deploy" => saved(o)[attempt[o]] = "superseded"
    BY <1>2, <2>1, SaveAttempt
  <2>. QED
    BY <2>2 DEF History
<1>. HIDE DEF saved
<1>11. outcome' \in History
  BY <1>1, <1>10 DEF History, StartableFrom
<1>12. FutureAttemptsBlank'
  <2>. SUFFICES ASSUME NEW p \in Ops, NEW n \in Attempts, n > attempt[p]
                PROVE  outcome'[p][n] = "none"
    BY DEF FutureAttemptsBlank
  <2>1. n # attempt[p]
    BY <1>2, MaxAttemptsAssumption DEF TypeOK, Attempts
  <2>2. outcome'[p][n] = oc[p][n]
    BY <1>1, <1>10, <2>1
  <2>. QED
    BY <2>2 DEF StartableFrom
<1>13. OutcomeAgreesWithState'
  <2>. SUFFICES ASSUME NEW p \in Ops, kind'[p] = "deploy"
                PROVE  /\ state'[p] \in {"succeeded", "failed", "cancelled"}
                              => outcome'[p][attempt[p]] = state'[p]
                       /\ state'[p] # "running"
    BY DEF OutcomeAgreesWithState
  <2>1. CASE p = count + 1
    BY <1>5, <2>1
  <2>2. CASE p # count + 1 /\ st[p] \in Open
    BY <1>1, <1>4, <1>5, <1>10, <2>2
  <2>3. CASE p # count + 1 /\ st[p] \notin Open
    BY <1>1, <1>4, <1>5, <2>3 DEF StartableFrom, Open
  <2>. QED
    BY <2>1, <2>2, <2>3
<1>14. \A o \in Ops : o # count + 1 /\ st[o] = "failed" => state'[o] = "failed"
  BY <1>5 DEF Open
<1>. QED
  BY <1>1, <1>3, <1>4, <1>5, <1>7, <1>8, <1>9, <1>11, <1>12, <1>13, <1>14

(* The stored rows are ones an operation can be started from. *)
LEMMA StoredRowsStartable ==
    ASSUME StoreInv
    PROVE  StartableFrom(state, error, outcome)
BY DEF StoreInv, TypeOK, History, RowsEndAtCount, FutureAttemptsBlank,
       OutcomeAgreesWithState, StartableFrom

(* The rows roll_back leaves before it accepts the restore are, too. *)
LEMMA FailedRowsStartable ==
    ASSUME StoreInv, NEW o \in Ops, NEW code \in Errors, state[o] = "running"
    PROVE  StartableFrom([state EXCEPT ![o] = "failed"],
                         [error EXCEPT ![o] = code],
                         SaveDeploymentAttempt(outcome, o, "failed"))
<1>. DEFINE st == [state EXCEPT ![o] = "failed"]
            er == [error EXCEPT ![o] = code]
            oc == SaveDeploymentAttempt(outcome, o, "failed")
<1>1. TypeOK /\ outcome \in History /\ "failed" \in Outcomes
  BY DEF StoreInv, TypeOK, History, Outcomes, Terminal
<1>2. /\ st \in [Ops -> States] /\ er \in [Ops -> Errors \cup {"none"}]
      /\ st[o] = "failed" /\ er[o] = code
      /\ \A p \in Ops : p # o => st[p] = state[p] /\ er[p] = error[p]
  BY <1>1 DEF TypeOK, States
<1>3. /\ oc \in History
      /\ \A p \in Ops : p # o => oc[p] = outcome[p]
      /\ \A n \in Attempts : n # attempt[o] => oc[o][n] = outcome[o][n]
      /\ kind[o] = "deploy" => oc[o][attempt[o]] = "failed"
  BY <1>1, SaveAttempt
<1>. HIDE DEF st, er, oc
<1>4. \A p \in Ops : st[p] = "absent" <=> p > count
  BY <1>2 DEF StoreInv, RowsEndAtCount
<1>5. \A p \in Ops : er[p] # "none" =>
          st[p] = "failed" \/ (st[p] = "running" /\ kind[p] = "delete")
  BY <1>1, <1>2 DEF TypeOK
<1>6. ASSUME NEW p \in Ops, NEW n \in Attempts, n > attempt[p]
      PROVE  oc[p][n] = "none"
  <2>1. n # attempt[p]
    BY <1>1, <1>6, MaxAttemptsAssumption DEF TypeOK, Attempts
  <2>2. oc[p][n] = outcome[p][n]
    BY <1>3, <2>1
  <2>. QED
    BY <1>6, <2>2 DEF StoreInv, FutureAttemptsBlank
<1>7. \A p \in Ops :
          kind[p] = "deploy" /\ st[p] \in {"succeeded", "failed", "cancelled"}
              => oc[p][attempt[p]] = st[p]
  BY <1>2, <1>3 DEF StoreInv, OutcomeAgreesWithState
<1>8. \A p \in Ops : state[p] = "failed" => st[p] = "failed"
  BY <1>2
<1>9. StartableFrom(st, er, oc)
  BY <1>2, <1>3, <1>4, <1>5, <1>6, <1>7, <1>8 DEF StartableFrom
<1>. QED
  BY <1>9 DEF st, er, oc

(* request_deploy_on *)
LEMMA DeployInv ==
    ASSUME StoreInv, RequestDeploy
    PROVE  StoreInv'
<1>1. /\ live /\ ~deleteIntent
      /\ live' = live /\ deleteIntent' = deleteIntent /\ resolved' = resolved
      /\ attempt' = attempt /\ cleanup' = cleanup /\ target' = target
      /\ promoted' = promoted /\ rolledBack' = rolledBack /\ succeededAt' = succeededAt
      /\ stopped' \in BOOLEAN
  BY Zenon DEF RequestDeploy, StartOperation, Accepts
<1>2. StartOperation(state, error, outcome, "deploy") /\ "deploy" \in Kinds
  BY DEF RequestDeploy, Kinds
<1>3. TypeOK
  BY DEF StoreInv
<1>. DEFINE n == count + 1
<1>4. /\ n \in Ops /\ count' = n
      /\ state' \in [Ops -> States]
      /\ error' \in [Ops -> Errors \cup {"none"}]
      /\ outcome' \in History
      /\ kind' \in [Ops -> Kinds]
      /\ kind'[n] = "deploy"
      /\ \A o \in Ops : o # n => kind'[o] = kind[o]
      /\ \A o \in Ops : error'[o] # "none" =>
             state'[o] = "failed" \/ (state'[o] = "running" /\ kind'[o] = "delete")
      /\ \A o \in Ops : state'[o] = "absent" <=> o > count'
      /\ \A o \in Ops : o # n /\ state[o] = "failed" => state'[o] = "failed"
      /\ NewestIntentWins' /\ FutureAttemptsBlank' /\ OutcomeAgreesWithState'
  BY <1>1, <1>2, StartRows, StoredRowsStartable
<1>5. TypeOK'
  <2>1. (live \in BOOLEAN /\ deleteIntent \in BOOLEAN /\ stopped \in BOOLEAN)'
    BY <1>1, <1>3, Zenon DEF TypeOK
  <2>2. count' \in Targets
    BY <1>4 DEF Ops, Targets
  <2>. QED
    BY <1>1, <1>3, <1>4, <2>1, <2>2 DEF TypeOK, History
<1>6. RowsEndAtCount'
  BY <1>1, <1>3, <1>4 DEF StoreInv, TypeOK, RowsEndAtCount, Ops, Targets
<1>7. \A o \in Ops : kind'[o] = "deploy"
  BY <1>1, <1>3, <1>4 DEF StoreInv, TypeOK, Kinds, DeletionIsTheLastIntent
<1>8. DeletionIsTheLastIntent'
  BY <1>1, <1>7 DEF DeletionIsTheLastIntent
<1>9. RolledBackOnce'
  BY <1>1, <1>3, <1>4, RollbacksKept DEF TypeOK, Targets
<1>. QED
  BY <1>1, <1>4, <1>5, <1>6, <1>8, <1>9 DEF StoreInv, ActiveTargetIsLastPublished,
     RestoresOnlySucceededTargets

(* request_delete_on *)
LEMMA DeleteInv ==
    ASSUME StoreInv, RequestDelete
    PROVE  StoreInv'
<1>1. /\ live /\ ~deleteIntent
      /\ live' = live /\ deleteIntent' = TRUE /\ resolved' = resolved
      /\ attempt' = attempt /\ cleanup' = cleanup /\ target' = target
      /\ promoted' = promoted /\ rolledBack' = rolledBack /\ succeededAt' = succeededAt
      /\ stopped' = stopped
  BY Zenon DEF RequestDelete, StartOperation, Accepts
<1>2. StartOperation(state, error, outcome, "delete") /\ "delete" \in Kinds
  BY DEF RequestDelete, Kinds
<1>3. TypeOK
  BY DEF StoreInv
<1>. DEFINE n == count + 1
<1>4. /\ n \in Ops /\ count' = n
      /\ state' \in [Ops -> States]
      /\ error' \in [Ops -> Errors \cup {"none"}]
      /\ outcome' \in History
      /\ kind' \in [Ops -> Kinds]
      /\ kind'[n] = "delete"
      /\ \A o \in Ops : o # n => kind'[o] = kind[o]
      /\ \A o \in Ops : error'[o] # "none" =>
             state'[o] = "failed" \/ (state'[o] = "running" /\ kind'[o] = "delete")
      /\ \A o \in Ops : state'[o] = "absent" <=> o > count'
      /\ \A o \in Ops : o # n /\ state[o] = "failed" => state'[o] = "failed"
      /\ NewestIntentWins' /\ FutureAttemptsBlank' /\ OutcomeAgreesWithState'
  BY <1>1, <1>2, StartRows, StoredRowsStartable
<1>5. TypeOK'
  <2>1. (live \in BOOLEAN /\ deleteIntent \in BOOLEAN /\ stopped \in BOOLEAN)'
    BY <1>1, <1>3, Zenon DEF TypeOK
  <2>2. count' \in Targets
    BY <1>4 DEF Ops, Targets
  <2>. QED
    BY <1>1, <1>3, <1>4, <2>1, <2>2 DEF TypeOK, History
<1>6. RowsEndAtCount'
  BY <1>1, <1>3, <1>4 DEF StoreInv, TypeOK, RowsEndAtCount, Ops, Targets
<1>7. \A o \in Ops : o # n => kind'[o] # "delete"
  BY <1>1, <1>4 DEF StoreInv, DeletionIsTheLastIntent
<1>8. DeletionIsTheLastIntent'
  BY <1>1, <1>4, <1>7 DEF DeletionIsTheLastIntent
<1>9. RolledBackOnce'
  BY <1>1, <1>3, <1>4, RollbacksKept DEF TypeOK, Targets
<1>. QED
  BY <1>1, <1>4, <1>5, <1>6, <1>8, <1>9 DEF StoreInv, ActiveTargetIsLastPublished,
     RestoresOnlySucceededTargets

(* accept_restore_on, for a client's restore (r = 0) or for an automatic     *)
(* rollback of the latest operation (r = count), which failed in the same    *)
(* transaction and may be rolled back (rolls_back).                          *)
LEMMA AcceptRestoreInv ==
    ASSUME StoreInv, NEW st, NEW er, NEW oc, NEW d \in Ops, NEW r \in {0, count},
           r # 0 => r \in Ops /\ st[r] = "failed" /\ r \notin succeededAt
                           /\ rolledBack[r] = 0,
           StartableFrom(st, er, oc), AcceptRestore(st, er, oc, d, r)
    PROVE  StoreInv'
<1>. DEFINE n == count + 1
<1>1. /\ live /\ ~deleteIntent
      /\ live' = live /\ deleteIntent' = deleteIntent /\ resolved' = resolved
      /\ attempt' = attempt /\ cleanup' = cleanup
      /\ promoted' = promoted /\ succeededAt' = succeededAt
      /\ stopped' \in BOOLEAN
      /\ d \in succeededAt /\ target[d] # 0
      /\ target' = [target EXCEPT ![n] = target[d]]
      /\ rolledBack' = [rolledBack EXCEPT ![n] = r]
  BY Zenon DEF AcceptRestore, StartOperation, Accepts, Restorable
<1>2. StartOperation(st, er, oc, "deploy") /\ "deploy" \in Kinds
  BY DEF AcceptRestore, Kinds
<1>3. TypeOK
  BY DEF StoreInv
<1>4. /\ n \in Ops /\ count' = n
      /\ state' \in [Ops -> States]
      /\ error' \in [Ops -> Errors \cup {"none"}]
      /\ outcome' \in History
      /\ kind' \in [Ops -> Kinds]
      /\ kind'[n] = "deploy"
      /\ \A o \in Ops : o # n => kind'[o] = kind[o]
      /\ \A o \in Ops : error'[o] # "none" =>
             state'[o] = "failed" \/ (state'[o] = "running" /\ kind'[o] = "delete")
      /\ \A o \in Ops : state'[o] = "absent" <=> o > count'
      /\ \A o \in Ops : o # n /\ st[o] = "failed" => state'[o] = "failed"
      /\ NewestIntentWins' /\ FutureAttemptsBlank' /\ OutcomeAgreesWithState'
  BY <1>1, <1>2, StartRows
<1>5. /\ target' \in [Ops -> Targets] /\ rolledBack' \in [Ops -> Targets]
      /\ target'[n] = target[d] /\ rolledBack'[n] = r
      /\ \A o \in Ops : o # n => target'[o] = target[o] /\ rolledBack'[o] = rolledBack[o]
  BY <1>1, <1>3, <1>4, MaxOpsAssumption DEF TypeOK, Targets
<1>6. TypeOK'
  <2>1. (live \in BOOLEAN /\ deleteIntent \in BOOLEAN /\ stopped \in BOOLEAN)'
    BY <1>1, <1>3, Zenon DEF TypeOK
  <2>2. count' \in Targets
    BY <1>4 DEF Ops, Targets
  <2>. QED
    BY <1>1, <1>3, <1>4, <1>5, <2>1, <2>2 DEF TypeOK, History
<1>7. RowsEndAtCount'
  BY <1>1, <1>3, <1>4, <1>5 DEF StoreInv, TypeOK, RowsEndAtCount, Ops, Targets
<1>8. DeletionIsTheLastIntent'
  <2>1. \A o \in Ops : kind'[o] = "deploy"
    BY <1>1, <1>3, <1>4 DEF StoreInv, TypeOK, Kinds, DeletionIsTheLastIntent
  <2>. QED
    BY <1>1, <2>1 DEF DeletionIsTheLastIntent
<1>9. \A o \in promoted : o # n
  BY <1>3, <1>4 DEF StoreInv, TypeOK, RowsEndAtCount, Ops, Targets
<1>10. ActiveTargetIsLastPublished'
  BY <1>1, <1>3, <1>5, <1>9 DEF StoreInv, TypeOK, ActiveTargetIsLastPublished
<1>11. RestoresOnlySucceededTargets'
  <2>1. d <= count /\ d < n /\ d # n
    BY <1>1, <1>3 DEF StoreInv, TypeOK, RowsEndAtCount, Ops, Targets
  <2>2. target[d] \in Ops /\ target[d] <= d /\ target[d] \in succeededAt
        /\ target[target[d]] = target[d]
    <3>1. target[d] \in Ops
      BY <1>1, <1>3, MaxOpsAssumption DEF TypeOK, Ops, Targets
    <3>2. CASE target[d] = d
      BY <1>1, <3>1, <3>2 DEF Ops
    <3>3. CASE target[d] # d
      BY <1>1, <3>1, <3>3 DEF StoreInv, RestoresOnlySucceededTargets, Ops
    <3>. QED
      BY <3>2, <3>3, <3>1
  <2>3. target[d] < n
    BY <1>3, <2>1, <2>2 DEF TypeOK, Ops, Targets
  <2>. SUFFICES ASSUME NEW o \in Ops, target'[o] \notin {0, o}
                PROVE  /\ target'[o] < o /\ target'[o] \in succeededAt
                       /\ target'[target'[o]] = target'[o]
    BY <1>1 DEF RestoresOnlySucceededTargets
  <2>4. CASE o = n
    BY <1>5, <2>2, <2>3, <2>4 DEF Ops
  <2>5. CASE o # n
    <3>1. target'[o] = target[o] /\ target[o] \in succeededAt /\ target[o] < o
          /\ target[target[o]] = target[o]
      BY <1>5, <2>5 DEF StoreInv, RestoresOnlySucceededTargets
    <3>2. target[o] \in Ops /\ target[o] # n
      BY <1>3, <1>4, <3>1 DEF StoreInv, TypeOK, RowsEndAtCount, Ops, Targets
    <3>. QED
      BY <1>5, <3>1, <3>2
  <2>. QED
    BY <2>4, <2>5
<1>12. RolledBackOnce'
  <2>1. count \in Nat /\ n # count /\ count < n
    BY <1>3 DEF TypeOK, Targets
  <2>2. \A o \in Ops : rolledBack[o] # 0 =>
            rolledBack[o] \in Ops /\ rolledBack[o] < count /\ rolledBack[o] # count
                                 /\ rolledBack[o] # n
    BY <2>1, RolledBackIsOlder DEF Ops
  <2>3. \A o \in Ops : o # n /\ state[o] = "failed" => state'[o] = "failed"
    BY <1>4 DEF StartableFrom
  <2>. SUFFICES ASSUME NEW o \in Ops, rolledBack'[o] # 0
                PROVE  LET e == rolledBack'[o]
                       IN  /\ e < o
                           /\ state'[e] = "failed" /\ e \notin succeededAt
                           /\ rolledBack'[e] = 0
                           /\ \A p \in Ops : rolledBack'[p] = e => p = o
    BY <1>1 DEF RolledBackOnce
  <2>4. CASE o = n
    <3>1. rolledBack'[o] = r /\ r = count /\ r # 0
      BY <1>5, <2>4
    <3>2. r \in Ops /\ state'[r] = "failed" /\ r \notin succeededAt /\ rolledBack'[r] = 0
      BY <1>4, <1>5, <2>1, <3>1
    <3>3. \A p \in Ops : rolledBack'[p] = r => p = o
      BY <1>5, <2>2, <2>4, <3>1
    <3>. QED
      BY <2>1, <2>4, <3>1, <3>2, <3>3
  <2>5. CASE o # n
    <3>. DEFINE e == rolledBack[o]
    <3>1. rolledBack'[o] = e /\ e # 0 /\ e \in Ops /\ e # n /\ e # count
      BY <1>5, <2>2, <2>5
    <3>2. /\ e < o /\ state[e] = "failed" /\ e \notin succeededAt /\ rolledBack[e] = 0
          /\ \A p \in Ops : rolledBack[p] = e => p = o
      BY <3>1 DEF StoreInv, RolledBackOnce
    <3>3. state'[e] = "failed" /\ rolledBack'[e] = 0
      BY <1>5, <2>3, <3>1, <3>2
    <3>4. \A p \in Ops : rolledBack'[p] = e => p = o
      BY <1>5, <3>1, <3>2
    <3>. QED
      BY <3>1, <3>2, <3>3, <3>4
  <2>. QED
    BY <2>4, <2>5
<1>. QED
  BY <1>4, <1>6, <1>7, <1>8, <1>10, <1>11, <1>12 DEF StoreInv

-----------------------------------------------------------------------------
(* The inductive step and the theorems. *)

(* Every step of the specification preserves the invariant. *)
LEMMA StepInv == StoreInv /\ [StoreNext]_storeVars => StoreInv'
<1>. SUFFICES ASSUME StoreInv, [StoreNext]_storeVars PROVE StoreInv'
  OBVIOUS
<1>1. CASE Request
  <2>1. CASE RequestDeploy
    BY <2>1, DeployInv
  <2>2. CASE RequestDelete
    BY <2>2, DeleteInv
  <2>3. CASE \E d \in Ops : RequestRestore(d)
    BY <2>3, AcceptRestoreInv, StoredRowsStartable DEF RequestRestore
  <2>4. CASE StopEnvironment
    <3>1. count > 0 => count \in Ops
      BY DEF StoreInv, TypeOK, Ops, Targets
    <3>2. stopped' \in BOOLEAN
      BY <2>4, Zenon DEF StopEnvironment
    <3>. QED
      BY <2>4, <3>1, <3>2, ResetInv DEF StopEnvironment
  <2>5. CASE StartEnvironment
    <3>1. count > 0 => count \in Ops
      BY DEF StoreInv, TypeOK, Ops, Targets
    <3>2. stopped' \in BOOLEAN
      BY <2>5, Zenon DEF StartEnvironment, StoreInv, TypeOK
    <3>. QED
      BY <2>5, <3>1, <3>2, ResetInv DEF StartEnvironment
  <2>. QED
    BY <1>1, <2>1, <2>2, <2>3, <2>4, <2>5 DEF Request
<1>2. ASSUME NEW o \in Ops, Execute(o) PROVE StoreInv'
  <2>1. CASE \/ TransitionOperation(o, "requested", "running", "none")
             \/ TransitionOperation(o, "running", "requested", "none")
             \/ TransitionOperation(o, "running", "succeeded", "none")
             \/ TransitionOperation(o, "running", "cancelled", "none")
             \/ \E code \in Errors : TransitionOperation(o, "running", "failed", code)
    BY <2>1, TransitionInv DEF Open
  <2>2. ASSUME NEW code \in Errors, NEW d \in Ops, RollsBack(o, code), RollBack(o, code, d)
        PROVE  StoreInv'
    <3>1. StartableFrom([state EXCEPT ![o] = "failed"], [error EXCEPT ![o] = code],
                        SaveDeploymentAttempt(outcome, o, "failed"))
      BY <2>2, FailedRowsStartable DEF RollBack
    <3>2. [state EXCEPT ![o] = "failed"][o] = "failed"
      BY DEF StoreInv, TypeOK
    <3>. QED
      BY <2>2, <3>1, <3>2, AcceptRestoreInv DEF RollBack, RollsBack
  <2>3. CASE kind[o] = "delete" /\ \E code \in Errors : RecordOperationError(o, code)
    BY <2>3, RecordErrorInv
  <2>4. CASE FinishDeleteOperation(o)
    BY <2>4, FinishDeleteInv
  <2>5. CASE RequestReconcile(o)
    <3>1. stopped' \in BOOLEAN
      BY <2>5, Zenon DEF RequestReconcile, RetryOperation, envVars, StoreInv, TypeOK
    <3>. QED
      BY <2>5, <3>1, ResetInv DEF RequestReconcile, RetryOperation, envVars
  <2>6. CASE PrepareTarget(o)
    BY <2>6, PrepareInv
  <2>7. CASE PublishPrepared(o)
    BY <2>7, PublishInv
  <2>. QED
    BY <1>2, <2>1, <2>2, <2>3, <2>4, <2>5, <2>6, <2>7 DEF Execute
<1>3. CASE RecoverInterrupted
  BY <1>3, RecoverInv
<1>4. CASE UNCHANGED storeVars
  BY <1>4 DEF storeVars, envVars, execVars, rowVars, historyVars, StoreInv, TypeOK,
     RowsEndAtCount, NewestIntentWins, FutureAttemptsBlank, OutcomeAgreesWithState,
     ActiveTargetIsLastPublished, RestoresOnlySucceededTargets, RolledBackOnce,
     DeletionIsTheLastIntent
<1>. QED
  BY <1>1, <1>2, <1>3, <1>4 DEF StoreNext

(* The invariant holds in every reachable state. *)
THEOREM StoreInvariant == StoreSpec => []StoreInv
<1>1. StoreInit => StoreInv
  BY InitInv
<1>2. StoreInv /\ [StoreNext]_storeVars => StoreInv'
  BY StepInv
<1>. QED
  BY <1>1, <1>2, PTL DEF StoreSpec

(* Every row has its type, and an error only while it failed. *)
THEOREM StoreTypeOK == StoreSpec => []TypeOK
BY StoreInvariant, PTL DEF StoreInv

(* At most one operation is open, and it is the latest. *)
THEOREM StoreNewestIntentWins == StoreSpec => []NewestIntentWins
BY StoreInvariant, PTL DEF StoreInv

(* The active target is the last published one. *)
THEOREM StoreActiveTarget == StoreSpec => []ActiveTargetIsLastPublished
BY StoreInvariant, PTL DEF StoreInv

(* A restored target is the one an earlier deployment prepared and           *)
(* succeeded with.                                                           *)
THEOREM StoreRestores == StoreSpec => []RestoresOnlySucceededTargets
BY StoreInvariant, PTL DEF StoreInv

(* What was rolled back is an earlier deployment that failed for good, is    *)
(* no rollback itself, and is rolled back once.                              *)
THEOREM StoreRolledBackOnce == StoreSpec => []RolledBackOnce
BY StoreInvariant, PTL DEF StoreInv

(* Nothing is accepted after a deletion. *)
THEOREM StoreDeletionLast == StoreSpec => []DeletionIsTheLastIntent
BY StoreInvariant, PTL DEF StoreInv

(* The recorded outcome of the current attempt agrees with the operation. *)
THEOREM StoreOutcomes == StoreSpec => []OutcomeAgreesWithState
BY StoreInvariant, PTL DEF StoreInv

-----------------------------------------------------------------------------
(* Action properties *)

(* No step takes an operation out of the superseded state. *)
LEMMA SupersededStep ==
    ASSUME StoreInv, [StoreNext]_storeVars, live', NEW p \in Ops, state[p] = "superseded"
    PROVE  state'[p] = "superseded"
<1>1. TypeOK /\ p # count + 1
  BY DEF StoreInv, TypeOK, RowsEndAtCount, Ops, Targets
<1>2. CASE Request
  BY <1>1, <1>2 DEF Request, RequestDeploy, RequestDelete, RequestRestore, AcceptRestore,
     StartOperation, StopEnvironment, StartEnvironment, ResetToRequested, Retriable,
     TypeOK, Open
<1>3. ASSUME NEW o \in Ops, Execute(o) PROVE state'[p] = "superseded"
  <2>1. CASE \/ TransitionOperation(o, "requested", "running", "none")
             \/ TransitionOperation(o, "running", "requested", "none")
             \/ TransitionOperation(o, "running", "succeeded", "none")
             \/ TransitionOperation(o, "running", "cancelled", "none")
             \/ \E code \in Errors : TransitionOperation(o, "running", "failed", code)
    BY <1>1, <2>1 DEF TransitionOperation, TypeOK
  <2>2. ASSUME NEW code \in Errors, NEW d \in Ops, RollBack(o, code, d)
        PROVE  state'[p] = "superseded"
    BY <1>1, <2>2 DEF RollBack, AcceptRestore, StartOperation, TypeOK, Open
  <2>3. CASE kind[o] = "delete" /\ \E code \in Errors : RecordOperationError(o, code)
    BY <2>3 DEF RecordOperationError
  <2>4. CASE FinishDeleteOperation(o)
    BY <2>4 DEF FinishDeleteOperation
  <2>5. CASE RequestReconcile(o)
    BY <1>1, <2>5 DEF RequestReconcile, RetryOperation, Retriable, ResetToRequested, TypeOK
  <2>6. CASE PrepareTarget(o) \/ PublishPrepared(o)
    BY <2>6 DEF PrepareTarget, SavePrepared, PublishPrepared, execVars
  <2>. QED
    BY <1>3, <2>1, <2>2, <2>3, <2>4, <2>5, <2>6 DEF Execute
<1>4. CASE RecoverInterrupted
  BY <1>4 DEF RecoverInterrupted
<1>5. CASE UNCHANGED storeVars
  BY <1>5 DEF storeVars, execVars
<1>. QED
  BY <1>2, <1>3, <1>4, <1>5 DEF StoreNext

(* A superseded operation is never resurrected. *)
THEOREM StoreSupersededIsFinal == StoreSpec => SupersededIsFinal
<1>1. StoreInv /\ [StoreNext]_storeVars =>
          [\A o \in Ops : state[o] = "superseded" /\ live' => state'[o] = "superseded"]_storeVars
  BY SupersededStep
<1>. QED
  BY <1>1, StoreInvariant, PTL DEF StoreSpec, SupersededIsFinal

(* No step takes a deployment off the ones that can be restored. *)
LEMMA RestorableStep ==
    ASSUME StoreInv, [StoreNext]_storeVars, live', NEW d \in Ops, Restorable(d)
    PROVE  d \in succeededAt' /\ target'[d] # 0 /\ target'[d] = target[d]
<1>. USE DEF Restorable
<1>1. TypeOK /\ d # count + 1
  BY DEF StoreInv, TypeOK, RowsEndAtCount, Ops, Targets
<1>2. CASE Request
  BY <1>1, <1>2 DEF Request, RequestDeploy, RequestDelete, RequestRestore, AcceptRestore,
     StopEnvironment, StartEnvironment, TypeOK, rowVars, historyVars
<1>3. ASSUME NEW o \in Ops, Execute(o)
      PROVE  d \in succeededAt' /\ target'[d] # 0 /\ target'[d] = target[d]
  <2>1. CASE \/ TransitionOperation(o, "requested", "running", "none")
             \/ TransitionOperation(o, "running", "requested", "none")
             \/ TransitionOperation(o, "running", "succeeded", "none")
             \/ TransitionOperation(o, "running", "cancelled", "none")
             \/ \E code \in Errors : TransitionOperation(o, "running", "failed", code)
    BY <1>1, <2>1 DEF TransitionOperation, rowVars
  <2>2. ASSUME NEW code \in Errors, NEW e \in Ops, RollBack(o, code, e)
        PROVE  d \in succeededAt' /\ target'[d] # 0 /\ target'[d] = target[d]
    BY <1>1, <2>2 DEF RollBack, AcceptRestore, TypeOK
  <2>3. CASE kind[o] = "delete" /\ \E code \in Errors : RecordOperationError(o, code)
    BY <2>3 DEF RecordOperationError, rowVars, historyVars
  <2>4. CASE FinishDeleteOperation(o)
    BY <2>4 DEF FinishDeleteOperation
  <2>5. CASE RequestReconcile(o)
    BY <2>5 DEF RequestReconcile, RetryOperation, rowVars, historyVars
  <2>6. CASE PrepareTarget(o) \/ PublishPrepared(o)
    BY <1>1, <2>6 DEF PrepareTarget, SavePrepared, PublishPrepared, historyVars, TypeOK
  <2>. QED
    BY <1>3, <2>1, <2>2, <2>3, <2>4, <2>5, <2>6 DEF Execute
<1>4. CASE RecoverInterrupted
  BY <1>4 DEF RecoverInterrupted, rowVars
<1>5. CASE UNCHANGED storeVars
  BY <1>5 DEF storeVars, rowVars, historyVars
<1>. QED
  BY <1>2, <1>3, <1>4, <1>5 DEF StoreNext

(* What can be restored stays restorable with the same target. *)
THEOREM StoreRestorableIsStable == StoreSpec => RestorableIsStable
<1>1. StoreInv /\ [StoreNext]_storeVars =>
          [\A d \in Ops : Restorable(d) /\ live'
                            => Restorable(d)' /\ target'[d] = target[d]]_storeVars
  BY RestorableStep DEF Restorable
<1>. QED
  BY <1>1, StoreInvariant, PTL DEF StoreSpec, RestorableIsStable

(* An attempt row that a transaction saves has no outcome yet, unless the    *)
(* transaction supersedes an operation that was reset and has not run again. *)
LEMMA OutcomesStep ==
    ASSUME StoreInv, [StoreNext]_storeVars, live',
           NEW p \in Ops, NEW n \in Attempts, outcome[p][n] # "none",
           ~(n = attempt[p] /\ state[p] = "requested" /\ state'[p] = "superseded")
    PROVE  outcome'[p][n] = outcome[p][n]
<1>. DEFINE kept == outcome'[p][n] = outcome[p][n]
<1>1. TypeOK /\ outcome \in History /\ Terminal \subseteq Outcomes
  BY DEF StoreInv, TypeOK, History, Outcomes
\* A running attempt has no outcome to lose.
<1>2. ~(n = attempt[p] /\ kind[p] = "deploy" /\ state[p] = "running")
  BY DEF StoreInv, OutcomeAgreesWithState
<1>3. ASSUME NEW o \in Ops, NEW r \in Terminal, state[o] = "running"
      PROVE  SaveDeploymentAttempt(outcome, o, r)[p][n] = outcome[p][n]
  BY <1>1, <1>2, <1>3, OtherAttemptsKept
\* What start_operation supersedes is requested or running.
<1>4. ASSUME NEW st, NEW er, NEW oc \in History, NEW k,
             StartOperation(st, er, oc, k), oc[p][n] = outcome[p][n],
             st[p] \in Open => st[p] = state[p]
      PROVE  kept
  <2>1. outcome'[p] = IF st[p] \in Open
                        THEN SaveDeploymentAttempt(oc, p, "superseded")[p] ELSE oc[p]
    BY <1>4 DEF StartOperation
  <2>2. CASE st[p] \in Open /\ n = attempt[p] /\ kind[p] = "deploy"
    <3>1. state[p] = "requested"
      BY <1>2, <1>4, <2>2 DEF Open
    <3>2. p # count + 1
      BY <1>1, <3>1 DEF StoreInv, TypeOK, RowsEndAtCount, Ops, Targets
    <3>3. state'[p] = "superseded"
      BY <1>4, <2>2, <3>2 DEF StartOperation
    <3>. QED
      BY <2>2, <3>1, <3>3
  <2>3. CASE ~(n = attempt[p] /\ kind[p] = "deploy")
    <3>1. SaveDeploymentAttempt(oc, p, "superseded")[p][n] = oc[p][n]
      BY <1>1, <2>3, OtherAttemptsKept DEF Terminal
    <3>. QED
      BY <1>4, <2>1, <3>1
  <2>4. CASE st[p] \notin Open
    BY <1>4, <2>1, <2>4
  <2>. QED
    BY <2>2, <2>3, <2>4
<1>5. CASE Request
  <2>1. CASE RequestDeploy \/ RequestDelete \/ \E d \in Ops : RequestRestore(d)
    <3>1. PICK k \in Kinds : StartOperation(state, error, outcome, k)
      BY <2>1 DEF RequestDeploy, RequestDelete, RequestRestore, AcceptRestore, Kinds
    <3>. QED
      BY <1>1, <1>4, <3>1
  <2>2. CASE StopEnvironment \/ StartEnvironment
    BY <2>2 DEF StopEnvironment, StartEnvironment, historyVars
  <2>. QED
    BY <1>5, <2>1, <2>2 DEF Request
<1>6. ASSUME NEW o \in Ops, Execute(o) PROVE kept
  <2>1. ASSUME NEW from \in Open, NEW to \in States, NEW code,
               TransitionOperation(o, from, to, code), from = "running" \/ to \notin Terminal
        PROVE  kept
    BY <1>3, <2>1 DEF TransitionOperation
  <2>2. CASE \/ TransitionOperation(o, "requested", "running", "none")
             \/ TransitionOperation(o, "running", "requested", "none")
             \/ TransitionOperation(o, "running", "succeeded", "none")
             \/ TransitionOperation(o, "running", "cancelled", "none")
             \/ \E code \in Errors : TransitionOperation(o, "running", "failed", code)
    BY <2>1, <2>2 DEF Open, Terminal, States
  <2>3. ASSUME NEW code \in Errors, NEW d \in Ops, RollBack(o, code, d)
        PROVE  kept
    <3>. DEFINE st == [state EXCEPT ![o] = "failed"]
                oc == SaveDeploymentAttempt(outcome, o, "failed")
    <3>1. state[o] = "running" /\ StartOperation(st, [error EXCEPT ![o] = code], oc, "deploy")
      BY <2>3 DEF RollBack, AcceptRestore
    <3>2. oc \in History /\ oc[p][n] = outcome[p][n]
      BY <1>1, <1>3, <3>1, SaveAttempt DEF Terminal
    <3>3. st[p] \in Open => st[p] = state[p]
      BY <1>1 DEF TypeOK, Open
    <3>. QED
      BY <1>4, <3>1, <3>2, <3>3
  <2>4. CASE kind[o] = "delete" /\ \E code \in Errors : RecordOperationError(o, code)
    BY <2>4 DEF RecordOperationError, historyVars
  <2>5. CASE FinishDeleteOperation(o)
    BY <2>5 DEF FinishDeleteOperation
  <2>6. CASE RequestReconcile(o)
    BY <2>6 DEF RequestReconcile, RetryOperation, historyVars
  <2>7. CASE PrepareTarget(o) \/ PublishPrepared(o)
    BY <2>7 DEF PrepareTarget, SavePrepared, PublishPrepared, historyVars
  <2>. QED
    BY <1>6, <2>2, <2>3, <2>4, <2>5, <2>6, <2>7 DEF Execute
<1>7. CASE RecoverInterrupted
  <2>1. outcome'[p] = IF state[p] = "running"
                        THEN SaveDeploymentAttempt(outcome, p, "cancelled")[p] ELSE outcome[p]
    BY <1>7 DEF RecoverInterrupted
  <2>. QED
    BY <1>3, <2>1 DEF Terminal
<1>8. CASE UNCHANGED storeVars
  BY <1>8 DEF storeVars, historyVars
<1>. QED
  BY <1>5, <1>6, <1>7, <1>8 DEF StoreNext

(* The outcome an attempt recorded is retained while the environment lives,  *)
(* unless a newer operation supersedes one that was reset and not run again. *)
THEOREM StoreAttemptsRetained == StoreSpec => AttemptOutcomesAreRetained
<1>1. StoreInv /\ [StoreNext]_storeVars =>
          [\A o \in Ops, n \in Attempts :
              outcome[o][n] # "none" /\ live'
              /\ ~(n = attempt[o] /\ state[o] = "requested" /\ state'[o] = "superseded")
                => outcome'[o][n] = outcome[o][n]]_storeVars
  BY OutcomesStep
<1>. QED
  BY <1>1, StoreInvariant, PTL DEF StoreSpec, AttemptOutcomesAreRetained

=============================================================================
