------------------------------ MODULE Acceptance ------------------------------
(***************************************************************************)
(* Acceptance of requests on an application and its environment: revision  *)
(* and identity preconditions, and the receipts that let a client repeat a *)
(* request whose answer it did not get (apps/piqueld/src/store/            *)
(* acceptance.rs).  The environment is that of OperationStore, whose       *)
(* transactions run between the requests.                                  *)
(*                                                                         *)
(* A call is a request under an idempotency key.  It may arrive long after *)
(* its client inspected the application and sent it, and more than once.   *)
(* Other clients' requests, without a key, arrive at once.  `accept' takes *)
(* SQLite's write lock before it reads, so each delivery is one action;    *)
(* what is refused changes nothing.                                        *)
(*                                                                         *)
(* A configuration is named by the revision that saved it.  The            *)
(* application's name is taken by application 1, which owns the            *)
(* environment, and once that is deleted perhaps by application 2, of      *)
(* which only the configuration is modelled.                               *)
(***************************************************************************)
EXTENDS OperationStore

CONSTANTS
    Keys,          \* idempotency keys
    CallKinds,     \* what calls ask for
    Renders,       \* configurations that render the environment's name
    MaxCalls,      \* bound on the calls that arrive late or repeatedly
    MaxRevisions,  \* bound on the application's generation
    MaxExpiries    \* bound on receipts that expire

Requests == {"save", "apply", "rename", "deploy", "delete", "destroy",
             "reconcile", "stop", "restore"}

ASSUME AcceptanceAssumption ==
    /\ CallKinds \subseteq Requests
    /\ MaxCalls \in Nat /\ MaxRevisions \in Nat \ {0} /\ MaxExpiries \in Nat
    /\ Renders \subseteq 1 .. MaxRevisions

NoCheck == MaxRevisions + 1  \* no expected generation: a forced call
CallIds == 1 .. MaxCalls
Names == {0, 1}

VARIABLES
    app,        \* applications: [id, generation, saved, deleting]
    name,       \* environments.name
    resolvedAt, \* environments.resolved_generation, 0 for NULL
    revision,   \* operations.generation of the deployments
    captured,   \* deployments.template_json, rendered for the environment
    receipts,   \* request_receipts: [call, app] by key
    calls,      \* the calls sent, by number
    acts,       \* history: how often each call took effect
    lapses,     \* history: how often each call's receipt expired or went
                \* with what it names
    expiries    \* receipts that may still expire

intentVars == <<app, name, resolvedAt>>
snapshotVars == <<revision, captured>>
callVars == <<receipts, calls, acts, lapses, expiries>>
vars == <<storeVars, intentVars, snapshotVars, callVars>>

NoApp == [id |-> 0, generation |-> 0, saved |-> 0, deleting |-> FALSE]
NoReceipt == [call |-> 0, app |-> 0]
NoContent == <<0, 0>>
NoCall == [key |-> 0, kind |-> "none", app |-> 0, expected |-> 0,
           to |-> 0, seen |-> <<0, NoContent>>]

AInit ==
    /\ StoreInit
    /\ app = [id |-> 1, generation |-> 1, saved |-> 1, deleting |-> FALSE]
    /\ name = 0
    /\ resolvedAt = 0
    /\ revision = [o \in Ops |-> 0]
    /\ captured = [o \in Ops |-> NoContent]
    /\ receipts = [k \in Keys |-> NoReceipt]
    /\ calls = [i \in CallIds |-> NoCall]
    /\ acts = [i \in CallIds |-> 0]
    /\ lapses = [i \in CallIds |-> 0]
    /\ expiries = MaxExpiries

\* What the environment would deploy: the saved configuration, rendered.
Rendered == <<app.saved, IF app.saved \in Renders THEN name ELSE 0>>

-----------------------------------------------------------------------------
(* What requests do *)

\* Mutant: every environment is taken to stay current.
BumpAlways(stale) ==
    /\ app' = [app EXCEPT !.generation = @ + 1]
    /\ resolvedAt' = IF resolvedAt # 0 /\ ~stale THEN app.generation + 1
                     ELSE resolvedAt

\* bump_generation_on: an environment whose target was current stays so,
\* unless its configuration renders what changed.
Bump(stale) ==
    /\ app' = [app EXCEPT !.generation = @ + 1]
    /\ resolvedAt' = IF resolvedAt = app.generation /\ ~stale
                       THEN app.generation + 1
                       ELSE resolvedAt

CanAdvance == app.generation < MaxRevisions

\* Mutant: a save is checked against the revision alone.
SelectsByRevision(c) == TRUE

\* application_identity: the name still selects the inspected application.
Selects(c) == c.expected = NoCheck \/ c.app = app.id

\* save_configuration_on, by name: updates the application that has it, or
\* creates one.
SaveConfiguration(c) ==
    /\ Selects(c)
    /\ ~app.deleting
    /\ CanAdvance
    /\ app' = [id |-> IF app.id = 0 THEN 2 ELSE app.id,
               generation |-> app.generation + 1,
               saved |-> app.generation + 1, deleting |-> FALSE]
    /\ UNCHANGED <<name, resolvedAt>>

\* A save that deploys, to the application's only environment (deploy_saved).
Apply(c) == app.id = 1 /\ SaveConfiguration(c) /\ RequestDeploy

\* rename_environment_on
RenameEnvironment(to) ==
    /\ Accepts
    /\ IF name = to
         THEN UNCHANGED intentVars
         ELSE CanAdvance /\ name' = to /\ Bump(app.saved \in Renders)
    /\ UNCHANGED storeVars

\* A pending deletion is returned; otherwise delete_environment_on.
DeleteEnvironment ==
    /\ live
    /\ IF deleteIntent
         THEN UNCHANGED <<storeVars, intentVars>>
         ELSE CanAdvance /\ RequestDelete /\ Bump(FALSE) /\ UNCHANGED name

\* Mutant: an application without environments waits for the last one to go.
DeleteApplicationLater(c) ==
    /\ app.id = 1 /\ c.app = 1
    /\ app.deleting \/ CanAdvance
    /\ app' = [app EXCEPT !.deleting = TRUE,
                          !.generation = IF app.deleting THEN @ ELSE @ + 1]
    /\ IF Accepts THEN RequestDelete ELSE UNCHANGED storeVars
    /\ UNCHANGED <<name, resolvedAt>>

\* delete_application_on: a pending deletion of its environment is kept; an
\* application without one goes at once.
DeleteApplication(c) ==
    /\ app.id = 1 /\ c.app = 1
    /\ app.deleting \/ CanAdvance
    /\ app' = IF live
                THEN [app EXCEPT !.deleting = TRUE,
                                 !.generation = IF app.deleting THEN @ ELSE @ + 1]
                ELSE NoApp
    /\ IF Accepts THEN RequestDelete ELSE UNCHANGED storeVars
    /\ UNCHANGED <<name, resolvedAt>>

\* execute_mutation
Perform(c) ==
    \/ c.kind = "save" /\ SaveConfiguration(c) /\ UNCHANGED storeVars
    \/ c.kind = "apply" /\ Apply(c)
    \/ c.kind = "rename" /\ RenameEnvironment(c.to)
    \/ c.kind = "deploy" /\ RequestDeploy /\ UNCHANGED intentVars
    \/ c.kind = "delete" /\ DeleteEnvironment
    \/ c.kind = "destroy" /\ DeleteApplication(c)
    \/ c.kind = "reconcile" /\ StartEnvironment /\ UNCHANGED intentVars
    \/ c.kind = "stop" /\ StopEnvironment /\ UNCHANGED intentVars
    \/ c.kind = "restore" /\ (\E d \in Ops : RequestRestore(d)) /\ UNCHANGED intentVars

\* An operation started in this step captures the saved revision, rendered
\* now; a restore carries what its deployment captured.  A deletion publishes
\* nothing, so its revision is left out.  Snapshots go with the environment.
Capture ==
    IF live /\ ~live'
      THEN /\ revision' = [o \in Ops |-> 0]
           /\ captured' = [o \in Ops |-> NoContent]
      ELSE IF count' = count + 1 /\ kind'[count'] = "deploy"
        THEN /\ revision' = [revision EXCEPT ![count'] = app'.generation]
             /\ captured' = [captured EXCEPT ![count'] =
                    IF target'[count'] # 0 THEN captured[target'[count']]
                    ELSE Rendered']
        ELSE UNCHANGED snapshotVars

-----------------------------------------------------------------------------
(* Receipts *)

\* Receipts whose response names the environment, or the application.
OfEnvironment ==
    {k \in Keys : receipts[k].call # 0
                    /\ calls[receipts[k].call].kind
                         \in {"rename", "deploy", "delete", "reconcile", "stop", "restore"}}
OfApplication ==
    {k \in Keys \ OfEnvironment : receipts[k].call # 0 /\ receipts[k].app = app.id}

\* Mutant: the receipts of an application outlive it.
RemovedOfEnvironment == IF live /\ ~live' THEN OfEnvironment ELSE {}

\* The receipts that go in this step, with the environment
\* (finish_delete_operation) and the application (finish_application_delete_on).
Removed ==
    (IF live /\ ~live' THEN OfEnvironment ELSE {})
      \cup (IF app.id # 0 /\ app'.id = 0 THEN OfApplication ELSE {})

Kept(gone) == [k \in Keys |-> IF k \in gone THEN NoReceipt ELSE receipts[k]]

\* Without its receipt, a repeated call is a new request.
Lapse(gone) ==
    lapses' = [i \in CallIds |->
                  IF \E k \in gone : receipts[k].call = i THEN lapses[i] + 1
                  ELSE lapses[i]]

\* Mutant: only a response with an operation is stored.
StoreReceiptOfOperation(kept, i) ==
    IF calls[i].kind = "rename"
      THEN kept
      ELSE [kept EXCEPT ![calls[i].key] =
               [call |-> i, app |-> IF app'.id = 0 THEN app.id ELSE app'.id]]

\* The receipt of an accepted call, written after its change.
StoreReceipt(kept, i) ==
    [kept EXCEPT ![calls[i].key] =
        [call |-> i, app |-> IF app'.id = 0 THEN app.id ELSE app'.id]]

\* The requests that need no revision (lacks_precondition).
Unconditional == {"reconcile", "stop", "restore"}

\* A request of a client that inspects the application: with the revision and
\* the identity it sees, or forced.  A rename asks for the other name.
Inspected(k, asked, forced) ==
    LET unchecked == forced \/ asked \in Unconditional
    IN  [key |-> k, kind |-> asked, app |-> app.id,
         expected |-> IF unchecked THEN NoCheck ELSE app.generation,
         to |-> IF asked = "rename" THEN 1 - name ELSE 0,
         seen |-> <<app.id, IF unchecked THEN NoContent ELSE Rendered>>]

Send(i, k, asked, forced) ==
    /\ calls[i].kind = "none"
    /\ \A j \in CallIds : j < i => calls[j].kind # "none"
    /\ calls' = [calls EXCEPT ![i] = Inspected(k, asked, forced)]
    /\ UNCHANGED <<storeVars, intentVars, snapshotVars, receipts, acts, lapses, expiries>>

\* accept: a call under a key with a receipt is answered from it, or refused
\* as another request's, and changes nothing.
Accept(i) ==
    LET c == calls[i]
    IN  /\ c.kind # "none"
        /\ receipts[c.key].call = 0
        /\ c.expected \in {NoCheck, app.generation}
        /\ Perform(c)
        /\ Capture
        /\ receipts' = StoreReceipt(Kept(Removed), i)
        /\ Lapse(Removed)
        /\ acts' = [acts EXCEPT ![i] = @ + 1]
        /\ UNCHANGED <<calls, expiries>>

\* 24 hours pass: replay_on no longer reads the receipt, and prune_receipts
\* deletes it.
Expire(k) ==
    /\ expiries > 0
    /\ receipts[k].call # 0
    /\ expiries' = expiries - 1
    /\ receipts' = Kept({k})
    /\ Lapse({k})
    /\ UNCHANGED <<storeVars, intentVars, snapshotVars, calls, acts>>

-----------------------------------------------------------------------------
(* What happens between the requests *)

\* accept, of a request without a key that arrives at once.
OtherRequest(asked) ==
    /\ Perform(Inspected(0, asked, FALSE))
    /\ Capture
    /\ receipts' = Kept(Removed)
    /\ Lapse(Removed)
    /\ UNCHANGED <<calls, acts, expiries>>

\* publish_prepared, also of a deployment that was published before.
Publish(o) ==
    /\ PublishPrepared(o)
    /\ resolvedAt' = revision[o]
    /\ UNCHANGED <<app, name, snapshotVars, callVars>>

\* The other transactions of the reconciler.  The application goes with its
\* last environment once its deletion was requested.
Work ==
    /\ (\E o \in Ops : Execute(o)) \/ RecoverInterrupted
    /\ ~\E o \in Ops : PublishPrepared(o)
    /\ app' = IF live /\ ~live' /\ app.deleting THEN NoApp ELSE app
    /\ resolvedAt' = IF live' THEN resolvedAt ELSE 0
    /\ Capture
    /\ receipts' = Kept(Removed)
    /\ Lapse(Removed)
    /\ UNCHANGED <<name, calls, acts, expiries>>

ANext ==
    \/ \E i \in CallIds :
          \/ \E k \in Keys, asked \in CallKinds, forced \in BOOLEAN :
                Send(i, k, asked, forced)
          \/ Accept(i)
    \/ \E k \in Keys : Expire(k)
    \/ \E asked \in Requests : OtherRequest(asked)
    \/ \E o \in Ops : Publish(o)
    \/ Work

ASpec == AInit /\ [][ANext]_vars

-----------------------------------------------------------------------------
(* What acceptance guarantees *)

\* The rows have their types; a receipt is that of a call under its key.
ATypeOK ==
    /\ TypeOK
    /\ app \in [id : 0 .. 2, generation : 0 .. MaxRevisions, saved : 0 .. MaxRevisions,
                deleting : BOOLEAN]
    /\ name \in Names
    /\ resolvedAt \in 0 .. MaxRevisions
    /\ revision \in [Ops -> 0 .. MaxRevisions]
    /\ captured \in [Ops -> (0 .. MaxRevisions) \X Names]
    /\ \A k \in Keys : receipts[k] # NoReceipt =>
           /\ receipts[k].call \in CallIds
           /\ calls[receipts[k].call].key = k
           /\ receipts[k].app \in 1 .. 2
    /\ expiries \in 0 .. MaxExpiries

\* A repeated call takes effect once for each time its receipt expired or went
\* with what it names: not twice because its answer was lost, the operation
\* was superseded or ended, or the revision advanced meanwhile (accept).
RetriesActOnce ==
    \A i \in CallIds : acts[i] <= 1 + lapses[i]

\* A call with a precondition takes effect on exactly what its client
\* inspected, however late or often it arrives, and also when the application
\* was deleted and another one took its name and reached the same revision
\* (check_generation, application_identity).
ActsOnWhatWasInspected ==
    [][\A i \in CallIds : acts'[i] # acts[i] /\ calls[i].expected # NoCheck
          => calls[i].seen = <<app.id, Rendered>>]_vars

\* An environment whose resolved revision is the application's deploys the
\* configuration as it is saved and rendered now, whatever was saved or
\* renamed while its deployment ran (publish_prepared, bump_generation_on).
\* A restored deployment is of an older configuration, under the revision of
\* its restore.
ResolvedIsCurrent ==
    \A o \in promoted :
        /\ live /\ resolvedAt = app.generation
        /\ \A p \in promoted : p <= o
        /\ target[o] = o
        => captured[o] = Rendered

\* An application whose deletion was accepted always has an environment whose
\* deletion removes it in the end, in whatever order both were requested
\* (delete_application_on, finish_application_delete_on).
DeletionIsNotAbandoned ==
    /\ ATypeOK
    /\ app.deleting => live /\ deleteIntent

\* No call is answered with an environment or a saved application that is
\* gone: their receipts went in the same transaction.  Only the deletion of an
\* application without environments is still answered after it.
ReceiptsGoWithTheirSubject ==
    \A k \in Keys : receipts[k].call # 0 =>
        CASE k \in OfEnvironment -> live
          [] calls[receipts[k].call].kind \in {"save", "apply"}
               -> receipts[k].app = app.id
          [] OTHER -> TRUE

=============================================================================
