------------------------------- MODULE Ingress -------------------------------
(***************************************************************************)
(* Managed ingress: the routing table in the store, the Caddy gateway that  *)
(* serves it, and the deployments that retire old backends once their new   *)
(* routes are published.                                                    *)
(*                                                                          *)
(*   store        desired[e] / applied[e]  the staged and the acknowledged  *)
(*                routes of an environment (environment_routes)             *)
(*   gateway      the containers called NAME, NAME-next and NAME-previous,  *)
(*                whether NAME runs, its configuration (what it serves, or  *)
(*                resumes from autosave.json) and rollback.json             *)
(*   pass         the holder of the gateway writer lock: one `apply` or     *)
(*                `refresh`, one Docker or Caddy call per step              *)
(*   run[e]       the operation the controller is running for e             *)
(*                                                                          *)
(* A deployment is numbered; its routes, when it has any, are abstracted to *)
(* that number, and so is the service behind them. All routed deployments   *)
(* of an environment use the same listener. None (0) is "no route" and "no  *)
(* container".                                                              *)
(*                                                                          *)
(* A call that fails, a pass that is dropped at its deadline and a daemon   *)
(* that stops may happen between any two calls.                             *)
(***************************************************************************)
EXTENDS Naturals

CONSTANTS
  Envs,        \* environments
  Specs,       \* container specifications the configuration can ask for
  Kinds,       \* what is deployed: "routed", "plain" (no routes), "delete"
  MaxDeploys,  \* bound on the operations accepted
  MaxFaults,   \* bound on failed calls, dropped passes, broken networks
  MaxRestarts  \* bound on daemon restarts

None == 0
Ids == 0..MaxDeploys
Tables == [Envs -> Ids]

ASSUME IngressAssumption ==
  /\ Envs # {} /\ None \notin Envs
  /\ Kinds \subseteq {"routed", "plain", "delete"}
  /\ Specs \subseteq Nat \ {None}
  /\ MaxDeploys \in Nat /\ MaxFaults \in Nat /\ MaxRestarts \in Nat

VARIABLES
  desired,   \* desired_json
  applied,   \* applied_json
  latest,    \* the newest operation: [id, kind, state]
  run,       \* the controller: [at, id, kind, ready, accepted]
  backends,  \* services that exist
  broken,    \* environments whose ingress network fails verification
  gateway,   \* [serving, next, previous, up, config, rollback]
  settings,  \* the daemon's TOML: [spec, enabled]
  pass,      \* the gateway writer: [at, by, table, bad, cutover]
  offered,   \* history: what passes configured since the last acknowledgement
  removed,   \* history: what was acknowledged away while ingress was disabled,
             \* until the gateway next accepts a table
  budget     \* [deploys, faults, restarts] left

store == <<desired, applied, offered, removed>>
vars == <<desired, applied, latest, run, backends, broken, gateway, settings,
          pass, offered, removed, budget>>

\* rollback.json does not exist.
NoTable == [e \in Envs |-> MaxDeploys + 1]
Empty == [e \in Envs |-> None]

Idle == [at |-> "idle", by |-> None, table |-> Empty, bad |-> {},
         cutover |-> FALSE]
NoRun == [at |-> "idle", id |-> 0, kind |-> "plain", ready |-> FALSE,
          accepted |-> None]

PassSteps ==
  {"idle", "read", "recover", "r_remove", "r_config", "r_rename", "r_start",
   "r_next", "ensure", "validate", "create", "save", "stop", "away", "in",
   "write", "start", "commit", "clean", "configure", "ack", "tunnel",
   "disable", "withdrawn", "report"}

Init ==
  /\ desired = Empty /\ applied = Empty
  /\ latest = [e \in Envs |-> [id |-> 0, kind |-> "plain", state |-> "succeeded"]]
  /\ run = [e \in Envs |-> NoRun]
  /\ backends = [e \in Envs |-> {}]
  /\ broken = {}
  /\ gateway = [serving |-> None, next |-> None, previous |-> None, up |-> FALSE,
                config |-> Empty, rollback |-> NoTable]
  /\ settings \in [spec : Specs, enabled : BOOLEAN]
  /\ pass = Idle
  /\ offered = [e \in Envs |-> {}] /\ removed = [e \in Envs |-> {}]
  /\ budget = [deploys |-> MaxDeploys, faults |-> MaxFaults, restarts |-> MaxRestarts]

Fault == budget.faults > 0 /\ budget' = [budget EXCEPT !.faults = @ - 1]

-----------------------------------------------------------------------------
(* Operations and the controller's loop.                                    *)

RouteOf(id, kind) == IF kind = "routed" THEN id ELSE None

Current(e) == run[e].id = latest[e].id

\* The operation of e ends; a superseded one has already been replaced.
EndRun(e, state) ==
  /\ run' = [run EXCEPT ![e] = NoRun]
  /\ latest' = IF Current(e) THEN [latest EXCEPT ![e].state = state] ELSE latest

\* A request is accepted; it supersedes the operation in progress.
Deploy(e, kind) ==
  /\ budget.deploys > 0
  /\ latest[e].kind # "delete"
  /\ latest' = [latest EXCEPT
       ![e] = [id |-> MaxDeploys - budget.deploys + 1, kind |-> kind,
               state |-> "pending"]]
  /\ budget' = [budget EXCEPT !.deploys = @ - 1]
  /\ UNCHANGED <<store, run, backends, broken, gateway, settings, pass>>

\* An administrator retries a failed operation.
Retry(e) ==
  /\ latest[e].state = "failed"
  /\ latest' = [latest EXCEPT ![e].state = "pending"]
  /\ UNCHANGED <<store, run, backends, broken, gateway, settings, pass, budget>>

\* A deletion withdraws its routes before the loop; others enter the loop.
Claim(e) ==
  /\ run[e].at = "idle" /\ latest[e].state = "pending"
  /\ latest' = [latest EXCEPT ![e].state = "running"]
  /\ run' = [run EXCEPT ![e] =
       [at |-> IF latest[e].kind = "delete" THEN "publish" ELSE "observe",
        id |-> latest[e].id, kind |-> latest[e].kind,
        ready |-> latest[e].kind = "delete", accepted |-> None]]
  /\ UNCHANGED <<store, backends, broken, gateway, settings, pass, budget>>

\* One turn of the loop begins: observe, read the accepted routes, and plan.
Observe(e) ==
  /\ run[e].at = "observe"
  /\ IF Current(e)
     THEN /\ run' = [run EXCEPT ![e].at = IF run[e].kind = "delete" THEN "act" ELSE "publish",
                                ![e].ready = run[e].kind = "delete"
                                             \/ run[e].id \in backends[e],
                                ![e].accepted = applied[e]]
          /\ UNCHANGED latest
     ELSE EndRun(e, "superseded")
  /\ UNCHANGED <<store, backends, broken, gateway, settings, pass, budget>>

\* After publishing, a deletion enters the loop; others compare and execute.
AfterPublish(kind) == IF kind = "delete" THEN "observe" ELSE "act"

\* has_routes: whether the gateway may hold state for e.
HasRoutes(e) == desired[e] # None \/ applied[e] # None

\* sync_routes has nothing to publish and nothing stored to withdraw.
SkipRoutes(e) ==
  /\ run[e].at = "publish"
  /\ RouteOf(run[e].id, run[e].kind) = None /\ ~HasRoutes(e)
  /\ run' = [run EXCEPT ![e].at = AfterPublish(run[e].kind)]
  /\ UNCHANGED <<store, latest, backends, broken, gateway, settings, pass, budget>>

\* stage_routes: until the backends are ready, only listeners the new routes
\* keep stay, with the destinations they have.
Staged(e, route, ready) ==
  IF ready THEN route ELSE IF route = None THEN None ELSE desired[e]

\* apply needs no gateway I/O: not ready, and no applied route is withdrawn.
Defers(e, route, ready) == ~ready /\ (applied[e] = None \/ route # None)

\* apply: take the writer lock, stage, and start a pass for e.
Apply(e) ==
  LET route == RouteOf(run[e].id, run[e].kind) IN
  /\ run[e].at = "publish" /\ pass.at = "idle"
  /\ route # None \/ HasRoutes(e)
  /\ IF ~Current(e)
     THEN EndRun(e, "superseded") /\ UNCHANGED <<desired, pass>>
     ELSE /\ desired' = [desired EXCEPT ![e] = Staged(e, route, run[e].ready)]
          /\ UNCHANGED latest
          /\ IF Defers(e, route, run[e].ready)
             THEN /\ run' = [run EXCEPT ![e].at = AfterPublish(run[e].kind)]
                  /\ UNCHANGED pass
             ELSE /\ run' = [run EXCEPT ![e].at = "routing"]
                  /\ pass' = [Idle EXCEPT !.at = "read", !.by = e]
  /\ UNCHANGED <<applied, offered, removed, backends, broken, gateway, settings, budget>>

\* The applied routes changed under this plan: replan. Otherwise execute its
\* next action: provision the target, or, once that is ready, remove one
\* obsolete service; with nothing left the operation succeeds.
Act(e) ==
  /\ run[e].at = "act"
  /\ \/ /\ applied[e] # run[e].accepted
        /\ run' = [run EXCEPT ![e].at = "observe"]
        /\ UNCHANGED <<backends, latest>>
     \/ /\ applied[e] = run[e].accepted
        /\ ~run[e].ready
        /\ backends' = [backends EXCEPT ![e] = @ \union {run[e].id}]
        /\ run' = [run EXCEPT ![e].at = "observe"]
        /\ UNCHANGED latest
     \/ /\ applied[e] = run[e].accepted
        /\ run[e].ready
        /\ LET obsolete == IF run[e].kind = "delete" THEN backends[e]
                           ELSE backends[e] \ {run[e].id} IN
           \/ \E s \in obsolete :
                /\ backends' = [backends EXCEPT ![e] = @ \ {s}]
                /\ run' = [run EXCEPT ![e].at = "observe"]
                /\ UNCHANGED latest
           \/ obsolete = {} /\ EndRun(e, "succeeded") /\ UNCHANGED backends
  /\ UNCHANGED <<store, broken, gateway, settings, pass, budget>>

-----------------------------------------------------------------------------
(* The gateway pass.                                                        *)

PassOnly == UNCHANGED <<latest, run, backends, broken, settings, budget>>

To(at) == pass' = [pass EXCEPT !.at = at]

\* The pass is over and the lock is free; the operation it ran for goes on or
\* fails. A refresh runs for nobody.
Finish(ok) ==
  /\ pass' = Idle
  /\ IF pass.by \in Envs
     THEN IF ok
          THEN /\ run' = [run EXCEPT ![pass.by].at = AfterPublish(run[pass.by].kind)]
               /\ UNCHANGED latest
          ELSE EndRun(pass.by, "failed")
     ELSE UNCHANGED <<run, latest>>

\* The periodic pass, and the one after a stop.
Refresh ==
  /\ pass.at = "idle"
  /\ pass' = [Idle EXCEPT !.at = "read"]
  /\ PassOnly /\ UNCHANGED <<store, gateway>>

\* prepare_routes: an environment whose network cannot be verified keeps the
\* accepted destinations of the listeners it still has.
Prepared ==
  [e \in Envs |-> IF desired[e] # None /\ e \in broken THEN applied[e] ELSE desired[e]]

Unverified == {e \in broken : desired[e] # None}

Read ==
  /\ pass.at = "read"
  /\ pass' = IF settings.enabled
             THEN [pass EXCEPT !.at = "recover", !.table = Prepared, !.bad = Unverified]
             ELSE [pass EXCEPT !.at = "disable", !.table = desired]
  /\ PassOnly /\ UNCHANGED <<store, gateway>>

\* recover_gateway: a previous container without rollback.json is only a
\* cleanup; any other leftover is an unfinished replacement.
Committed == gateway.previous # None /\ gateway.rollback = NoTable

Leftovers == gateway.previous # None \/ gateway.next # None

Recover ==
  /\ pass.at = "recover"
  /\ \/ Committed /\ gateway' = [gateway EXCEPT !.previous = None] /\ To("ensure")
     \/ ~Committed /\ ~Leftovers /\ To("ensure") /\ UNCHANGED gateway
     \/ ~Committed /\ gateway.previous # None /\ To("r_remove") /\ UNCHANGED gateway
     \/ gateway.previous = None /\ gateway.next # None
        /\ To(IF gateway.serving # None /\ ~gateway.up THEN "r_start" ELSE "r_next")
        /\ UNCHANGED gateway
  /\ PassOnly /\ UNCHANGED store

\* restore_gateway, one call per step.
RestoreStep ==
  \/ /\ pass.at = "r_remove" /\ To("r_config")
     /\ gateway' = [gateway EXCEPT !.serving = None, !.up = FALSE]
  \/ /\ pass.at = "r_config" /\ gateway.rollback # NoTable /\ To("r_rename")
     /\ gateway' = [gateway EXCEPT !.config = gateway.rollback]
  \/ /\ pass.at = "r_rename" /\ To("r_start")
     /\ gateway' = [gateway EXCEPT !.serving = gateway.previous, !.previous = None]
  \/ /\ pass.at = "r_start" /\ To("r_next")
     /\ gateway' = [gateway EXCEPT !.up = TRUE]

Restore == RestoreStep /\ PassOnly /\ UNCHANGED store

\* The restore ends: recovery goes on, a failed replacement fails the pass.
RestoreEnds ==
  /\ pass.at = "r_next"
  /\ gateway' = [gateway EXCEPT !.next = None]
  /\ IF pass.cutover THEN Finish(FALSE) ELSE To("ensure") /\ UNCHANGED <<run, latest>>
  /\ UNCHANGED <<store, backends, broken, settings, budget>>

\* replace_gateway waits: a retained route has no verified network.
RetainsUnverified == \E e \in pass.bad : pass.table[e] # None

\* Mutant: a container that matches but does not run is taken for up to date.
EnsureStopped ==
  /\ pass.at = "ensure"
  /\ \/ /\ gateway.serving = settings.spec
        /\ To("configure") /\ UNCHANGED gateway
     \/ /\ gateway.serving \notin {None, settings.spec} /\ ~RetainsUnverified
        /\ To("validate") /\ UNCHANGED gateway
     \/ /\ gateway.serving = None
        /\ gateway' = [gateway EXCEPT !.serving = settings.spec]
        /\ To("write")
  /\ PassOnly /\ UNCHANGED store

\* ensure_gateway.
Ensure ==
  /\ pass.at = "ensure"
  /\ \/ /\ gateway.serving = settings.spec /\ gateway.up
        /\ To("configure") /\ UNCHANGED <<gateway, run, latest>>
     \/ /\ gateway.serving \notin {None, settings.spec} /\ ~RetainsUnverified
        /\ To("validate") /\ UNCHANGED <<gateway, run, latest>>
     \/ /\ gateway.serving \notin {None, settings.spec} /\ RetainsUnverified
        /\ IF gateway.up THEN To("configure") /\ UNCHANGED <<run, latest>>
           ELSE Finish(FALSE)
        /\ UNCHANGED gateway
     \/ /\ gateway.serving = None \/ (gateway.serving = settings.spec /\ ~gateway.up)
        /\ gateway' = [gateway EXCEPT !.serving = settings.spec]
        /\ To("write") /\ UNCHANGED <<run, latest>>
  /\ UNCHANGED <<store, backends, broken, settings, budget>>

\* Mutant: no rollback.json is written.
PrepareUnsaved ==
  /\ \/ /\ pass.at \in {"validate", "create"}
        /\ To(IF pass.at = "validate" THEN "create" ELSE "save")
        /\ gateway' = [gateway EXCEPT !.next = settings.spec]
     \/ /\ pass.at = "save"
        /\ pass' = [pass EXCEPT !.at = "stop", !.cutover = TRUE]
        /\ UNCHANGED gateway
  /\ PassOnly /\ UNCHANGED store

\* cut_over prepares: a throwaway container validates the configuration under
\* the -next name, then the replacement takes it; the configuration being
\* served becomes rollback.json.
Prepare ==
  /\ \/ /\ pass.at \in {"validate", "create"}
        /\ To(IF pass.at = "validate" THEN "create" ELSE "save")
        /\ gateway' = [gateway EXCEPT !.next = settings.spec]
     \/ /\ pass.at = "save"
        /\ pass' = [pass EXCEPT !.at = "stop", !.cutover = TRUE]
        /\ gateway' = [gateway EXCEPT !.rollback = gateway.config]
  /\ PassOnly /\ UNCHANGED store

\* cut_over switches: the old listener stops before the new one starts.
SwitchStep ==
  \/ /\ pass.at = "stop" /\ To("away")
     /\ gateway' = [gateway EXCEPT !.up = FALSE]
  \/ /\ pass.at = "away" /\ To("in")
     /\ gateway' = [gateway EXCEPT !.previous = gateway.serving, !.serving = None]
  \/ /\ pass.at = "in" /\ To("write")
     /\ gateway' = [gateway EXCEPT !.serving = gateway.next, !.next = None]

Switch == SwitchStep /\ PassOnly /\ UNCHANGED store

\* What a pass configures becomes known to the history.
Offer == offered' = [e \in Envs |-> offered[e] \union {pass.table[e]}]

\* start_gateway writes the table as autosave.json, then starts.
WriteTable ==
  /\ pass.at = "write" /\ To("start")
  /\ gateway' = [gateway EXCEPT !.config = pass.table]
  /\ Offer /\ UNCHANGED <<desired, applied, removed>> /\ PassOnly

Start ==
  /\ pass.at = "start"
  /\ gateway' = [gateway EXCEPT !.up = TRUE]
  /\ To(IF pass.cutover THEN "commit" ELSE "configure")
  /\ PassOnly /\ UNCHANGED store

\* Mutant: rollback.json is left behind.
CommitKeepingRollback ==
  /\ pass.at = "commit"
  /\ pass' = [pass EXCEPT !.at = "clean", !.cutover = FALSE]
  /\ PassOnly /\ UNCHANGED <<store, gateway>>

\* Removing rollback.json commits; the old container goes in an action of its
\* own, whose failure changes nothing else.
Commit ==
  /\ pass.at = "commit"
  /\ gateway' = [gateway EXCEPT !.rollback = NoTable]
  /\ pass' = [pass EXCEPT !.at = "clean", !.cutover = FALSE]
  /\ PassOnly /\ UNCHANGED store

Clean ==
  /\ pass.at = "clean" /\ To("configure")
  /\ \/ /\ gateway' = [gateway EXCEPT !.previous = None]
        /\ UNCHANGED budget
     \/ Fault /\ UNCHANGED gateway
  /\ UNCHANGED <<store, latest, run, backends, broken, settings>>

\* configure_gateway loads the table unless it is already being served.
Configure ==
  /\ pass.at = "configure" /\ gateway.up /\ To("ack")
  /\ gateway' = [gateway EXCEPT !.config = pass.table]
  /\ Offer /\ UNCHANGED <<desired, applied, removed>> /\ PassOnly

\* stop_gateway: every container is attempted, even when another fails.
Disable ==
  /\ pass.at = "disable"
  /\ \/ /\ gateway' = [gateway EXCEPT !.serving = None, !.next = None,
                                      !.previous = None, !.up = FALSE]
        /\ To("withdrawn") /\ UNCHANGED <<run, latest, budget>>
     \/ /\ Fault
        /\ \E kept \in SUBSET {"serving", "next", "previous"} :
             /\ kept # {}
             /\ gateway' = [gateway EXCEPT
                  !.serving = IF "serving" \in kept THEN @ ELSE None,
                  !.next = IF "next" \in kept THEN @ ELSE None,
                  !.previous = IF "previous" \in kept THEN @ ELSE None,
                  !.up = @ /\ "serving" \in kept]
        /\ Finish(FALSE)
  /\ UNCHANGED <<store, backends, broken, settings>>

\* acknowledge_routes records the table the gateway accepted (or, disabled, the
\* one it no longer serves).
Acknowledge ==
  /\ pass.at \in {"ack", "withdrawn"}
  /\ To(IF pass.at = "ack" THEN "tunnel" ELSE "report")
  /\ applied' = pass.table
  /\ offered' = [e \in Envs |-> {}]
  /\ removed' = [e \in Envs |->
       IF pass.at = "ack" THEN {}
       ELSE (removed[e] \union offered[e] \union {applied[e]}) \ {pass.table[e]}]
  /\ UNCHANGED <<desired, gateway>> /\ PassOnly

\* Mutant: a network failure is only logged.
SucceedsAnyway == TRUE

\* An application fails for its own network, not for the others'.
Succeeds == pass.by \notin pass.bad

\* cloudflared and the apps node follow; then the pass reports.
Done ==
  /\ pass.at \in {"tunnel", "report"} /\ Finish(Succeeds)
  /\ UNCHANGED <<store, gateway, backends, broken, settings, budget>>

-----------------------------------------------------------------------------
(* Faults.                                                                  *)

Switching == pass.cutover /\ pass.at \in {"stop", "away", "in", "write", "start"}

\* A call fails. While switching, cut_over restores the old gateway: which of
\* its calls are left depends on how far the switch came. Failing to clean up is
\* a case of Clean, and nothing is left to fail once the pass reports.
CallFails ==
  /\ pass.at \notin {"idle", "clean", "report"} /\ Fault
  /\ IF Switching
     THEN /\ To(IF gateway.previous # None THEN "r_remove"
                ELSE IF gateway.up THEN "r_next" ELSE "r_start")
          /\ UNCHANGED <<run, latest>>
     ELSE Finish(FALSE)
  /\ UNCHANGED <<store, gateway, backends, broken, settings>>

\* The operation's deadline, or shutdown, drops the pass where it is.
Dropped ==
  /\ pass.at # "idle" /\ Fault /\ Finish(FALSE)
  /\ UNCHANGED <<store, gateway, backends, broken, settings>>

\* The daemon stops and starts again, perhaps with other settings; operations
\* that were running are claimed again. The gateway keeps running.
Restart(s, on) ==
  /\ budget.restarts > 0
  /\ budget' = [budget EXCEPT !.restarts = @ - 1]
  /\ settings' = [spec |-> s, enabled |-> on]
  /\ pass' = Idle
  /\ run' = [e \in Envs |-> NoRun]
  /\ latest' = [e \in Envs |->
       IF latest[e].state = "running" THEN [latest[e] EXCEPT !.state = "pending"]
       ELSE latest[e]]
  /\ UNCHANGED <<store, backends, broken, gateway>>

\* The network of e disappears or loses its labels; an administrator repairs it.
Break(e) ==
  /\ e \notin broken /\ Fault /\ broken' = broken \union {e}
  /\ UNCHANGED <<store, latest, run, backends, gateway, settings, pass>>

Repair(e) ==
  /\ e \in broken /\ broken' = broken \ {e}
  /\ UNCHANGED <<store, latest, run, backends, gateway, settings, pass, budget>>

-----------------------------------------------------------------------------

Operate(e) == Claim(e) \/ Observe(e) \/ SkipRoutes(e) \/ Apply(e) \/ Act(e)

PassStep ==
  \/ Read \/ Recover \/ Restore \/ RestoreEnds \/ Ensure \/ Prepare \/ Switch
  \/ WriteTable \/ Start \/ Commit \/ Clean \/ Configure \/ Disable
  \/ Acknowledge \/ Done

Next ==
  \/ \E e \in Envs : \/ \E kind \in Kinds : Deploy(e, kind)
                     \/ Retry(e) \/ Operate(e) \/ Break(e) \/ Repair(e)
  \/ Refresh \/ PassStep \/ CallFails \/ Dropped
  \/ \E s \in Specs, on \in BOOLEAN : Restart(s, on)

Spec == Init /\ [][Next]_vars

\* The 10 s tick keeps asking for passes and the fair mutex grants them; a pass
\* and an operation in progress take their next step.
Fairness ==
  /\ WF_vars(PassStep) /\ SF_vars(Refresh)
  /\ \A e \in Envs : WF_vars(Operate(e))

FairSpec == Spec /\ Fairness

-----------------------------------------------------------------------------
(* Properties.                                                              *)

\* Every variable has its type.
ITypeOK ==
  /\ desired \in Tables /\ applied \in Tables
  /\ latest \in [Envs -> [id : Ids, kind : {"routed", "plain", "delete"},
       state : {"pending", "running", "succeeded", "failed", "superseded"}]]
  /\ run \in [Envs -> [at : {"idle", "observe", "publish", "routing", "act"},
       id : Ids, kind : {"routed", "plain", "delete"}, ready : BOOLEAN, accepted : Ids]]
  /\ backends \in [Envs -> SUBSET Ids]
  /\ broken \in SUBSET Envs
  /\ gateway \in [serving : Specs \union {None}, next : Specs \union {None},
       previous : Specs \union {None}, up : BOOLEAN, config : Tables,
       rollback : Tables \union {NoTable}]
  /\ gateway.up => gateway.serving # None
  /\ settings \in [spec : Specs, enabled : BOOLEAN]
  /\ pass \in [at : PassSteps, by : Envs \union {None}, table : Tables,
       bad : SUBSET Envs, cutover : BOOLEAN]
  /\ offered \in [Envs -> SUBSET Ids] /\ removed \in [Envs -> SUBSET Ids]
  /\ budget \in [deploys : 0..MaxDeploys, faults : 0..MaxFaults,
       restarts : 0..MaxRestarts]

\* Obsolete services are removed only after the routes left them: the service
\* an acknowledged route points to exists, whatever failed in between. It is
\* what an environment with an unverified network falls back to.
AcknowledgedBackendsExist ==
  \A e \in Envs : applied[e] # None => applied[e] \in backends[e]

\* A rollback never brings back routes that the gateway replaced since: it serves
\* the acknowledged routes, ones configured since, or, after ingress was disabled,
\* ones acknowledged away before it accepts a table again.
ServedIsKnown ==
  gateway.up => \A e \in Envs :
    gateway.config[e] \in offered[e] \union removed[e] \union {applied[e]}

\* Recovery tells a committed replacement from an unfinished one by
\* rollback.json alone: while both containers wait for the switch, or the old
\* one for its restore, that file exists, wherever the pass was dropped.
UnfinishedIsRestorable ==
  gateway.previous # None /\ (gateway.next # None \/ pass.at \in {"r_config", "r_rename"})
    => gateway.rollback # NoTable

\* An enabled gateway, once its calls succeed and every network is verified,
\* comes to serve the staged routes for good; a disabled one stops for good.
GatewayConverges ==
  /\ <>[](settings.enabled /\ broken = {}) =>
       <>[](gateway.up /\ gateway.config = desired /\ gateway.serving = settings.spec)
  /\ <>[](~settings.enabled) => <>[](gateway.serving = None /\ ~Leftovers)

\* What the comment in start_gateway says: a restarted gateway never resumes
\* routes that deployments removed while ingress was disabled.
RemovedRoutesStayRemoved ==
  gateway.up => \A e \in Envs :
    gateway.config[e] # None => gateway.config[e] \notin removed[e]
=============================================================================
