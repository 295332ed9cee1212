---------------------------- MODULE IngressProofs ----------------------------
(***************************************************************************)
(* Proofs about Ingress, for any environments, specifications, operations, *)
(* faults and restarts.                                                    *)
(*                                                                         *)
(* Three inductive invariants carry them.  GatewayInv says which           *)
(* containers and files exist at every call of a pass.  RoutesInv ties the *)
(* staged, the acknowledged and the passing tables to the services that    *)
(* exist and to how far the operation of each environment has come.        *)
(* KnownInv says that the gateway's configuration, and the saved one while *)
(* it can still be restored, only hold routes that were once acknowledged  *)
(* or configured.                                                          *)
(***************************************************************************)
EXTENDS Ingress, TLAPS

\* Which containers and files a pass finds at each of its calls.
GatewayInv ==
  /\ pass.at \in {"ensure", "validate", "create", "save", "stop", "away", "r_start", "r_next"}
       => gateway.previous = None
  /\ pass.at \in {"validate", "create", "save", "stop", "away", "start", "write", "r_start"}
       => gateway.serving # None
  /\ pass.at \in {"save", "stop", "away", "in"} => gateway.next # None
  /\ pass.at \in {"stop", "away", "in", "r_remove", "r_config", "r_rename"}
       => gateway.rollback # NoTable
  /\ pass.at \in {"away", "in", "write", "start", "r_config", "r_rename"} => ~gateway.up
  /\ pass.at \in {"in", "r_remove", "r_config", "r_rename"} => gateway.previous # None
  /\ pass.at \in {"stop", "away", "in"} => pass.cutover
  /\ pass.at \in {"write", "start", "commit"} /\ pass.cutover
       => gateway.previous # None /\ gateway.rollback # NoTable
  /\ pass.at \in {"write", "start", "commit"} => gateway.next = None
  /\ pass.at = "ensure" => gateway.next = None
  /\ pass.at \in {"read", "recover", "ensure", "validate", "create", "save"}
       => ~pass.cutover
  /\ gateway.previous # None /\ gateway.next # None => gateway.rollback # NoTable

\* What may be served for e: acknowledged, configured since, or acknowledged away
\* while ingress was disabled.
Known(e) == offered[e] \union removed[e] \union {applied[e]}

\* The gateway's configuration is known, and so is the saved one while it can
\* still be restored; nothing can when a table is about to be acknowledged.
KnownInv ==
  /\ \A e \in Envs : gateway.config[e] \in Known(e)
  /\ gateway.rollback # NoTable
       /\ (gateway.previous # None \/ pass.at \in {"stop", "away"})
       => \A e \in Envs : gateway.rollback[e] \in Known(e)
  /\ pass.at \in {"write", "start"} /\ ~pass.cutover => gateway.previous = None
  /\ pass.at \in {"clean", "configure", "ack"}
       => gateway.previous = None \/ gateway.rollback = NoTable
  /\ pass.at = "ack" => gateway.config = pass.table

\* What the operation of e relies on.
RunInv(e) ==
  LET route == RouteOf(run[e].id, run[e].kind) IN
  /\ run[e].kind = "delete" => run[e].ready
  /\ run[e].at = "routing" <=> pass.at # "idle" /\ pass.by = e
  /\ run[e].at = "routing" /\ run[e].ready => desired[e] = route
  /\ run[e].at \in {"publish", "routing", "act"} /\ run[e].ready /\ run[e].kind # "delete"
       => run[e].id \in backends[e]
  /\ run[e].at = "act" /\ run[e].ready => desired[e] = route /\ applied[e] = route
  /\ run[e].at = "observe" /\ run[e].kind = "delete"
       => desired[e] = None /\ applied[e] = None

\* What the pass has read of e, and what it has acknowledged.
TableInv(e) ==
  /\ pass.at \notin {"idle", "read"} =>
       /\ pass.table[e] = desired[e] \/ pass.table[e] = applied[e]
       /\ e \notin pass.bad => pass.table[e] = desired[e]
  /\ pass.at \in {"tunnel", "report"} => applied[e] = pass.table[e]

RoutesInv ==
  \A e \in Envs :
    /\ desired[e] # None => desired[e] \in backends[e]
    /\ applied[e] # None => applied[e] \in backends[e]
    /\ RunInv(e) /\ TableInv(e)

\* The initial state satisfies the types and the invariants.
LEMMA InitInv == Init => ITypeOK /\ GatewayInv /\ RoutesInv /\ KnownInv
  <1> SUFFICES ASSUME Init PROVE ITypeOK /\ GatewayInv /\ RoutesInv /\ KnownInv
    OBVIOUS
  <1> USE IngressAssumption DEF Init, Idle, NoRun, Empty, None, Ids, Tables
  <1>1. ITypeOK
    BY DEF ITypeOK, PassSteps
  <1>2. GatewayInv
    BY DEF GatewayInv
  <1>3. RoutesInv
    BY DEF RoutesInv, RunInv, TableInv
  <1>4. KnownInv
    BY DEF KnownInv, Known
  <1> QED BY <1>1, <1>2, <1>3, <1>4

\* No table of routes is the mark of a missing rollback.json.
LEMMA TablesAreReal == NoTable \notin Tables
  BY IngressAssumption DEF NoTable, Tables, Ids

\* The records of ITypeOK.
RunRecords ==
  [at : {"idle", "observe", "publish", "routing", "act"}, id : Ids,
   kind : {"routed", "plain", "delete"}, ready : BOOLEAN, accepted : Ids]

LatestRecords ==
  [id : Ids, kind : {"routed", "plain", "delete"},
   state : {"pending", "running", "succeeded", "failed", "superseded"}]

PassRecords ==
  [at : PassSteps, by : Envs \union {None}, table : Tables, bad : SUBSET Envs,
   cutover : BOOLEAN]

Gateways ==
  [serving : Specs \union {None}, next : Specs \union {None},
   previous : Specs \union {None}, up : BOOLEAN, config : Tables,
   rollback : Tables \union {NoTable}]

Budgets ==
  [deploys : 0..MaxDeploys, faults : 0..MaxFaults, restarts : 0..MaxRestarts]

\* The type invariant by component.
StoreTypes ==
  /\ desired \in Tables /\ applied \in Tables
  /\ offered \in [Envs -> SUBSET Ids] /\ removed \in [Envs -> SUBSET Ids]

RunTypes == run \in [Envs -> RunRecords] /\ latest \in [Envs -> LatestRecords]

WorldTypes ==
  /\ backends \in [Envs -> SUBSET Ids] /\ broken \in SUBSET Envs
  /\ settings \in [spec : Specs, enabled : BOOLEAN]

GatewayTypes == gateway \in Gateways /\ (gateway.up => gateway.serving # None)

\* ITypeOK, regrouped.
LEMMA TypesByPart ==
  /\ ITypeOK <=> /\ StoreTypes /\ RunTypes /\ WorldTypes /\ GatewayTypes
                 /\ pass \in PassRecords /\ budget \in Budgets
  /\ ITypeOK' <=> /\ StoreTypes' /\ RunTypes' /\ WorldTypes' /\ GatewayTypes'
                  /\ pass' \in PassRecords /\ budget' \in Budgets
  BY DEF ITypeOK, StoreTypes, RunTypes, WorldTypes, GatewayTypes, PassRecords,
         Budgets, RunRecords, LatestRecords, Gateways

\* Ending an operation keeps the types of operations.
LEMMA EndRunKeepsTypes ==
  ASSUME RunTypes, NEW e \in Envs,
         NEW state \in {"succeeded", "failed", "superseded"}, EndRun(e, state)
  PROVE  RunTypes'
  <1>1. NoRun \in RunRecords
    BY IngressAssumption DEF NoRun, RunRecords, Ids, None
  <1>2. run' \in [Envs -> RunRecords]
    BY <1>1 DEF EndRun, RunTypes
  <1>3. latest' \in [Envs -> LatestRecords]
    <2>1. [latest EXCEPT ![e].state = state] \in [Envs -> LatestRecords]
      BY DEF RunTypes, LatestRecords
    <2> QED BY <2>1 DEF EndRun, RunTypes
  <1> QED BY <1>2, <1>3 DEF RunTypes

\* The steps of the controller keep the types of operations.
LEMMA OperateKeepsRunTypes ==
  ASSUME RunTypes, StoreTypes, budget \in Budgets, NEW e \in Envs,
         (\E kind \in Kinds : Deploy(e, kind)) \/ Retry(e) \/ Operate(e)
  PROVE  RunTypes' /\ budget' \in Budgets
  <1> USE IngressAssumption
  <1>1. CASE \E kind \in Kinds : Deploy(e, kind)
    BY <1>1 DEF Deploy, Budgets, RunTypes, LatestRecords, Ids
  <1>2. CASE Retry(e)
    BY <1>2 DEF Retry, RunTypes, LatestRecords
  <1>3. CASE Claim(e)
    BY <1>3 DEF Claim, RunTypes, RunRecords, LatestRecords, Ids, None
  <1>4. CASE Observe(e)
    <2>1. CASE Current(e)
      <3> DEFINE r == run[e].kind = "delete" \/ run[e].id \in backends[e]
      <3>1. applied[e] \in Ids
        BY DEF StoreTypes, Tables
      <3>2. CASE r
        <4>1. r = TRUE
          BY <3>2
        <4> QED BY <1>4, <2>1, <3>1, <4>1 DEF Observe, RunTypes, RunRecords
      <3>3. CASE ~r
        <4>1. r = FALSE
          BY <3>3
        <4> QED BY <1>4, <2>1, <3>1, <4>1 DEF Observe, RunTypes, RunRecords
      <3> QED BY <3>2, <3>3
    <2>2. CASE ~Current(e)
      BY <1>4, <2>2, EndRunKeepsTypes DEF Observe
    <2> QED BY <2>1, <2>2
  <1>5. CASE SkipRoutes(e)
    BY <1>5 DEF SkipRoutes, AfterPublish, RunTypes, RunRecords
  <1>6. CASE Apply(e)
    <2>1. CASE Current(e)
      BY <1>6, <2>1 DEF Apply, AfterPublish, RunTypes, RunRecords
    <2>2. CASE ~Current(e)
      BY <1>6, <2>2, EndRunKeepsTypes DEF Apply
    <2> QED BY <2>1, <2>2
  <1>7. CASE Act(e)
    <2>1. budget' = budget
      BY <1>7 DEF Act
    <2>2. CASE run' = [run EXCEPT ![e].at = "observe"] /\ latest' = latest
      BY <2>1, <2>2 DEF RunTypes, RunRecords
    <2>3. CASE EndRun(e, "succeeded")
      BY <2>1, <2>3, EndRunKeepsTypes
    <2> QED BY <1>7, <2>2, <2>3 DEF Act
  <1> QED BY <1>1, <1>2, <1>3, <1>4, <1>5, <1>6, <1>7 DEF Operate

\* The steps of the controller keep the other types.
LEMMA OperateKeepsOtherTypes ==
  ASSUME StoreTypes, RunTypes, WorldTypes, GatewayTypes, pass \in PassRecords,
         NEW e \in Envs,
         (\E kind \in Kinds : Deploy(e, kind)) \/ Retry(e) \/ Operate(e)
  PROVE  StoreTypes' /\ WorldTypes' /\ GatewayTypes' /\ pass' \in PassRecords
  <1>1. GatewayTypes'
    BY DEF Operate, Deploy, Retry, Claim, Observe, SkipRoutes, Apply, Act, GatewayTypes
  <1>2. CASE (\E kind \in Kinds : Deploy(e, kind)) \/ Retry(e) \/ Claim(e)
             \/ Observe(e) \/ SkipRoutes(e)
    BY <1>1, <1>2 DEF Deploy, Retry, Claim, Observe, SkipRoutes, store, StoreTypes, WorldTypes
  <1>3. CASE Apply(e)
    <2>1. Staged(e, RouteOf(run[e].id, run[e].kind), run[e].ready) \in Ids
      BY IngressAssumption DEF Staged, RouteOf, None, StoreTypes, Tables, RunTypes, RunRecords, Ids
    <2>2. [Idle EXCEPT !.at = "read", !.by = e] \in PassRecords
      <3>1. Empty \in Tables
        BY IngressAssumption DEF Empty, Tables, Ids, None
      <3> QED BY <3>1 DEF Idle, PassRecords, PassSteps
    <2>3. desired' \in Tables
      BY <1>3, <2>1 DEF Apply, StoreTypes, Tables
    <2>4. pass' \in PassRecords
      BY <1>3, <2>2 DEF Apply
    <2> QED BY <1>1, <1>3, <2>3, <2>4 DEF Apply, StoreTypes, WorldTypes
  <1>4. CASE Act(e)
    <2>1. backends' \in [Envs -> SUBSET Ids]
      BY <1>4 DEF Act, WorldTypes, RunTypes, RunRecords
    <2> QED BY <1>1, <1>4, <2>1 DEF Act, store, StoreTypes, WorldTypes
  <1> QED BY <1>2, <1>3, <1>4 DEF Operate

\* The end of a pass, whatever its outcome, keeps the types.
LEMMA FinishKeepsTypes ==
  ASSUME RunTypes, NEW ok, Finish(ok)
  PROVE  RunTypes' /\ pass' \in PassRecords
  <1>1. Idle \in PassRecords
    BY IngressAssumption DEF Idle, PassRecords, PassSteps, Empty, Tables, Ids, None
  <1>2. CASE pass.by \in Envs /\ ok
    BY <1>1, <1>2 DEF Finish, AfterPublish, RunTypes, RunRecords
  <1>3. CASE pass.by \in Envs /\ ~ok
    BY <1>1, <1>3, EndRunKeepsTypes DEF Finish
  <1>4. CASE pass.by \notin Envs
    BY <1>1, <1>4 DEF Finish, RunTypes
  <1> QED BY <1>2, <1>3, <1>4

\* Moving a pass to its next call changes nothing else of it.
LEMMA ToMoves ==
  ASSUME pass \in PassRecords, NEW at \in PassSteps, To(at)
  PROVE  /\ pass' \in PassRecords /\ pass'.at = at /\ pass'.by = pass.by
         /\ pass'.table = pass.table /\ pass'.bad = pass.bad
         /\ pass'.cutover = pass.cutover
  BY DEF To, PassRecords

\* A pass that ends is idle.
LEMMA FinishIdles ==
  ASSUME NEW ok, Finish(ok)
  PROVE  pass'.at = "idle" /\ pass'.cutover = FALSE
  BY DEF Finish, Idle

\* What the lemmas about the gateway start from.
GatewayFacts == GatewayTypes /\ GatewayInv /\ pass \in PassRecords

\* Recovery keeps the gateway's invariant.
LEMMA RecoverKeepsGateway ==
  ASSUME GatewayFacts, Recover
  PROVE  GatewayTypes' /\ GatewayInv' /\ pass' \in PassRecords
  <1> USE DEF GatewayFacts, To, PassRecords, PassSteps, GatewayTypes, Gateways, GatewayInv, None
  <1>0. pass.at = "recover"
    BY DEF Recover
  <1>1. CASE Committed /\ gateway' = [gateway EXCEPT !.previous = None] /\ To("ensure")
    <2>1. gateway.next = None
      BY <1>1 DEF Committed
    <2> QED BY <1>0, <1>1, <2>1 DEF Recover, Committed
  <1>2. CASE ~Committed /\ ~Leftovers /\ To("ensure") /\ UNCHANGED gateway
    BY <1>0, <1>2 DEF Leftovers
  <1>3. CASE ~Committed /\ gateway.previous # None /\ To("r_remove") /\ UNCHANGED gateway
    BY <1>0, <1>3 DEF Committed
  <1>4. CASE gateway.previous = None /\ gateway.next # None
             /\ To(IF gateway.serving # None /\ ~gateway.up THEN "r_start" ELSE "r_next")
             /\ UNCHANGED gateway
    <2>1. CASE gateway.serving # None /\ ~gateway.up
      BY <1>0, <1>4, <2>1
    <2>2. CASE ~(gateway.serving # None /\ ~gateway.up)
      BY <1>0, <1>4, <2>2
    <2> QED BY <2>1, <2>2
  <1> QED BY <1>1, <1>2, <1>3, <1>4 DEF Recover

\* The calls of a restore keep the gateway's invariant.
LEMMA RestoreKeepsGateway ==
  ASSUME GatewayFacts, RestoreStep
  PROVE  GatewayTypes' /\ GatewayInv' /\ pass' \in PassRecords
  <1> USE DEF GatewayFacts
  <1>1. CASE pass.at = "r_remove"
    <2>1. gateway' = [gateway EXCEPT !.serving = None, !.up = FALSE] /\ To("r_config")
      BY <1>1 DEF RestoreStep
    <2>2. GatewayTypes'
      BY <2>1 DEF GatewayTypes, Gateways
    <2> QED BY <1>1, <2>1, <2>2, ToMoves DEF GatewayTypes, Gateways, GatewayInv, PassSteps
  <1>2. CASE pass.at = "r_config"
    <2>1. gateway' = [gateway EXCEPT !.config = gateway.rollback] /\ To("r_rename")
          /\ gateway.rollback # NoTable
      BY <1>2 DEF RestoreStep
    <2>2. GatewayTypes'
      BY <2>1 DEF GatewayTypes, Gateways
    <2> QED BY <1>2, <2>1, <2>2, ToMoves DEF GatewayTypes, Gateways, GatewayInv, PassSteps
  <1>3. CASE pass.at = "r_rename"
    <2>1. gateway' = [gateway EXCEPT !.serving = gateway.previous, !.previous = None]
          /\ To("r_start")
      BY <1>3 DEF RestoreStep
    <2>2. GatewayTypes'
      BY <1>3, <2>1 DEF GatewayTypes, Gateways, GatewayInv
    <2> QED BY <1>3, <2>1, <2>2, ToMoves DEF GatewayTypes, Gateways, GatewayInv, PassSteps
  <1>4. CASE pass.at = "r_start"
    <2>1. gateway' = [gateway EXCEPT !.up = TRUE] /\ To("r_next")
      BY <1>4 DEF RestoreStep
    <2>2. GatewayTypes'
      BY <1>4, <2>1 DEF GatewayTypes, Gateways, GatewayInv
    <2> QED BY <1>4, <2>1, <2>2, ToMoves DEF GatewayTypes, Gateways, GatewayInv, PassSteps
  <1> QED BY <1>1, <1>2, <1>3, <1>4 DEF RestoreStep

\* Preparing a replacement keeps the gateway's invariant.
LEMMA PrepareKeepsGateway ==
  ASSUME GatewayFacts, WorldTypes, Prepare
  PROVE  GatewayTypes' /\ GatewayInv' /\ pass' \in PassRecords
  <1> USE DEF GatewayFacts, To, PassRecords, PassSteps, GatewayTypes, Gateways, GatewayInv, None
  <1>0. settings.spec \in Specs /\ settings.spec # None
    BY IngressAssumption DEF WorldTypes
  <1>1. CASE pass.at = "validate"
    BY <1>0, <1>1 DEF Prepare
  <1>2. CASE pass.at = "create"
    BY <1>0, <1>2 DEF Prepare
  <1>3. CASE pass.at = "save"
    BY <1>3, TablesAreReal DEF Prepare
  <1> QED BY <1>1, <1>2, <1>3 DEF Prepare

\* Switching to the replacement keeps the gateway's invariant.
LEMMA SwitchKeepsGateway ==
  ASSUME GatewayFacts, SwitchStep
  PROVE  GatewayTypes' /\ GatewayInv' /\ pass' \in PassRecords
  <1> USE DEF GatewayFacts, To, PassRecords, PassSteps, GatewayTypes, Gateways, GatewayInv, None
  <1>1. CASE pass.at = "stop"
    BY <1>1 DEF SwitchStep
  <1>2. CASE pass.at = "away"
    BY <1>2 DEF SwitchStep
  <1>3. CASE pass.at = "in"
    BY <1>3 DEF SwitchStep
  <1> QED BY <1>1, <1>2, <1>3 DEF SwitchStep

\* Starting, committing, cleaning and configuring keep the gateway's invariant.
LEMMA ServeKeepsGateway ==
  ASSUME GatewayFacts, WriteTable \/ Start \/ Commit \/ Clean \/ Configure
  PROVE  GatewayTypes' /\ GatewayInv' /\ pass' \in PassRecords
  <1> USE DEF GatewayFacts, To, PassRecords, PassSteps, GatewayTypes, Gateways, GatewayInv, None
  <1>1. CASE WriteTable
    BY <1>1 DEF WriteTable
  <1>2. CASE Start
    BY <1>2 DEF Start
  <1>3. CASE Commit
    BY <1>3 DEF Commit
  <1>4. CASE Clean
    BY <1>4 DEF Clean
  <1>5. CASE Configure
    BY <1>5 DEF Configure
  <1> QED BY <1>1, <1>2, <1>3, <1>4, <1>5

\* Reading the table, the end of a restore, ensuring, acknowledging and
\* disabling keep the gateway's invariant.
LEMMA OtherPassStepsKeepGateway ==
  ASSUME GatewayFacts, RunTypes, StoreTypes, WorldTypes,
         Refresh \/ Read \/ RestoreEnds \/ Ensure \/ Acknowledge \/ Disable \/ Done
  PROVE  GatewayTypes' /\ GatewayInv' /\ pass' \in PassRecords
  <1> USE DEF GatewayFacts
  <1>0. ASSUME GatewayTypes', pass'.at = "idle", pass' \in PassRecords,
               gateway'.previous # None /\ gateway'.next # None
                 => gateway'.rollback # NoTable
        PROVE  GatewayTypes' /\ GatewayInv' /\ pass' \in PassRecords
    BY <1>0 DEF GatewayInv
  <1>1. CASE Refresh
    <2>1. [Idle EXCEPT !.at = "read"] \in PassRecords
      <3>1. Empty \in Tables
        BY IngressAssumption DEF Empty, Tables, Ids, None
      <3> QED BY <3>1 DEF Idle, PassRecords, PassSteps
    <2> QED BY <1>1, <2>1 DEF Refresh, Idle, GatewayTypes, GatewayInv
  <1>2. CASE Read
    <2>1. Prepared \in Tables /\ Unverified \subseteq Envs /\ desired \in Tables
      BY DEF Prepared, Unverified, StoreTypes, Tables, WorldTypes
    <2>2. CASE settings.enabled
      BY <1>2, <2>1, <2>2 DEF Read, PassRecords, PassSteps, GatewayTypes, GatewayInv
    <2>3. CASE ~settings.enabled
      BY <1>2, <2>1, <2>3 DEF Read, PassRecords, PassSteps, GatewayTypes, GatewayInv
    <2> QED BY <2>2, <2>3
  <1>3. CASE RestoreEnds
    <2>0. GatewayTypes' /\ gateway'.next = None
      BY <1>3 DEF RestoreEnds, GatewayTypes, Gateways, None
    <2>1. CASE pass.cutover
      BY <1>0, <1>3, <2>0, <2>1, FinishIdles, FinishKeepsTypes DEF RestoreEnds
    <2>2. CASE ~pass.cutover
      BY <1>3, <2>2 DEF RestoreEnds, GatewayInv, GatewayTypes, Gateways, To, PassRecords, PassSteps, None
    <2> QED BY <2>1, <2>2
  <1>4. CASE Ensure
    <2>0. settings.spec \in Specs /\ settings.spec # None
      BY IngressAssumption DEF WorldTypes, None
    <2> USE DEF To, PassRecords, PassSteps, GatewayTypes, Gateways, GatewayInv, None
    <2>1. CASE To("configure") /\ UNCHANGED gateway
      BY <1>4, <2>1 DEF Ensure
    <2>2. CASE To("validate") /\ UNCHANGED gateway /\ gateway.serving # None
      BY <1>4, <2>2 DEF Ensure
    <2>3. CASE Finish(FALSE) /\ UNCHANGED gateway
      BY <2>3, FinishIdles, FinishKeepsTypes
    <2>4. CASE /\ gateway.serving = None \/ (gateway.serving = settings.spec /\ ~gateway.up)
               /\ gateway' = [gateway EXCEPT !.serving = settings.spec] /\ To("write")
      BY <1>4, <2>0, <2>4 DEF Ensure
    <2> QED BY <1>4, <2>1, <2>2, <2>3, <2>4 DEF Ensure
  <1>5. CASE Acknowledge
    BY <1>5 DEF Acknowledge, To, PassRecords, PassSteps, GatewayTypes, GatewayInv
  <1>6. CASE Disable
    <2>1. CASE To("withdrawn")
      <3>1. pass'.at = "withdrawn" /\ pass' \in PassRecords
        BY <2>1, ToMoves DEF PassSteps
      <3>2. gateway' = [gateway EXCEPT !.serving = None, !.next = None, !.previous = None,
                                       !.up = FALSE]
        BY <1>6, <3>1, FinishIdles DEF Disable
      <3> QED BY <3>1, <3>2 DEF GatewayTypes, Gateways, GatewayInv, None
    <2>2. CASE Finish(FALSE)
      <3>1. gateway' \in Gateways /\ (gateway'.up => gateway'.serving # None)
            /\ (gateway'.previous # None /\ gateway'.next # None
                 => gateway'.rollback # NoTable)
        BY <1>6 DEF Disable, GatewayTypes, Gateways, GatewayInv, None
      <3> QED BY <1>0, <2>2, <3>1, FinishIdles, FinishKeepsTypes DEF GatewayTypes
    <2> QED BY <1>6, <2>1, <2>2 DEF Disable
  <1>7. CASE Done
    <2>1. Finish(Succeeds) /\ UNCHANGED gateway
      BY <1>7 DEF Done
    <2> QED BY <1>0, <2>1, FinishIdles, FinishKeepsTypes DEF GatewayTypes, GatewayInv
  <1> QED BY <1>1, <1>2, <1>3, <1>4, <1>5, <1>6, <1>7

\* A fault keeps the gateway's invariant.
LEMMA FaultsKeepGateway ==
  ASSUME GatewayFacts, RunTypes,
         \/ CallFails \/ Dropped
         \/ \E s \in Specs, on \in BOOLEAN : Restart(s, on)
         \/ \E e \in Envs : Break(e) \/ Repair(e)
  PROVE  GatewayTypes' /\ GatewayInv' /\ pass' \in PassRecords
  <1> USE DEF GatewayFacts
  <1>1. UNCHANGED gateway /\ GatewayTypes'
    BY DEF CallFails, Dropped, Restart, Break, Repair, GatewayTypes
  <1>2. ASSUME pass'.at = "idle" PROVE GatewayInv'
    BY <1>1, <1>2 DEF GatewayInv
  <1>3. CASE CallFails /\ Switching
    <2>1. CASE gateway.previous # None
      <3>1. To("r_remove")
        BY <1>3, <2>1 DEF CallFails
      <3> QED BY <1>1, <1>3, <2>1, <3>1, ToMoves DEF Switching, GatewayInv, PassSteps
    <2>2. CASE gateway.previous = None /\ gateway.up
      <3>1. To("r_next")
        BY <1>3, <2>2 DEF CallFails
      <3> QED BY <1>1, <1>3, <2>2, <3>1, ToMoves DEF Switching, GatewayInv, PassSteps
    <2>3. CASE gateway.previous = None /\ ~gateway.up
      <3>1. To("r_start")
        BY <1>3, <2>3 DEF CallFails
      <3> QED BY <1>1, <1>3, <2>3, <3>1, ToMoves DEF Switching, GatewayInv, PassSteps
    <2> QED BY <2>1, <2>2, <2>3
  <1>4. CASE (CallFails /\ ~Switching) \/ Dropped
    <2>1. Finish(FALSE)
      BY <1>4 DEF CallFails, Dropped
    <2> QED BY <1>1, <1>2, <2>1, FinishIdles, FinishKeepsTypes
  <1>5. CASE \E s \in Specs, on \in BOOLEAN : Restart(s, on)
    <2>1. pass' = Idle
      BY <1>5 DEF Restart
    <2>2. Empty \in Tables
      BY IngressAssumption DEF Empty, Tables, Ids, None
    <2> QED BY <1>1, <1>2, <2>1, <2>2 DEF Idle, PassRecords, PassSteps
  <1>6. CASE \E e \in Envs : Break(e) \/ Repair(e)
    <2>1. UNCHANGED pass
      BY <1>6 DEF Break, Repair
    <2> QED BY <1>1, <2>1 DEF GatewayInv
  <1> QED BY <1>3, <1>4, <1>5, <1>6

\* The controller never touches the gateway; it starts a pass only when there is
\* none.
LEMMA OperateKeepsGateway ==
  ASSUME GatewayInv, NEW e \in Envs,
         (\E kind \in Kinds : Deploy(e, kind)) \/ Retry(e) \/ Operate(e)
  PROVE  GatewayInv'
  <1>1. UNCHANGED gateway
    BY DEF Operate, Deploy, Retry, Claim, Observe, SkipRoutes, Apply, Act
  <1>2. CASE UNCHANGED pass
    BY <1>1, <1>2 DEF GatewayInv
  <1>3. CASE pass' = [Idle EXCEPT !.at = "read", !.by = e]
    <2>1. pass'.at = "read" /\ pass'.cutover = FALSE
      BY <1>3 DEF Idle
    <2> QED BY <1>1, <2>1 DEF GatewayInv
  <1> QED BY <1>2, <1>3 DEF Operate, Deploy, Retry, Claim, Observe, SkipRoutes, Apply, Act

\* Passes and faults keep the types of the store, the operations and the world.
LEMMA PassKeepsTypes ==
  ASSUME ITypeOK,
         \/ Refresh \/ PassStep \/ CallFails \/ Dropped
         \/ \E s \in Specs, on \in BOOLEAN : Restart(s, on)
         \/ \E e \in Envs : Break(e) \/ Repair(e)
  PROVE  StoreTypes' /\ RunTypes' /\ WorldTypes' /\ budget' \in Budgets
  <1>0. /\ StoreTypes /\ RunTypes /\ WorldTypes /\ pass \in PassRecords
        /\ budget \in Budgets
    BY TypesByPart
  <1>1. ASSUME Fault PROVE budget' \in Budgets
    BY <1>0, <1>1, IngressAssumption DEF Fault, Budgets
  <1>2. CASE Refresh \/ Read \/ Recover \/ Restore \/ Prepare \/ Switch \/ Start \/ Commit
    BY <1>0, <1>2
    DEF Refresh, Read, Recover, Restore, Prepare, Switch, Start, Commit, PassOnly, store,
        StoreTypes, RunTypes, WorldTypes
  <1>3. CASE WriteTable \/ Configure
    <2>1. offered' \in [Envs -> SUBSET Ids]
      BY <1>0, <1>3 DEF WriteTable, Configure, Offer, StoreTypes, PassRecords, Tables
    <2> QED BY <1>0, <1>3, <2>1
        DEF WriteTable, Configure, PassOnly, StoreTypes, RunTypes, WorldTypes
  <1>4. CASE Acknowledge
    <2>1. removed' \in [Envs -> SUBSET Ids] /\ offered' \in [Envs -> SUBSET Ids]
      BY <1>0, <1>4 DEF Acknowledge, StoreTypes, PassRecords, Tables
    <2>2. applied' \in Tables
      BY <1>0, <1>4 DEF Acknowledge, PassRecords
    <2> QED BY <1>0, <1>4, <2>1, <2>2
        DEF Acknowledge, PassOnly, StoreTypes, RunTypes, WorldTypes
  <1>5. CASE Clean \/ (\E e \in Envs : Break(e) \/ Repair(e))
    BY <1>0, <1>1, <1>5 DEF Clean, Break, Repair, store, StoreTypes, RunTypes, WorldTypes
  <1>6. CASE RestoreEnds \/ Ensure \/ Disable \/ Done \/ CallFails \/ Dropped
    <2>1. StoreTypes' /\ WorldTypes'
      BY <1>0, <1>6
      DEF RestoreEnds, Ensure, Disable, Done, CallFails, Dropped, store, StoreTypes, WorldTypes
    <2>2. budget' \in Budgets
      BY <1>0, <1>1, <1>6 DEF RestoreEnds, Ensure, Disable, Done, CallFails, Dropped
    <2>3. CASE UNCHANGED <<run, latest>>
      BY <1>0, <2>1, <2>2, <2>3 DEF RunTypes
    <2>4. CASE \E ok \in BOOLEAN : Finish(ok)
      BY <1>0, <2>1, <2>2, <2>4, FinishKeepsTypes
    <2>5. ASSUME Done PROVE \E ok \in BOOLEAN : Finish(ok)
      <3>1. Succeeds \in BOOLEAN
        BY DEF Succeeds
      <3> QED BY <2>5, <3>1 DEF Done
    <2> QED BY <1>6, <2>3, <2>4, <2>5 DEF RestoreEnds, Ensure, Disable, CallFails, Dropped
  <1>7. CASE \E s \in Specs, on \in BOOLEAN : Restart(s, on)
    <2>1. NoRun \in RunRecords
      BY IngressAssumption DEF NoRun, RunRecords, Ids, None
    <2>2. run' \in [Envs -> RunRecords]
      BY <1>7, <2>1 DEF Restart
    <2>3. latest' \in [Envs -> LatestRecords]
      BY <1>0, <1>7 DEF Restart, RunTypes, LatestRecords
    <2>4. budget' \in Budgets
      BY <1>0, <1>7, IngressAssumption DEF Restart, Budgets
    <2> QED BY <1>0, <1>7, <2>2, <2>3, <2>4 DEF Restart, store, StoreTypes, RunTypes, WorldTypes
  <1> QED BY <1>2, <1>3, <1>4, <1>5, <1>6, <1>7 DEF PassStep

\* Every step keeps the type invariant and the gateway's.
LEMMA TypesAndGatewayStep ==
  ASSUME ITypeOK, GatewayInv, Next
  PROVE  ITypeOK' /\ GatewayInv'
  <1>0. GatewayFacts /\ StoreTypes /\ RunTypes /\ WorldTypes /\ budget \in Budgets
    BY TypesByPart DEF GatewayFacts
  <1>1. ASSUME NEW e \in Envs,
               (\E kind \in Kinds : Deploy(e, kind)) \/ Retry(e) \/ Operate(e)
        PROVE  ITypeOK' /\ GatewayInv'
    <2>1. GatewayInv'
      BY <1>1, OperateKeepsGateway
    <2>2. RunTypes' /\ budget' \in Budgets
      BY <1>0, <1>1, OperateKeepsRunTypes
    <2>3. StoreTypes' /\ WorldTypes' /\ GatewayTypes' /\ pass' \in PassRecords
      BY <1>0, <1>1, OperateKeepsOtherTypes DEF GatewayFacts
    <2> QED BY <2>1, <2>2, <2>3, TypesByPart
  <1>2. CASE \/ Refresh \/ PassStep \/ CallFails \/ Dropped
             \/ \E s \in Specs, on \in BOOLEAN : Restart(s, on)
             \/ \E e \in Envs : Break(e) \/ Repair(e)
    <2>1. StoreTypes' /\ RunTypes' /\ WorldTypes' /\ budget' \in Budgets
      BY <1>2, PassKeepsTypes
    <2>2. CASE Recover
      BY <1>0, <2>1, <2>2, RecoverKeepsGateway, TypesByPart
    <2>3. CASE Restore
      BY <1>0, <2>1, <2>3, RestoreKeepsGateway, TypesByPart DEF Restore
    <2>4. CASE Prepare
      BY <1>0, <2>1, <2>4, PrepareKeepsGateway, TypesByPart
    <2>5. CASE Switch
      BY <1>0, <2>1, <2>5, SwitchKeepsGateway, TypesByPart DEF Switch
    <2>6. CASE WriteTable \/ Start \/ Commit \/ Clean \/ Configure
      BY <1>0, <2>1, <2>6, ServeKeepsGateway, TypesByPart
    <2>7. CASE Refresh \/ Read \/ RestoreEnds \/ Ensure \/ Acknowledge \/ Disable \/ Done
      BY <1>0, <2>1, <2>7, OtherPassStepsKeepGateway, TypesByPart
    <2>8. CASE \/ CallFails \/ Dropped
               \/ \E s \in Specs, on \in BOOLEAN : Restart(s, on)
               \/ \E e \in Envs : Break(e) \/ Repair(e)
      BY <1>0, <2>1, <2>8, FaultsKeepGateway, TypesByPart
    <2> QED BY <1>2, <2>2, <2>3, <2>4, <2>5, <2>6, <2>7, <2>8 DEF PassStep
  <1> QED BY <1>1, <1>2 DEF Next

-----------------------------------------------------------------------------
(* The routes and their services.                                           *)

\* What the routes' invariant reads does not change, and the pass goes on
\* without acknowledging: it is kept.
LEMMA MovingKeepsRoutes ==
  ASSUME RoutesInv, UNCHANGED <<desired, applied, run, backends>>,
         pass.at \notin {"idle", "read"},
         pass'.at \notin {"idle", "read", "tunnel", "report"},
         pass'.by = pass.by, pass'.table = pass.table, pass'.bad = pass.bad
  PROVE  RoutesInv'
  BY DEF RoutesInv, RunInv, TableInv

\* The pass ends and its operation, if any, with it or with a failure.
LEMMA FailingKeepsRoutes ==
  ASSUME RoutesInv, ITypeOK, UNCHANGED <<desired, applied, backends>>,
         pass.at # "idle", Finish(FALSE)
  PROVE  RoutesInv'
  <1>1. pass'.at = "idle"
    BY FinishIdles
  <1>2. ASSUME NEW e \in Envs, e = pass.by PROVE run'[e] = NoRun
    BY <1>2 DEF Finish, EndRun, ITypeOK
  <1>3. ASSUME NEW e \in Envs, e # pass.by PROVE run'[e] = run[e] /\ run[e].at # "routing"
    BY <1>3 DEF Finish, EndRun, ITypeOK, RoutesInv, RunInv
  <1>4. ASSUME NEW e \in Envs PROVE RunInv(e)' /\ TableInv(e)'
    <2>1. CASE e = pass.by
      BY <1>1, <1>2, <2>1 DEF RunInv, TableInv, NoRun
    <2>2. CASE e # pass.by
      BY <1>1, <1>3, <2>2 DEF RoutesInv, RunInv, TableInv
    <2> QED BY <2>1, <2>2
  <1> QED BY <1>4 DEF RoutesInv

\* A pass that succeeds has published its operation's routes.
LEMMA SucceedingKeepsRoutes ==
  ASSUME RoutesInv, ITypeOK, Done, Succeeds
  PROVE  RoutesInv'
  <1>0. UNCHANGED <<desired, applied, backends>> /\ Finish(TRUE)
        /\ pass.at \in {"tunnel", "report"}
    BY DEF Done, Finish, store
  <1>1. pass'.at = "idle"
    BY <1>0, FinishIdles
  <1>2. ASSUME NEW e \in Envs, e = pass.by
        PROVE  run'[e] = [run[e] EXCEPT !.at = AfterPublish(run[e].kind)]
    BY <1>0, <1>2 DEF Finish, ITypeOK
  <1>3. ASSUME NEW e \in Envs, e # pass.by PROVE run'[e] = run[e] /\ run[e].at # "routing"
    BY <1>0, <1>3 DEF Finish, ITypeOK, RoutesInv, RunInv
  <1>4. ASSUME NEW e \in Envs PROVE RunInv(e)' /\ TableInv(e)'
    <2>1. CASE e = pass.by
      <3>1. e \notin pass.bad
        BY <2>1 DEF Succeeds
      <3>2. applied[e] = desired[e]
        BY <1>0, <3>1 DEF RoutesInv, TableInv
      <3>3. run[e].at = "routing" /\ RunInv(e)
        BY <1>0, <2>1 DEF RoutesInv, RunInv
      <3>4. /\ run'[e].id = run[e].id /\ run'[e].kind = run[e].kind
            /\ run'[e].ready = run[e].ready
            /\ run'[e].at = IF run[e].kind = "delete" THEN "observe" ELSE "act"
        BY <1>2, <2>1 DEF AfterPublish, ITypeOK
      <3> QED BY <1>0, <1>1, <3>2, <3>3, <3>4 DEF RunInv, TableInv, RouteOf
    <2>2. CASE e # pass.by
      BY <1>0, <1>1, <1>3, <2>2 DEF RoutesInv, RunInv, TableInv
    <2> QED BY <2>1, <2>2
  <1> QED BY <1>0, <1>4 DEF RoutesInv

\* Reading and acknowledging tables.
LEMMA TablesKeepRoutes ==
  ASSUME RoutesInv, ITypeOK, Refresh \/ Read \/ Acknowledge
  PROVE  RoutesInv'
  <1>1. CASE Refresh
    <2>1. pass'.at = "read" /\ pass'.by = None /\ pass.at = "idle"
      BY <1>1 DEF Refresh, Idle
    <2> QED BY <1>1, <2>1, IngressAssumption
        DEF Refresh, PassOnly, store, RoutesInv, RunInv, TableInv
  <1>2. CASE Read
    <2>1. /\ pass.at = "read" /\ pass'.at \in {"recover", "disable"}
          /\ pass'.by = pass.by
          /\ UNCHANGED <<desired, applied, run, backends>>
      BY <1>2 DEF Read, PassOnly, store, ITypeOK
    <2>2. ASSUME NEW e \in Envs
          PROVE  /\ pass'.table[e] = desired[e] \/ pass'.table[e] = applied[e]
                 /\ e \notin pass'.bad => pass'.table[e] = desired[e]
      BY <1>2 DEF Read, ITypeOK, Prepared, Unverified
    <2> QED BY <2>1, <2>2 DEF RoutesInv, RunInv, TableInv
  <1>3. CASE Acknowledge
    <2>1. /\ pass.at \in {"ack", "withdrawn"} /\ pass'.at \in {"tunnel", "report"}
          /\ pass'.by = pass.by /\ pass'.table = pass.table /\ pass'.bad = pass.bad
          /\ applied' = pass.table /\ UNCHANGED <<desired, run, backends>>
      BY <1>3 DEF Acknowledge, To, PassOnly, ITypeOK
    <2>2. ASSUME NEW e \in Envs
          PROVE  pass.table[e] = desired[e] \/ pass.table[e] = applied[e]
      BY <2>1 DEF RoutesInv, TableInv
    <2>3. ASSUME NEW e \in Envs PROVE RunInv(e)' /\ TableInv(e)'
      BY <2>1, <2>2 DEF RoutesInv, RunInv, TableInv
    <2>4. ASSUME NEW e \in Envs, applied'[e] # None PROVE applied'[e] \in backends[e]
      BY <2>1, <2>2, <2>4 DEF RoutesInv
    <2> QED BY <2>1, <2>3, <2>4 DEF RoutesInv
  <1> QED BY <1>1, <1>2, <1>3

\* Accepting, claiming, observing and skipping: nothing is staged or removed.
LEMMA LoopKeepsRoutes ==
  ASSUME RoutesInv, ITypeOK, NEW e \in Envs,
         \/ \E kind \in Kinds : Deploy(e, kind)
         \/ Retry(e) \/ Claim(e) \/ Observe(e) \/ SkipRoutes(e)
  PROVE  RoutesInv'
  <1>0. UNCHANGED <<desired, applied, backends, pass>>
    BY DEF Deploy, Retry, Claim, Observe, SkipRoutes, store
  <1>1. CASE UNCHANGED run
    BY <1>0, <1>1 DEF RoutesInv, RunInv, TableInv
  <1>2. ASSUME run \in [Envs -> RunRecords], NEW r, run' = [run EXCEPT ![e] = r],
               run[e].at # "routing", r.at # "routing",
               r.kind = "delete" => r.ready,
               r.at \in {"publish", "act"} /\ r.ready /\ r.kind # "delete"
                 => r.id \in backends[e],
               r.at = "act" /\ r.ready
                 => desired[e] = RouteOf(r.id, r.kind) /\ applied[e] = RouteOf(r.id, r.kind),
               r.at = "observe" /\ r.kind = "delete" => desired[e] = None /\ applied[e] = None
        PROVE  RoutesInv'
    <2>1. run'[e] = r /\ \A d \in Envs : d # e => run'[d] = run[d]
      BY <1>2
    <2>2. ASSUME NEW d \in Envs PROVE RunInv(d)' /\ TableInv(d)'
      <3>1. CASE d = e
        BY <1>0, <1>2, <2>1, <3>1 DEF RoutesInv, RunInv, TableInv
      <3>2. CASE d # e
        BY <1>0, <2>1, <3>2 DEF RoutesInv, RunInv, TableInv
      <3> QED BY <3>1, <3>2
    <2> QED BY <1>0, <2>2 DEF RoutesInv
  <1>3. run \in [Envs -> RunRecords] /\ run[e] \in RunRecords /\ RunInv(e)
    BY TypesByPart DEF RunTypes, RoutesInv
  <1>4. NoRun.at = "idle" /\ NoRun.kind = "plain"
    BY DEF NoRun
  <1>5. CASE Claim(e)
    <2> DEFINE r == [at |-> IF latest[e].kind = "delete" THEN "publish" ELSE "observe",
                     id |-> latest[e].id, kind |-> latest[e].kind,
                     ready |-> latest[e].kind = "delete", accepted |-> None]
    <2>1. run' = [run EXCEPT ![e] = r] /\ run[e].at = "idle"
      BY <1>5 DEF Claim
    <2>2. /\ r.at = IF latest[e].kind = "delete" THEN "publish" ELSE "observe"
          /\ r.kind = latest[e].kind /\ (r.kind = "delete" => r.ready)
      OBVIOUS
    <2> HIDE DEF r
    <2> QED BY <1>2, <1>3, <2>1, <2>2
  <1>6. CASE Observe(e)
    <2>1. CASE ~Current(e)
      <3>1. run' = [run EXCEPT ![e] = NoRun] /\ run[e].at = "observe"
        BY <1>6, <2>1 DEF Observe, EndRun
      <3> QED BY <1>2, <1>3, <1>4, <3>1
    <2>2. CASE Current(e)
      <3> DEFINE r == run'[e]
      <3>1. run' = [run EXCEPT ![e] = r] /\ run[e].at = "observe"
        BY <1>3, <1>6, <2>2 DEF Observe
      <3>2. /\ r.at = IF run[e].kind = "delete" THEN "act" ELSE "publish"
            /\ r.kind = run[e].kind /\ r.id = run[e].id
            /\ r.ready = (run[e].kind = "delete" \/ run[e].id \in backends[e])
        BY <1>3, <1>6, <2>2 DEF Observe, RunRecords
      <3>3. r.ready => run[e].kind = "delete" \/ run[e].id \in backends[e]
        BY <3>2
      <3>4. r.kind = "delete" => r.ready
        BY <3>2
      <3>5. r.kind = "delete" =>
              desired[e] = RouteOf(r.id, r.kind) /\ applied[e] = RouteOf(r.id, r.kind)
        BY <1>3, <3>1, <3>2 DEF RunInv, RouteOf
      <3> HIDE DEF r
      <3> QED BY <1>2, <1>3, <3>1, <3>2, <3>3, <3>4, <3>5
    <2> QED BY <2>1, <2>2
  <1>7. CASE SkipRoutes(e)
    <2> DEFINE r == [run[e] EXCEPT !.at = AfterPublish(run[e].kind)]
    <2>1. run' = [run EXCEPT ![e] = r] /\ run[e].at = "publish"
      BY <1>3, <1>7 DEF SkipRoutes
    <2>2. /\ r.at = IF run[e].kind = "delete" THEN "observe" ELSE "act"
          /\ r.kind = run[e].kind /\ r.id = run[e].id /\ r.ready = run[e].ready
      BY <1>3 DEF RunRecords, AfterPublish
    <2>3. /\ desired[e] = None /\ applied[e] = None
          /\ RouteOf(run[e].id, run[e].kind) = None
      BY <1>7 DEF SkipRoutes, HasRoutes
    <2> HIDE DEF r
    <2> QED BY <1>2, <1>3, <2>1, <2>2, <2>3 DEF RunInv
  <1>8. CASE (\E kind \in Kinds : Deploy(e, kind)) \/ Retry(e)
    BY <1>1, <1>8 DEF Deploy, Retry
  <1> QED BY <1>5, <1>6, <1>7, <1>8

\* Staging routes, and starting the pass that publishes them.
LEMMA ApplyKeepsRoutes ==
  ASSUME RoutesInv, ITypeOK, NEW e \in Envs, Apply(e)
  PROVE  RoutesInv'
  <1> DEFINE route == RouteOf(run[e].id, run[e].kind)
  <1>0. /\ UNCHANGED <<applied, backends>> /\ run[e].at = "publish" /\ pass.at = "idle"
        /\ \A d \in Envs : d # e => run'[d] = run[d] /\ desired'[d] = desired[d]
    BY DEF Apply, EndRun, ITypeOK, Tables
  <1>1. RunInv(e) /\ \A d \in Envs : run[d].at # "routing"
    BY <1>0 DEF RoutesInv, RunInv
  <1>2. CASE ~Current(e)
    <2>1. run'[e] = NoRun /\ UNCHANGED <<desired, pass>>
      BY <1>2 DEF Apply, EndRun, ITypeOK
    <2>2. RunInv(e)'
      BY <1>0, <2>1 DEF RunInv, NoRun
    <2> QED BY <1>0, <2>1, <2>2 DEF RoutesInv, RunInv, TableInv
  <1>3. CASE Current(e)
    <2>1. desired'[e] = Staged(e, route, run[e].ready)
      BY <1>3 DEF Apply, ITypeOK, Tables
    <2>2. desired'[e] # None => desired'[e] \in backends[e]
      BY <1>0, <1>1, <2>1 DEF Staged, RouteOf, RunInv, RoutesInv
    <2>3. run[e].ready => desired'[e] = route
      BY <2>1 DEF Staged
    <2>4. CASE Defers(e, route, run[e].ready)
      <3>1. UNCHANGED pass /\ ~run[e].ready
        BY <1>3, <2>4 DEF Apply, Defers
      <3>2. /\ run'[e].at = AfterPublish(run[e].kind) /\ run'[e].kind = run[e].kind
            /\ run'[e].ready = run[e].ready
        BY <1>3, <2>4 DEF Apply, ITypeOK
      <3>3. run[e].kind # "delete"
        BY <1>1, <3>1 DEF RunInv
      <3>4. RunInv(e)'
        BY <1>0, <3>1, <3>2, <3>3 DEF RunInv, AfterPublish
      <3>5. ASSUME NEW d \in Envs PROVE RunInv(d)' /\ TableInv(d)'
        BY <1>0, <3>1, <3>4 DEF RoutesInv, RunInv, TableInv
      <3> QED BY <1>0, <2>2, <3>5 DEF RoutesInv
    <2>5. CASE ~Defers(e, route, run[e].ready)
      <3>1. pass'.at = "read" /\ pass'.by = e
        BY <1>3, <2>5 DEF Apply, Idle
      <3>2. /\ run'[e].at = "routing" /\ run'[e].kind = run[e].kind
            /\ run'[e].id = run[e].id /\ run'[e].ready = run[e].ready
        BY <1>3, <2>5 DEF Apply, ITypeOK
      <3>3. RunInv(e)'
        BY <1>0, <1>1, <2>3, <3>1, <3>2 DEF RunInv
      <3>4. ASSUME NEW d \in Envs, d # e PROVE RunInv(d)'
        BY <1>0, <1>1, <3>1, <3>4 DEF RoutesInv, RunInv
      <3>5. ASSUME NEW d \in Envs PROVE TableInv(d)'
        BY <3>1 DEF TableInv
      <3> QED BY <1>0, <2>2, <3>3, <3>4, <3>5 DEF RoutesInv
    <2> QED BY <2>4, <2>5
  <1> QED BY <1>2, <1>3

\* Provisioning, and removing what is obsolete once the routes left it.
LEMMA ActKeepsRoutes ==
  ASSUME RoutesInv, ITypeOK, NEW e \in Envs, Act(e)
  PROVE  RoutesInv'
  <1>0. /\ UNCHANGED <<desired, applied, pass>> /\ run[e].at = "act"
        /\ \A d \in Envs : d # e => run'[d] = run[d] /\ backends'[d] = backends[d]
    BY DEF Act, EndRun, ITypeOK, store
  <1>1. RunInv(e)
    BY DEF RoutesInv
  <1>2. ASSUME run'[e].at \in {"observe", "idle"}, run'[e].kind \in {run[e].kind, "plain"},
               run'[e].kind = "delete" => run'[e].ready /\ run[e].ready,
               desired[e] # None => desired[e] \in backends'[e],
               applied[e] # None => applied[e] \in backends'[e]
        PROVE  RoutesInv'
    <2>1. RunInv(e)'
      BY <1>0, <1>1, <1>2 DEF RunInv, RouteOf
    <2>2. ASSUME NEW d \in Envs, d # e PROVE RunInv(d)'
      BY <1>0, <2>2 DEF RoutesInv, RunInv
    <2>3. ASSUME NEW d \in Envs PROVE TableInv(d)'
      BY <1>0 DEF RoutesInv, TableInv
    <2> QED BY <1>0, <1>2, <2>1, <2>2, <2>3 DEF RoutesInv
  <1>3. ASSUME run' = [run EXCEPT ![e].at = "observe"]
        PROVE  /\ run'[e].at = "observe" /\ run'[e].kind = run[e].kind
               /\ run'[e].ready = run[e].ready
    BY <1>3 DEF ITypeOK
  <1>4. CASE UNCHANGED backends /\ run' = [run EXCEPT ![e].at = "observe"]
    BY <1>1, <1>2, <1>3, <1>4 DEF RoutesInv, RunInv
  <1>5. CASE /\ ~run[e].ready /\ backends' = [backends EXCEPT ![e] = @ \union {run[e].id}]
             /\ run' = [run EXCEPT ![e].at = "observe"]
    <2>1. backends'[e] = backends[e] \union {run[e].id}
      BY <1>5 DEF ITypeOK
    <2> QED BY <1>1, <1>2, <1>3, <1>5, <2>1 DEF RoutesInv, RunInv
  <1>6. ASSUME run[e].ready, run' = [run EXCEPT ![e].at = "observe"],
               NEW s \in IF run[e].kind = "delete" THEN backends[e]
                         ELSE backends[e] \ {run[e].id},
               backends' = [backends EXCEPT ![e] = @ \ {s}]
        PROVE  RoutesInv'
    <2>1. backends'[e] = backends[e] \ {s}
      BY <1>6 DEF ITypeOK
    <2>2. /\ desired[e] = RouteOf(run[e].id, run[e].kind)
          /\ applied[e] = RouteOf(run[e].id, run[e].kind)
      BY <1>0, <1>1, <1>6 DEF RunInv
    <2>3. RouteOf(run[e].id, run[e].kind) # None =>
            RouteOf(run[e].id, run[e].kind) \in backends'[e]
      BY <1>0, <1>1, <1>6, <2>1 DEF RouteOf, RunInv
    <2> QED BY <1>1, <1>2, <1>3, <1>6, <2>2, <2>3 DEF RunInv
  <1>7. CASE EndRun(e, "succeeded") /\ UNCHANGED backends
    <2>1. run'[e] = NoRun
      BY <1>7 DEF EndRun, ITypeOK
    <2>2. run'[e].at = "idle" /\ run'[e].kind = "plain"
      BY <2>1 DEF NoRun
    <2> QED BY <1>2, <1>7, <2>2 DEF RoutesInv
  <1> QED BY <1>4, <1>5, <1>6, <1>7 DEF Act

\* Every step keeps the routes' invariant.
LEMMA RoutesStep ==
  ASSUME ITypeOK, RoutesInv, Next
  PROVE  RoutesInv'
  <1>1. CASE \E e \in Envs : \/ \E kind \in Kinds : Deploy(e, kind)
                             \/ Retry(e) \/ Operate(e)
    BY <1>1, LoopKeepsRoutes, ApplyKeepsRoutes, ActKeepsRoutes DEF Operate
  <1>2. CASE Refresh \/ Read \/ Acknowledge
    BY <1>2, TablesKeepRoutes
  <1>3. CASE Recover \/ Restore \/ Prepare \/ Switch \/ WriteTable \/ Start \/ Commit
             \/ Clean \/ Configure
    <2>1. /\ pass.at \notin {"idle", "read"}
          /\ pass'.at \notin {"idle", "read", "tunnel", "report"}
          /\ pass'.by = pass.by /\ pass'.table = pass.table /\ pass'.bad = pass.bad
      <3> USE DEF To, ITypeOK
      <3>1. CASE Recover
        BY <3>1 DEF Recover
      <3>2. CASE Restore
        BY <3>2 DEF Restore, RestoreStep
      <3>3. CASE Prepare
        BY <3>3 DEF Prepare
      <3>4. CASE Switch
        BY <3>4 DEF Switch, SwitchStep
      <3>5. CASE WriteTable \/ Start \/ Commit \/ Clean \/ Configure
        BY <3>5 DEF WriteTable, Start, Commit, Clean, Configure
      <3> QED BY <1>3, <3>1, <3>2, <3>3, <3>4, <3>5
    <2>2. UNCHANGED <<desired, applied, run, backends>>
      BY <1>3 DEF Recover, Restore, Prepare, Switch, WriteTable, Start, Commit, Clean,
                  Configure, PassOnly, store
    <2> QED BY <2>1, <2>2, MovingKeepsRoutes
  <1>4. CASE RestoreEnds \/ Ensure \/ Disable \/ CallFails \/ Dropped
    <2>1. UNCHANGED <<desired, applied, backends>> /\ pass.at # "idle"
      BY <1>4 DEF RestoreEnds, Ensure, Disable, CallFails, Dropped, store
    <2>2. CASE Finish(FALSE)
      BY <2>1, <2>2, FailingKeepsRoutes
    <2>3. ASSUME NEW at \in PassSteps \ {"idle", "read", "tunnel", "report"}, To(at),
                 pass.at \notin {"idle", "read"}, UNCHANGED run
          PROVE  RoutesInv'
      BY <2>1, <2>3, ToMoves, TypesByPart, MovingKeepsRoutes
    <2>4. CASE RestoreEnds
      BY <1>4, <2>2, <2>3, <2>4 DEF RestoreEnds, PassSteps
    <2>5. CASE Ensure
      BY <2>2, <2>3, <2>5 DEF Ensure, PassSteps
    <2>6. CASE Disable
      BY <2>2, <2>3, <2>6 DEF Disable, PassSteps
    <2>7. CASE CallFails
      BY <2>2, <2>3, <2>7 DEF CallFails, Switching, PassSteps
    <2>8. CASE Dropped
      BY <2>2, <2>8 DEF Dropped
    <2> QED BY <1>4, <2>4, <2>5, <2>6, <2>7, <2>8
  <1>5. CASE Done
    <2>1. CASE Succeeds
      BY <1>5, <2>1, SucceedingKeepsRoutes
    <2>2. CASE ~Succeeds
      <3>1. Finish(FALSE) /\ UNCHANGED <<desired, applied, backends>> /\ pass.at # "idle"
        BY <1>5, <2>2 DEF Done, Finish, store
      <3> QED BY <3>1, FailingKeepsRoutes
    <2> QED BY <2>1, <2>2
  <1>6. CASE \E s \in Specs, on \in BOOLEAN : Restart(s, on)
    <2>1. /\ UNCHANGED <<desired, applied, backends>> /\ pass'.at = "idle"
          /\ \A e \in Envs : run'[e] = NoRun
      BY <1>6 DEF Restart, Idle, store
    <2>2. ASSUME NEW e \in Envs PROVE RunInv(e)' /\ TableInv(e)'
      BY <2>1 DEF RunInv, TableInv, NoRun
    <2> QED BY <2>1, <2>2 DEF RoutesInv
  <1>7. CASE \E e \in Envs : Break(e) \/ Repair(e)
    BY <1>7 DEF Break, Repair, store, RoutesInv, RunInv, TableInv
  <1> QED BY <1>1, <1>2, <1>3, <1>4, <1>5, <1>6, <1>7 DEF Next, PassStep

-----------------------------------------------------------------------------
(* The configurations.                                                      *)

\* Nothing the configurations' invariant reads changes but where the pass is.
LEMMA StillKnown ==
  ASSUME KnownInv, UNCHANGED <<applied, offered, removed, gateway>>,
         pass'.at \notin {"stop", "away", "write", "start", "clean", "configure", "ack"}
  PROVE  KnownInv'
  BY DEF KnownInv, Known

\* What is known stays known when more is offered.
LEMMA OfferKeepsKnown ==
  ASSUME ITypeOK, Offer, UNCHANGED <<applied, removed>>
  PROVE  \A e \in Envs : Known(e) \subseteq Known(e)' /\ pass.table[e] \in Known(e)'
  BY DEF Offer, Known, ITypeOK

\* The steps of a pass keep the configurations' invariant.
LEMMA PassKeepsKnown ==
  ASSUME ITypeOK, GatewayInv, KnownInv, PassStep
  PROVE  KnownInv'
  <1>0. GatewayTypes /\ pass \in PassRecords
    BY TypesByPart
  <1>1. CASE Read
    <2>1. pass'.at \in {"recover", "disable"} /\ UNCHANGED <<applied, offered, removed, gateway>>
      BY <1>1 DEF Read, store, ITypeOK
    <2> QED BY <2>1, StillKnown
  <1>2. CASE Recover
    <2>1. pass'.at \in {"ensure", "r_remove", "r_start", "r_next"}
          /\ UNCHANGED <<applied, offered, removed>>
      BY <1>2 DEF Recover, To, store, ITypeOK
    <2>2. CASE UNCHANGED gateway
      BY <2>1, <2>2, StillKnown
    <2>3. CASE gateway' = [gateway EXCEPT !.previous = None]
      BY <2>1, <2>3 DEF KnownInv, Known, ITypeOK
    <2> QED BY <1>2, <2>2, <2>3 DEF Recover
  <1>3. CASE Restore
    <2>0. UNCHANGED <<applied, offered, removed>>
      BY <1>3 DEF Restore, store
    <2>1. CASE pass.at = "r_remove"
      BY <1>3, <2>0, <2>1 DEF Restore, RestoreStep, To, KnownInv, Known, ITypeOK
    <2>2. CASE pass.at = "r_config"
      <3>1. gateway.rollback # NoTable /\ gateway.previous # None
        BY <2>2 DEF GatewayInv
      <3> QED BY <1>3, <2>0, <2>2, <3>1 DEF Restore, RestoreStep, To, KnownInv, Known, ITypeOK
    <2>3. CASE pass.at = "r_rename"
      BY <1>3, <2>0, <2>3 DEF Restore, RestoreStep, To, KnownInv, Known, ITypeOK
    <2>4. CASE pass.at = "r_start"
      BY <1>3, <2>0, <2>4 DEF Restore, RestoreStep, To, KnownInv, Known, ITypeOK
    <2> QED BY <1>3, <2>1, <2>2, <2>3, <2>4 DEF Restore, RestoreStep
  <1>4. CASE RestoreEnds \/ Disable \/ Done
    <2>1. /\ UNCHANGED <<applied, offered, removed>>
          /\ gateway'.config = gateway.config /\ gateway'.rollback = gateway.rollback
          /\ gateway'.previous # None => gateway.previous # None
      BY <1>4 DEF RestoreEnds, Disable, Done, store, ITypeOK
    <2>2. pass'.at \in {"idle", "ensure", "withdrawn"}
      BY <1>4, FinishIdles DEF RestoreEnds, Disable, Done, Finish, Idle, To, ITypeOK
    <2> QED BY <2>1, <2>2 DEF KnownInv, Known
  <1>5. CASE Ensure
    <2>0. UNCHANGED <<applied, offered, removed>> /\ gateway.previous = None
      BY <1>5 DEF Ensure, store, GatewayInv
    <2>1. CASE UNCHANGED gateway
      <3>1. pass'.at \in {"configure", "validate", "idle", "write"}
        BY <1>5 DEF Ensure, Finish, Idle, To, ITypeOK
      <3> QED BY <2>0, <2>1, <3>1 DEF KnownInv, Known
    <2>2. CASE gateway' = [gateway EXCEPT !.serving = settings.spec] /\ To("write")
      BY <2>0, <2>2 DEF To, KnownInv, Known, ITypeOK
    <2> QED BY <1>5, <2>1, <2>2 DEF Ensure
  <1>6. CASE Prepare
    <2>0. UNCHANGED <<applied, offered, removed>>
      BY <1>6 DEF Prepare, store
    <2>1. CASE pass.at \in {"validate", "create"}
      BY <1>6, <2>0, <2>1 DEF Prepare, To, KnownInv, Known, ITypeOK
    <2>2. CASE pass.at = "save"
      BY <1>6, <2>0, <2>2 DEF Prepare, KnownInv, Known, ITypeOK
    <2> QED BY <1>6, <2>1, <2>2 DEF Prepare
  <1>7. CASE Switch
    <2>0. UNCHANGED <<applied, offered, removed>>
      BY <1>7 DEF Switch, store
    <2>1. CASE pass.at = "stop"
      BY <1>7, <2>0, <2>1 DEF Switch, SwitchStep, To, KnownInv, Known, ITypeOK
    <2>2. CASE pass.at = "away"
      BY <1>7, <2>0, <2>2 DEF Switch, SwitchStep, To, KnownInv, Known, ITypeOK
    <2>3. CASE pass.at = "in"
      BY <1>7, <2>0, <2>3 DEF Switch, SwitchStep, To, KnownInv, Known, ITypeOK, GatewayInv
    <2> QED BY <1>7, <2>1, <2>2, <2>3 DEF Switch, SwitchStep
  <1>8. CASE WriteTable \/ Configure
    <2>0. \A e \in Envs : Known(e) \subseteq Known(e)' /\ pass.table[e] \in Known(e)'
      BY <1>8, OfferKeepsKnown DEF WriteTable, Configure
    <2>1. /\ gateway' = [gateway EXCEPT !.config = pass.table]
          /\ pass' = [pass EXCEPT !.at = IF pass.at = "write" THEN "start" ELSE "ack"]
          /\ pass.at \in {"write", "configure"}
      BY <1>8 DEF WriteTable, Configure, To
    <2>2. /\ gateway'.config = pass.table /\ gateway'.rollback = gateway.rollback
          /\ gateway'.previous = gateway.previous
          /\ pass'.table = pass.table /\ pass'.cutover = pass.cutover
          /\ pass'.at = IF pass.at = "write" THEN "start" ELSE "ack"
      BY <2>1 DEF ITypeOK
    <2> HIDE DEF Known
    <2>3. \A e \in Envs : gateway'.config[e] \in Known(e)'
      BY <2>0, <2>2
    <2>4. gateway'.rollback # NoTable /\ gateway'.previous # None
            => \A e \in Envs : gateway'.rollback[e] \in Known(e)'
      BY <2>0, <2>2 DEF KnownInv
    <2> QED BY <2>1, <2>2, <2>3, <2>4 DEF KnownInv
  <1>9. CASE Start \/ Commit \/ Clean
    <2>0. UNCHANGED <<applied, offered, removed>>
      BY <1>9 DEF Start, Commit, Clean, store
    <2>1. CASE Start
      BY <2>0, <2>1 DEF Start, To, KnownInv, Known, ITypeOK
    <2>2. CASE Commit
      BY <2>0, <2>2 DEF Commit, KnownInv, Known, ITypeOK
    <2>3. CASE Clean
      BY <2>0, <2>3 DEF Clean, To, KnownInv, Known, ITypeOK
    <2> QED BY <1>9, <2>1, <2>2, <2>3
  <1>10. CASE Acknowledge
    <2>1. /\ applied' = pass.table /\ UNCHANGED gateway
          /\ pass'.at \in {"tunnel", "report"}
      BY <1>10 DEF Acknowledge, To, ITypeOK
    <2>2. CASE pass.at = "ack"
      BY <2>1, <2>2 DEF KnownInv, Known
    <2>3. CASE pass.at = "withdrawn"
      <3>1. ASSUME NEW e \in Envs PROVE Known(e) \subseteq Known(e)'
        BY <1>10, <2>1, <2>3 DEF Acknowledge, Known
      <3> QED BY <2>1, <3>1 DEF KnownInv
    <2> QED BY <1>10, <2>2, <2>3 DEF Acknowledge
  <1> QED BY <1>1, <1>2, <1>3, <1>4, <1>5, <1>6, <1>7, <1>8, <1>9, <1>10 DEF PassStep

\* Every step keeps the configurations' invariant.
LEMMA KnownStep ==
  ASSUME ITypeOK, GatewayInv, KnownInv, Next
  PROVE  KnownInv'
  <1>1. CASE PassStep
    BY <1>1, PassKeepsKnown
  <1>2. CASE CallFails \/ Dropped \/ Refresh
             \/ \E s \in Specs, on \in BOOLEAN : Restart(s, on)
    <2>1. UNCHANGED <<applied, offered, removed, gateway>>
      BY <1>2 DEF CallFails, Dropped, Refresh, Restart, store
    <2>2. pass'.at \in {"idle", "read", "r_remove", "r_next", "r_start"}
      BY <1>2 DEF CallFails, Dropped, Refresh, Restart, Finish, Idle, To, ITypeOK
    <2> QED BY <2>1, <2>2, StillKnown
  <1>3. CASE \E e \in Envs : \/ \E kind \in Kinds : Deploy(e, kind)
                             \/ Retry(e) \/ Operate(e) \/ Break(e) \/ Repair(e)
    <2>1. UNCHANGED <<applied, offered, removed, gateway>>
      BY <1>3 DEF Deploy, Retry, Operate, Claim, Observe, SkipRoutes, Apply, Act, Break, Repair,
                  store
    <2>2. CASE UNCHANGED pass
      BY <2>1, <2>2 DEF KnownInv, Known
    <2>3. CASE pass'.at = "read"
      BY <2>1, <2>3, StillKnown
    <2> QED BY <1>3, <2>2, <2>3
        DEF Deploy, Retry, Operate, Claim, Observe, SkipRoutes, Apply, Act, Break, Repair, Idle
  <1> QED BY <1>1, <1>2, <1>3 DEF Next

\* The types and the three invariants hold in every reachable state.
THEOREM IngressInvariant == Spec => [](ITypeOK /\ GatewayInv /\ RoutesInv /\ KnownInv)
  <1> DEFINE Inv == ITypeOK /\ GatewayInv /\ RoutesInv /\ KnownInv
  <1>1. Init => Inv
    BY InitInv
  <1>2. Inv /\ [Next]_vars => Inv'
    <2> SUFFICES ASSUME Inv, [Next]_vars PROVE Inv'
      OBVIOUS
    <2>1. CASE Next
      BY <2>1, TypesAndGatewayStep, RoutesStep, KnownStep
    <2>2. CASE UNCHANGED vars
      <3>1. ITypeOK'
        BY <2>2 DEF vars, ITypeOK
      <3>2. GatewayInv'
        BY <2>2 DEF vars, GatewayInv
      <3>3. RoutesInv'
        BY <2>2 DEF vars, RoutesInv, RunInv, TableInv
      <3>4. KnownInv'
        BY <2>2 DEF vars, KnownInv, Known
      <3> QED BY <3>1, <3>2, <3>3, <3>4
    <2> QED BY <2>1, <2>2
  <1> QED BY <1>1, <1>2, PTL DEF Spec

\* Every variable of ingress keeps its type; a running gateway has a container.
THEOREM IngressTypeOK == Spec => []ITypeOK
  BY IngressInvariant, PTL

\* The service behind an acknowledged route is never removed.
THEOREM AcknowledgedBackends == Spec => []AcknowledgedBackendsExist
  <1>1. RoutesInv => AcknowledgedBackendsExist
    BY DEF RoutesInv, AcknowledgedBackendsExist
  <1> QED BY <1>1, IngressInvariant, PTL

\* An unfinished replacement can always be told from a committed one.
THEOREM UnfinishedRestorable == Spec => []UnfinishedIsRestorable
  <1>1. GatewayInv => UnfinishedIsRestorable
    BY DEF GatewayInv, UnfinishedIsRestorable
  <1> QED BY <1>1, IngressInvariant, PTL

\* A rollback never brings back routes that the gateway replaced since.
THEOREM ServedKnown == Spec => []ServedIsKnown
  <1>1. KnownInv => ServedIsKnown
    BY DEF KnownInv, Known, ServedIsKnown
  <1> QED BY <1>1, IngressInvariant, PTL

==============================================================================
