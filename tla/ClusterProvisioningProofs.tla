----------------------- MODULE ClusterProvisioningProofs -----------------------
(***************************************************************************)
(* For any number of builds, node groups, requests and rolled back         *)
(* transactions: what is reviewed is what is applied, an apply removes     *)
(* nothing but a recorded legacy group, and what becomes active exists.    *)
(* For any number of connectors and reports too: a bootstrap is completed, *)
(* or failed, by its own connector only.                                   *)
(***************************************************************************)
EXTENDS ConnectorBootstrap, TLAPS

-----------------------------------------------------------------------------
(* The inductive invariant. *)

\* The execution a row names has been started.
Started(row) == row.execution \in Build => builds[row.execution].state # "unused"

\* A row that is planning has recorded the key of the plan it waits for.
AwaitsPlan(row) ==
  /\ row.execution \in Build
  /\ row.plan.key = row.execution
  /\ builds[row.execution].mode = "plan"

RowsStarted == Started(cluster) /\ \A r \in Request : Started(request[r])

PlanningRows ==
  /\ cluster.status = "PLAN_RUNNING" => AwaitsPlan(cluster)
  /\ \A r \in Request : request[r].status = "PLAN_RUNNING" =>
       AwaitsPlan(request[r]) /\ r \in builds[request[r].execution].config.managed

\* A verdict belongs to a plan that has succeeded, and is final.
VerdictsFinal ==
  \A b \in Build : builds[b].certified # "NONE" =>
    builds[b].mode = "plan" /\ builds[b].state = "succeeded"

\* A plan that can still be applied removes what its scan allowed.
FreshPlansPass ==
  \A b \in Build : builds[b].fresh /\ builds[b].certified = "PASSED" => ScanPasses(b)

Inv ==
  /\ TypeOK
  /\ RowsStarted
  /\ PlanningRows
  /\ VerdictsFinal
  /\ FreshPlansPass
  /\ ReadyMatchesPlan
  /\ AppliesCertifiedPlans

\* What no step does to a build that has started.
Kept(a) ==
  /\ builds'[a].mode = builds[a].mode
  /\ builds'[a].config = builds[a].config
  /\ builds'[a].artefact = builds[a].artefact
  /\ builds'[a].state # "unused"
  /\ builds[a].state # "running" =>
       builds'[a].state = builds[a].state /\ builds'[a].certified = builds[a].certified

-----------------------------------------------------------------------------
(* The runner's steps. *)

LEMMA NoBuildFresh == NoBuild \notin Build
BY RunnerAssumption DEF NoBuild

\* The builds after one of them has changed the infrastructure, or tried to.
LEMMA EndedEffect ==
  ASSUME NEW b \in Build, NEW state \in {"succeeded", "failed"},
         RunnerTypeOK, builds[b].state = "running", builds' = Ended(b, state)
  PROVE  /\ builds' \in [Build -> BuildRow]
         /\ \A a \in Build : builds[a].state # "unused" => Kept(a)
         /\ \A a \in Build : builds'[a].state = IF a = b THEN state ELSE builds[a].state
         /\ \A a \in Build : builds'[a].certified = builds[a].certified
         /\ \A a \in Build : builds'[a].fresh => builds[a].fresh /\ infra' = infra
<1>1. \A c \in Build : builds[c] \in BuildRow
  BY DEF RunnerTypeOK
<1>2. \A c \in Build :
        builds'[c] = [builds[c] EXCEPT !.state = IF c = b THEN state ELSE builds[c].state,
                                       !.fresh = builds[c].fresh /\ infra' = infra]
  <2> TAKE c \in Build
  <2> QED
    BY <1>1 DEF Ended, BuildRow
<1>3. \A c \in Build :
        /\ builds'[c] \in BuildRow
        /\ builds'[c].mode = builds[c].mode /\ builds'[c].config = builds[c].config
        /\ builds'[c].artefact = builds[c].artefact /\ builds'[c].certified = builds[c].certified
        /\ builds'[c].state = IF c = b THEN state ELSE builds[c].state
        /\ builds'[c].fresh => builds[c].fresh /\ infra' = infra
  <2> TAKE c \in Build
  <2> DEFINE fresh == builds[c].fresh /\ infra' = infra
  <2> DEFINE end == IF c = b THEN state ELSE builds[c].state
  <2>1. builds[c] \in BuildRow /\ fresh \in BOOLEAN
    BY <1>1
  <2>2. end \in {"unused", "running", "succeeded", "failed"}
    BY <2>1 DEF BuildRow
  <2>3. builds'[c] = [builds[c] EXCEPT !.state = end, !.fresh = fresh]
    BY <1>2
  <2>4. end = IF c = b THEN state ELSE builds[c].state
    OBVIOUS
  <2>5. fresh => builds[c].fresh /\ infra' = infra
    OBVIOUS
  <2> HIDE DEF fresh, end
  <2>6. /\ builds'[c] \in BuildRow /\ builds'[c].state = end
        /\ builds'[c].mode = builds[c].mode /\ builds'[c].config = builds[c].config
        /\ builds'[c].artefact = builds[c].artefact
        /\ builds'[c].certified = builds[c].certified /\ builds'[c].fresh = fresh
    BY <2>1, <2>2, <2>3 DEF BuildRow
  <2> QED
    BY <2>4, <2>5, <2>6
<1>4. builds' \in [Build -> BuildRow]
  <2>1. builds' = [c \in Build |-> builds'[c]]
    BY DEF Ended
  <2> QED
    BY ONLY <1>3, <2>1
<1> QED
  BY <1>3, <1>4 DEF Kept

\* Each step of a build ends it; only a plan that succeeds is given a verdict.
LEMMA RunEffect ==
  ASSUME NEW b \in Build, RunnerTypeOK, Run(b)
  PROVE  /\ RunnerTypeOK'
         /\ builds[b].state = "running"
         /\ \A a \in Build : builds[a].state # "unused" => Kept(a)
         /\ \A a \in Build : builds[a].state = "unused" => builds'[a].state = "unused"
         /\ \A a \in Build : builds'[a].certified = builds[a].certified
              \/ (a = b /\ builds[b].mode = "plan" /\ builds'[b].state = "succeeded")
<1>1. CASE PlanSucceeds(b)
  <2>1. PICK verdict \in {"PASSED", "FAILED"} :
          builds' = [builds EXCEPT ![b] = [builds[b] EXCEPT !.state = "succeeded",
                                              !.certified = verdict, !.fresh = TRUE]]
    BY <1>1 DEF PlanSucceeds, RunnerTypeOK, BuildRow
  <2>2. builds[b] \in BuildRow /\ builds[b].state = "running" /\ builds[b].mode = "plan"
    BY <1>1 DEF PlanSucceeds, Running, RunnerTypeOK
  <2>3. /\ builds'[b] \in BuildRow
        /\ builds'[b].mode = builds[b].mode /\ builds'[b].config = builds[b].config
        /\ builds'[b].artefact = builds[b].artefact /\ builds'[b].state = "succeeded"
    BY <2>1, <2>2 DEF RunnerTypeOK, BuildRow, Certification
  <2>4. \A a \in Build : a # b => builds'[a] = builds[a]
    BY <2>1 DEF RunnerTypeOK
  <2>5. RunnerTypeOK'
    BY <1>1, <2>1, <2>3 DEF PlanSucceeds, RunnerTypeOK
  <2> QED
    BY <2>2, <2>3, <2>4, <2>5 DEF Kept
<1>2. CASE ApplySucceeds(b)
  <2>1. Planned(b) \subseteq Group
    BY <1>2 DEF ApplySucceeds, Applicable, Planned, RunnerTypeOK, BuildRow, Artefact, Config
  <2>2. infra' \in [exists: BOOLEAN, groups: SUBSET Group]
    BY <1>2, <2>1 DEF ApplySucceeds
  <2>3. builds[b].state = "running" /\ builds' = Ended(b, "succeeded")
    BY <1>2 DEF ApplySucceeds, Running
  <2> QED
    BY <2>2, <2>3, EndedEffect DEF RunnerTypeOK
<1>3. CASE ApplyBreaks(b)
  <2>1. Planned(b) \subseteq Group
    BY <1>3 DEF ApplyBreaks, Applicable, Planned, RunnerTypeOK, BuildRow, Artefact, Config
  <2>2. infra' \in [exists: BOOLEAN, groups: SUBSET Group]
    BY <1>3, <2>1 DEF ApplyBreaks, RunnerTypeOK
  <2>3. builds[b].state = "running" /\ builds' = Ended(b, "failed")
    BY <1>3 DEF ApplyBreaks, Running
  <2> QED
    BY <2>2, <2>3, EndedEffect DEF RunnerTypeOK
<1>4. CASE ScaleSucceeds(b)
  <2>1. builds[b].state = "running" /\ infra' = infra
        /\ builds' = [builds EXCEPT ![b] = [builds[b] EXCEPT !.state = "succeeded"]]
    BY <1>4 DEF ScaleSucceeds, Running, RunnerTypeOK, BuildRow
  <2> QED
    BY <2>1 DEF RunnerTypeOK, BuildRow, Kept
<1>5. CASE DestroySucceeds(b)
  <2>1. /\ builds[b].state = "running" /\ builds' = Ended(b, "succeeded")
        /\ infra' \in [exists: BOOLEAN, groups: SUBSET Group]
    BY <1>5 DEF DestroySucceeds, Running
  <2> QED
    BY <2>1, EndedEffect DEF RunnerTypeOK
<1>6. CASE DestroyBreaks(b)
  <2>1. /\ builds[b].state = "running" /\ builds' = Ended(b, "failed")
        /\ infra' \in [exists: BOOLEAN, groups: SUBSET Group]
    BY <1>6 DEF DestroyBreaks, Running, RunnerTypeOK
  <2> QED
    BY <2>1, EndedEffect DEF RunnerTypeOK
<1>7. CASE Fails(b)
  <2>1. builds[b].state = "running" /\ infra' = infra
        /\ builds' = [builds EXCEPT ![b] = [builds[b] EXCEPT !.state = "failed"]]
    BY <1>7 DEF Fails, Running, RunnerTypeOK, BuildRow
  <2> QED
    BY <2>1 DEF RunnerTypeOK, BuildRow, Kept
<1> QED
  BY <1>1, <1>2, <1>3, <1>4, <1>5, <1>6, <1>7 DEF Run, RunnerNext

\* A run keeps the plans that can still be applied within what was scanned.
LEMMA RunFresh ==
  ASSUME NEW b \in Build, Inv, Run(b)
  PROVE  FreshPlansPass'
<1>1. \A a \in Build : builds[a].state # "unused" => Kept(a)
  BY RunEffect DEF Inv, TypeOK
<1>2. CASE PlanSucceeds(b)
  <2>1. PICK verdict \in {"PASSED", "FAILED"} :
          /\ verdict = "PASSED" => ScanPasses(b)
          /\ builds' = [builds EXCEPT ![b] = [builds[b] EXCEPT !.state = "succeeded",
                                              !.certified = verdict, !.fresh = TRUE]]
    BY <1>2 DEF PlanSucceeds, Inv, TypeOK, RunnerTypeOK, BuildRow
  <2>2. infra' = infra /\ builds[b].state = "running"
    BY <1>2 DEF PlanSucceeds, Running
  <2>3. builds'[b].certified = verdict /\ \A a \in Build : a # b => builds'[a] = builds[a]
    BY <2>1 DEF Inv, TypeOK, RunnerTypeOK, BuildRow
  <2> QED
    BY <1>1, <2>1, <2>2, <2>3 DEF Inv, FreshPlansPass, ScanPasses, Destroyed, Kept
<1>3. CASE ~PlanSucceeds(b)
  <2>1. \A a \in Build : builds'[a].certified = builds[a].certified
                          /\ (builds'[a].fresh => builds[a].fresh /\ infra' = infra)
    <3>1. CASE \E state \in {"succeeded", "failed"} : builds' = Ended(b, state)
      BY <3>1, EndedEffect, RunEffect DEF Inv, TypeOK
    <3>2. CASE infra' = infra /\ \E state \in {"succeeded", "failed"} :
                 builds' = [builds EXCEPT ![b].state = state]
      BY <3>2 DEF Inv, TypeOK, RunnerTypeOK, BuildRow
    <3> QED
      BY <1>3, <3>1, <3>2 DEF Run, RunnerNext, ApplySucceeds, ApplyBreaks, ScaleSucceeds,
         DestroySucceeds, DestroyBreaks, Fails
  <2>2. \A a \in Build : builds[a].certified = "PASSED" => builds'[a].config = builds[a].config
    BY <1>1 DEF Inv, VerdictsFinal, Kept
  <2> QED
    BY <2>1, <2>2 DEF Inv, FreshPlansPass, ScanPasses, Destroyed
<1> QED
  BY <1>2, <1>3

LEMMA RunInv ==
  ASSUME NEW b \in Build, Inv, Run(b)
  PROVE  Inv'
<1>1. /\ RunnerTypeOK'
      /\ \A a \in Build : builds[a].state # "unused" => Kept(a)
      /\ \A a \in Build : builds[a].state = "unused" => builds'[a].state = "unused"
      /\ \A a \in Build : builds'[a].certified = builds[a].certified
           \/ (a = b /\ builds[b].mode = "plan" /\ builds'[b].state = "succeeded")
  BY RunEffect DEF Inv, TypeOK
<1>2. builds[b].state = "running"
  BY RunEffect DEF Inv, TypeOK
<1>3. UNCHANGED <<cluster, request, rollbacks>>
  BY DEF Run
<1>4. TypeOK'
  BY <1>1, <1>3 DEF Inv, TypeOK
<1>5. RowsStarted'
  BY <1>1, <1>3 DEF Inv, RowsStarted, Started, Kept
<1>6. PlanningRows'
  BY <1>1, <1>3 DEF Inv, PlanningRows, AwaitsPlan, RowsStarted, Started, Kept
<1>7. VerdictsFinal'
  BY <1>1, <1>2 DEF Inv, VerdictsFinal, Kept
<1>8. ReadyMatchesPlan'
  BY <1>1, <1>3 DEF Inv, ReadyMatchesPlan, HoldsPlan, Kept
<1>9. AppliesCertifiedPlans'
  BY <1>1 DEF Inv, AppliesCertifiedPlans, VerdictsFinal, Kept
<1> QED
  BY <1>4, <1>5, <1>6, <1>7, <1>8, <1>9, RunFresh DEF Inv

-----------------------------------------------------------------------------
(* Starting a build. *)

\* The row old becomes new when build b is started in the given mode.
Begins(old, new, b, mode) ==
  new = old \/ ( /\ new.execution = b
                 /\ new.status # "PLAN_READY"
                 /\ new.status = "PLAN_RUNNING" => mode = "plan" /\ new.plan.key = b )

\* An artefact that may be applied.
Approved(artefact) ==
  /\ artefact.key \in Build /\ artefact.sha = artefact.key
  /\ builds[artefact.key].mode = "plan" /\ builds[artefact.key].certified = "PASSED"

LEMMA StartInv ==
  ASSUME NEW b \in Build, NEW mode \in Mode, NEW config \in Config, NEW artefact \in Artefact,
         NEW c \in ClusterRow, NEW q \in [Request -> RequestRow],
         Inv, Start(b, mode, config, artefact, c, q),
         mode = "apply" => Approved(artefact),
         Begins(cluster, c, b, mode),
         \A r \in Request : Begins(request[r], q[r], b, mode),
         \A r \in Request : q[r] # request[r] => r \in config.managed
  PROVE  Inv'
<1>1. /\ builds[b].state = "unused" /\ infra' = infra
      /\ builds' = [builds EXCEPT ![b] = NewBuild(mode, config, artefact)]
  BY DEF Start, IsNext
<1>2. NewBuild(mode, config, artefact) \in BuildRow
  BY DEF NewBuild, BuildRow, Certification
<1>3. /\ builds'[b].state = "running" /\ builds'[b].mode = mode
      /\ builds'[b].config = config /\ builds'[b].artefact = artefact
      /\ builds'[b].certified = "NONE" /\ builds'[b].fresh = FALSE
  BY <1>1 DEF NewBuild, Inv, TypeOK, RunnerTypeOK
<1>4. \A a \in Build : a # b => builds'[a] = builds[a]
  BY <1>1 DEF Inv, TypeOK, RunnerTypeOK
<1>5. cluster' \in ClusterRow /\ Begins(cluster, cluster', b, mode)
  BY DEF Start, Begins, Inv, TypeOK
<1>6. /\ request' \in [Request -> RequestRow]
      /\ \A r \in Request : Begins(request[r], request'[r], b, mode)
      /\ \A r \in Request : request'[r] # request[r] => r \in config.managed
  BY DEF Start, Begins, Inv, TypeOK
<1>7. TypeOK'
  <2>1. rollbacks' \in 0 .. MaxRollbacks
    BY ProvisioningAssumption DEF Start, Inv, TypeOK
  <2>2. RunnerTypeOK'
    BY <1>1, <1>2 DEF Inv, TypeOK, RunnerTypeOK
  <2> QED
    BY <1>5, <1>6, <2>1, <2>2 DEF TypeOK
<1>8. RowsStarted'
  BY <1>3, <1>4, <1>5, <1>6 DEF Inv, RowsStarted, Started, Begins
<1>9. PlanningRows'
  BY <1>1, <1>3, <1>4, <1>5, <1>6 DEF Inv, RowsStarted, Started, PlanningRows, AwaitsPlan, Begins
<1>10. VerdictsFinal'
  BY <1>3, <1>4 DEF Inv, VerdictsFinal
<1>11. FreshPlansPass'
  BY <1>1, <1>3, <1>4 DEF Inv, FreshPlansPass, ScanPasses, Destroyed
<1>12. ReadyMatchesPlan'
  BY <1>1, <1>3, <1>4, <1>5, <1>6 DEF Inv, ReadyMatchesPlan, HoldsPlan, Begins
<1>13. AppliesCertifiedPlans'
  <2>1. \A a \in Build : builds[a].certified # "NONE" => a # b
    BY <1>1 DEF Inv, VerdictsFinal
  <2> QED
    BY <1>3, <1>4, <2>1 DEF Inv, AppliesCertifiedPlans, Approved
<1> QED
  BY <1>7, <1>8, <1>9, <1>10, <1>11, <1>12, <1>13 DEF Inv

-----------------------------------------------------------------------------
(* The operations of the cluster. *)

LEMMA ReconciledConfig ==
  ASSUME TypeOK
  PROVE  Reconciled \in Config
BY ProvisioningAssumption DEF TypeOK, ClusterRow, Config, Reconciled, ActiveRequests

\* The rows the operations write.
LEMMA PlanningClusterRow ==
  ASSUME cluster \in ClusterRow, NEW b \in Build, NEW config \in Config, NEW migrating \in BOOLEAN
  PROVE  LET row == PlanningCluster(b, config, migrating)
         IN  /\ row \in ClusterRow /\ row.execution = b
             /\ row.status = "PLAN_RUNNING" /\ row.plan.key = b
<1>1. Executing(cluster, b, "PLAN_RUNNING") \in ClusterRow
      /\ Executing(cluster, b, "PLAN_RUNNING").execution = b
      /\ Executing(cluster, b, "PLAN_RUNNING").status = "PLAN_RUNNING"
  BY DEF Executing, ClusterRow, ClusterStatus
<1>2. [key |-> b, sha |-> NoBuild] \in Artefact
  BY DEF Artefact
<1>3. /\ Planning(cluster, b) \in ClusterRow /\ Planning(cluster, b).execution = b
      /\ Planning(cluster, b).status = "PLAN_RUNNING" /\ Planning(cluster, b).plan.key = b
  BY <1>1, <1>2 DEF Planning, ClusterRow
<1> QED
  BY <1>3 DEF PlanningCluster, ClusterRow

LEMMA ExecutingClusterRow ==
  ASSUME cluster \in ClusterRow, NEW b \in Build, NEW status \in ClusterStatus
  PROVE  LET row == ExecutingCluster(b, status)
         IN  row \in ClusterRow /\ row.execution = b /\ row.status = status
<1>1. Executing(cluster, b, status) \in ClusterRow
      /\ Executing(cluster, b, status).execution = b
      /\ Executing(cluster, b, status).status = status
  BY DEF Executing, ClusterRow
<1> QED
  BY <1>1 DEF ExecutingCluster, ClusterRow

\* An operation of the cluster that makes a plan.
LEMMA PlanInv ==
  ASSUME NEW b \in Build, NEW config \in Config, NEW migrating \in BOOLEAN, Inv,
         Start(b, "plan", config, cluster.plan, PlanningCluster(b, config, migrating), request)
  PROVE  Inv'
<1> DEFINE row == PlanningCluster(b, config, migrating)
<1>1. cluster \in ClusterRow /\ cluster.plan \in Artefact /\ request \in [Request -> RequestRow]
  BY DEF Inv, TypeOK, ClusterRow
<1>2. row \in ClusterRow /\ row.execution = b /\ row.status = "PLAN_RUNNING" /\ row.plan.key = b
  BY <1>1, PlanningClusterRow
<1>3. Begins(cluster, row, b, "plan") /\ \A r \in Request : Begins(request[r], request[r], b, "plan")
  BY <1>2 DEF Begins
<1> QED
  BY <1>1, <1>2, <1>3, StartInv DEF Mode

\* An operation that runs with the configuration and the plan of the cluster.
LEMMA ExecuteInv ==
  ASSUME NEW b \in Build, NEW mode \in Mode, NEW status \in ClusterStatus, Inv,
         status \notin {"PLAN_RUNNING", "PLAN_READY"}, mode = "apply" => Approved(cluster.plan),
         Start(b, mode, cluster.config, cluster.plan, ExecutingCluster(b, status), request)
  PROVE  Inv'
<1> DEFINE row == ExecutingCluster(b, status)
<1>1. /\ cluster \in ClusterRow /\ cluster.plan \in Artefact /\ cluster.config \in Config
      /\ request \in [Request -> RequestRow]
  BY DEF Inv, TypeOK, ClusterRow
<1>2. row \in ClusterRow /\ row.execution = b /\ row.status = status
  BY <1>1, ExecutingClusterRow
<1>3. Begins(cluster, row, b, mode) /\ \A r \in Request : Begins(request[r], request[r], b, mode)
  BY <1>2 DEF Begins
<1> QED
  BY <1>1, <1>2, <1>3, StartInv

LEMMA ClusterOperationInv ==
  ASSUME NEW b \in Build, Inv,
         \/ ChangePlan(b) \/ ChangeApply(b) \/ ChangeStop(b) \/ ChangeStart(b) \/ ChangeDelete(b)
         \/ \E g \in Group : MigrateSystemNodeGroup(b, g)
  PROVE  Inv'
<1>1. CASE ChangePlan(b)
  <2>1. PICK config \in Config :
          Start(b, "plan", config, cluster.plan, PlanningCluster(b, config, FALSE), request)
    BY <1>1, ReconciledConfig DEF ChangePlan, Inv, TypeOK, ClusterRow
  <2> QED
    BY <2>1, PlanInv
<1>2. CASE ChangeApply(b)
  <2>1. Approved(cluster.plan)
    BY <1>2 DEF ChangeApply, Inv, ReadyMatchesPlan, HoldsPlan, Approved
  <2> QED
    BY <1>2, <2>1, ExecuteInv DEF ChangeApply, Mode, ClusterStatus
<1>3. CASE ChangeStop(b) \/ ChangeStart(b) \/ ChangeDelete(b)
  BY <1>3, ExecuteInv DEF ChangeStop, ChangeStart, ChangeDelete, Operate, Mode, ClusterStatus
<1>4. ASSUME NEW g \in Group, MigrateSystemNodeGroup(b, g)
      PROVE  Inv'
  <2>1. PICK legacy \in SystemGroups(cluster.config) \cap Names(cluster.config) :
          LET config == [managed |-> Reconciled.managed \ {legacy}, adopted |-> {g},
                         legacy |-> legacy]
          IN  Start(b, "plan", config, cluster.plan, PlanningCluster(b, config, TRUE), request)
    BY <1>4 DEF MigrateSystemNodeGroup
  <2> DEFINE config == [managed |-> Reconciled.managed \ {legacy}, adopted |-> {g},
                        legacy |-> legacy]
  <2>2. legacy \in Group
    BY DEF Names, Inv, TypeOK, ClusterRow, Config
  <2>3. config \in Config
    BY <2>2, ReconciledConfig DEF Inv, Config
  <2> QED
    BY <2>1, <2>3, PlanInv
<1> QED
  BY <1>1, <1>2, <1>3, <1>4

-----------------------------------------------------------------------------
(* The operations of node-group requests. *)

LEMMA WithConfig ==
  ASSUME TypeOK, NEW r \in Request
  PROVE  With(r) \in Config /\ r \in With(r).managed
BY ProvisioningAssumption DEF TypeOK, ClusterRow, Config, With

LEMMA PlanningRequestRow ==
  ASSUME NEW row \in RequestRow, NEW b \in Build
  PROVE  /\ Planning(row, b) \in RequestRow /\ Planning(row, b).execution = b
         /\ Planning(row, b).status = "PLAN_RUNNING" /\ Planning(row, b).plan.key = b
<1>1. Executing(row, b, "PLAN_RUNNING") \in RequestRow
      /\ Executing(row, b, "PLAN_RUNNING").execution = b
      /\ Executing(row, b, "PLAN_RUNNING").status = "PLAN_RUNNING"
  BY DEF Executing, RequestRow, RequestStatus
<1>2. [key |-> b, sha |-> NoBuild] \in Artefact
  BY DEF Artefact
<1> QED
  BY <1>1, <1>2 DEF Planning, RequestRow

\* A build of request r, whose row becomes new.
LEMMA RequestStartInv ==
  ASSUME NEW b \in Build, NEW mode \in Mode, NEW r \in Request, NEW new \in RequestRow, Inv,
         mode = "apply" => Approved(request[r].plan),
         Begins(request[r], new, b, mode),
         Start(b, mode, With(r), request[r].plan, cluster, [request EXCEPT ![r] = new])
  PROVE  Inv'
<1> DEFINE q == [request EXCEPT ![r] = new]
<1>1. /\ cluster \in ClusterRow /\ q \in [Request -> RequestRow]
      /\ request[r].plan \in Artefact
  BY DEF Inv, TypeOK, RequestRow
<1>2. Begins(cluster, cluster, b, mode)
  BY DEF Begins
<1>3. /\ \A x \in Request : Begins(request[x], q[x], b, mode)
      /\ \A x \in Request : q[x] # request[x] => x \in With(r).managed
  BY WithConfig DEF Begins, Inv, TypeOK
<1>4. With(r) \in Config
  BY WithConfig DEF Inv
<1> QED
  BY <1>1, <1>2, <1>3, <1>4, StartInv

LEMMA RequestOperationInv ==
  ASSUME NEW b \in Build, NEW r \in Request, Inv,
         ApproveRequest(r, b) \/ ApplyRequest(r, b) \/ RetryRequest(r, b)
  PROVE  Inv'
<1>1. request[r] \in RequestRow
  BY DEF Inv, TypeOK
<1>2. CASE ApproveRequest(r, b)
  <2>1. Start(b, "plan", With(r), request[r].plan, cluster,
              [request EXCEPT ![r] = Planning(request[r], b)])
    BY <1>2 DEF ApproveRequest, Inv, TypeOK
  <2>2. Begins(request[r], Planning(request[r], b), b, "plan")
    BY <1>1, PlanningRequestRow DEF Begins
  <2> QED
    BY <1>1, <2>1, <2>2, PlanningRequestRow, RequestStartInv DEF Mode
<1>3. CASE ApplyRequest(r, b)
  <2> DEFINE new == Executing(request[r], b, "APPLYING")
  <2>1. Start(b, "apply", With(r), request[r].plan, cluster, [request EXCEPT ![r] = new])
    BY <1>3 DEF ApplyRequest, Inv, TypeOK
  <2>2. new \in RequestRow /\ new.execution = b /\ new.status = "APPLYING"
    BY <1>1 DEF Executing, RequestRow, RequestStatus
  <2>3. Begins(request[r], new, b, "apply")
    BY <2>2 DEF Begins
  <2>4. Approved(request[r].plan)
    <3>1. request[r].certified = "PASSED" /\ HoldsPlan(request[r])
      BY <1>3 DEF ApplyRequest, Inv, ReadyMatchesPlan
    <3> QED
      BY <3>1 DEF HoldsPlan, Approved
  <2> QED
    BY <2>1, <2>2, <2>3, <2>4, RequestStartInv DEF Mode
<1>4. CASE RetryRequest(r, b)
  <2> DEFINE new == [Planning(request[r], b) EXCEPT !.certified = "NONE"]
  <2>1. Start(b, "plan", With(r), request[r].plan, cluster, [request EXCEPT ![r] = new])
    BY <1>4 DEF RetryRequest, Inv, TypeOK
  <2>2. /\ new \in RequestRow /\ new.execution = b /\ new.status = "PLAN_RUNNING"
        /\ new.plan.key = b
    BY <1>1, PlanningRequestRow DEF RequestRow, Certification
  <2>3. Begins(request[r], new, b, "plan")
    BY <2>2 DEF Begins
  <2> QED
    BY <2>1, <2>2, <2>3, RequestStartInv DEF Mode
<1> QED
  BY <1>2, <1>3, <1>4

-----------------------------------------------------------------------------
(* Steps that start nothing. *)

\* The row old becomes new, of the same execution: planning as before, or no
\* longer planning.
Moves(old, new) ==
  /\ new.execution = old.execution
  /\ new.status = "PLAN_RUNNING" => old.status = "PLAN_RUNNING" /\ new.plan = old.plan
  /\ new.status = "PLAN_READY" => HoldsPlan(new)

LEMMA RowsInv ==
  ASSUME Inv, UNCHANGED <<builds, infra, rollbacks>>,
         NEW c \in ClusterRow, cluster' = c, c = cluster \/ Moves(cluster, c),
         NEW q \in [Request -> RequestRow], request' = q,
         \A r \in Request : \/ q[r] = request[r]
                            \/ /\ Moves(request[r], q[r])
                               /\ q[r].status = "PLAN_READY" =>
                                    r \in builds[q[r].execution].config.managed
  PROVE  Inv'
<1>1. TypeOK'
  BY DEF Inv, TypeOK, RunnerTypeOK
<1>2. RowsStarted'
  BY DEF Inv, RowsStarted, Started, Moves
<1>3. PlanningRows'
  BY DEF Inv, PlanningRows, AwaitsPlan, Moves
<1>4. VerdictsFinal' /\ FreshPlansPass' /\ AppliesCertifiedPlans'
  BY DEF Inv, VerdictsFinal, FreshPlansPass, ScanPasses, Destroyed, AppliesCertifiedPlans
<1>5. ReadyMatchesPlan'
  BY DEF Inv, ReadyMatchesPlan, HoldsPlan, Moves
<1> QED
  BY <1>1, <1>2, <1>3, <1>4, <1>5 DEF Inv

LEMMA ClusterCallbackInv == ASSUME NEW b \in Build, Inv, ClusterCallback(b) PROVE Inv'
<1>1. PICK ok \in Ends(b), target \in Targets :
        cluster' = [Completed(cluster, b, ok, target) EXCEPT !.migrating = FALSE]
  BY DEF ClusterCallback
<1>2. /\ cluster \in ClusterRow /\ cluster.execution = b /\ cluster.status \in ClusterRunning
      /\ target \in ClusterStatus \ {"PLAN_RUNNING", "PLAN_READY"} \/ cluster.status = "PLAN_RUNNING"
      /\ ok => builds[b].state = "succeeded"
      /\ cluster.status = "PLAN_RUNNING" => cluster.plan.key = b /\ builds[b].mode = "plan"
      /\ builds[b] \in BuildRow /\ target \in ClusterStatus
  BY <1>1 DEF ClusterCallback, Executes, Targets, Ends, ClusterRunning, ClusterStatus,
     Inv, TypeOK, RunnerTypeOK, PlanningRows, AwaitsPlan
<1> DEFINE row == Completed(cluster, b, ok, target)
<1>3. /\ row \in ClusterRow /\ row.execution = b /\ row.status # "PLAN_RUNNING"
      /\ row.status = "PLAN_READY" =>
           /\ row.plan = [key |-> b, sha |-> b] /\ row.certified = builds[b].certified
           /\ builds[b].mode = "plan" /\ builds[b].state = "succeeded"
  <2>1. CASE ~ok
    BY <1>2, <2>1 DEF Completed, ClusterRow, ClusterStatus
  <2>2. CASE ok /\ cluster.status = "PLAN_RUNNING"
    <3>1. cluster.plan = [key |-> b, sha |-> cluster.plan.sha]
      BY <1>2, <2>2 DEF ClusterRow, Artefact
    <3>2. row = [status |-> "PLAN_READY", execution |-> b, plan |-> [key |-> b, sha |-> b],
                 certified |-> builds[b].certified, config |-> cluster.config,
                 migrating |-> cluster.migrating]
      BY <1>2, <2>2, <3>1 DEF Completed, ClusterRow
    <3> HIDE DEF row
    <3>3. [key |-> b, sha |-> b] \in Artefact
      BY DEF Artefact
    <3> QED
      BY <1>2, <2>2, <3>2, <3>3 DEF ClusterRow, ClusterStatus, BuildRow
  <2>3. CASE ok /\ cluster.status # "PLAN_RUNNING"
    BY <1>2, <2>3 DEF Completed, ClusterRow
  <2> QED
    BY <2>1, <2>2, <2>3
<1> HIDE DEF row
<1>4. PICK c : c = [row EXCEPT !.migrating = FALSE]
  OBVIOUS
<1>5. /\ c \in ClusterRow /\ c.execution = b /\ c.status = row.status /\ c.plan = row.plan
      /\ c.certified = row.certified
  BY <1>3, <1>4 DEF ClusterRow
<1>6. Moves(cluster, c)
  BY <1>2, <1>3, <1>5 DEF Moves, HoldsPlan
<1>7. cluster' = c
  BY <1>1, <1>4 DEF row
<1> QED
  BY <1>5, <1>6, <1>7, RowsInv DEF ClusterCallback, Inv, TypeOK

LEMMA RequestCallbackInv ==
  ASSUME NEW b \in Build, NEW r \in Request, Inv, RequestCallback(r, b)
  PROVE  Inv'
<1>1. PICK ok \in Ends(b) :
        /\ request' = [request EXCEPT ![r] = Completed(request[r], b, ok, "ACTIVE")]
        /\ cluster' = IF request'[r].status = "ACTIVE"
                      THEN [cluster EXCEPT !.config = Recorded(r, b)] ELSE cluster
  BY DEF RequestCallback, Inv, TypeOK
<1>2. /\ request[r] \in RequestRow /\ request[r].execution = b
      /\ ok => builds[b].state = "succeeded"
      /\ request[r].status = "PLAN_RUNNING" =>
           /\ request[r].plan.key = b /\ builds[b].mode = "plan"
           /\ r \in builds[b].config.managed
      /\ builds[b] \in BuildRow
  BY <1>1 DEF RequestCallback, Executes, Ends, Inv, TypeOK, RunnerTypeOK, PlanningRows, AwaitsPlan
<1> DEFINE row == Completed(request[r], b, ok, "ACTIVE")
<1>3. /\ row \in RequestRow /\ row.execution = b /\ row.status # "PLAN_RUNNING"
      /\ row.status = "PLAN_READY" =>
           /\ row.plan = [key |-> b, sha |-> b] /\ row.certified = builds[b].certified
           /\ builds[b].mode = "plan" /\ builds[b].state = "succeeded"
           /\ r \in builds[b].config.managed
  <2>1. CASE ~ok
    BY <1>2, <2>1 DEF Completed, RequestRow, RequestStatus
  <2>2. CASE ok /\ request[r].status = "PLAN_RUNNING"
    <3>1. request[r].plan = [key |-> b, sha |-> request[r].plan.sha]
      BY <1>2, <2>2 DEF RequestRow, Artefact
    <3>2. row = [status |-> "PLAN_READY", execution |-> b, plan |-> [key |-> b, sha |-> b],
                 certified |-> builds[b].certified]
      BY <1>2, <2>2, <3>1 DEF Completed, RequestRow
    <3> HIDE DEF row
    <3>3. [key |-> b, sha |-> b] \in Artefact
      BY DEF Artefact
    <3> QED
      BY <1>2, <2>2, <3>2, <3>3 DEF RequestRow, RequestStatus, BuildRow
  <2>3. CASE ok /\ request[r].status # "PLAN_RUNNING"
    BY <1>2, <2>3 DEF Completed, RequestRow, RequestStatus
  <2> QED
    BY <2>1, <2>2, <2>3
<1>4. request' = [request EXCEPT ![r] = row]
  BY <1>1
<1> HIDE DEF row
<1>5. Moves(request[r], row) /\ (row.status = "PLAN_READY" => r \in builds[row.execution].config.managed)
  BY <1>2, <1>3 DEF Moves, HoldsPlan
<1>6. request' \in [Request -> RequestRow] /\ request'[r] = row
      /\ \A x \in Request : x # r => request'[x] = request[x]
  BY <1>3, <1>4 DEF Inv, TypeOK
<1>7. Recorded(r, b) \in Config
  BY WithConfig DEF Recorded, Inv, TypeOK, ClusterRow
<1>8. cluster' \in ClusterRow /\ (cluster' = cluster \/ Moves(cluster, cluster'))
  <2>1. CASE request'[r].status # "ACTIVE"
    BY <1>1, <2>1 DEF Inv, TypeOK
  <2>2. CASE request'[r].status = "ACTIVE"
    <3>1. /\ cluster' \in ClusterRow /\ cluster'.status = cluster.status
          /\ cluster'.execution = cluster.execution /\ cluster'.plan = cluster.plan
          /\ cluster'.certified = cluster.certified
      BY <1>1, <1>7, <2>2 DEF Inv, TypeOK, ClusterRow
    <3> QED
      BY <3>1 DEF Inv, ReadyMatchesPlan, HoldsPlan, Moves
  <2> QED
    BY <2>1, <2>2
<1> QED
  BY <1>5, <1>6, <1>8, RowsInv DEF RequestCallback

LEMMA QuietInv ==
  ASSUME Inv, \/ InstallConnector \/ InstallerFails \/ CompletePlatformBootstrap
              \/ \E r \in Request : CreateRequest(r) \/ SubmitRequest(r) \/ RejectRequest(r)
  PROVE  Inv'
<1>1. ASSUME NEW status \in {"BOOTSTRAPPING", "BOOTSTRAP_FAILED", "ACTIVE"}, Move(status)
      PROVE  Inv'
  <2>1. /\ cluster' \in ClusterRow /\ cluster'.status = status
        /\ cluster'.execution = cluster.execution
    BY <1>1 DEF Move, Inv, TypeOK, ClusterRow, ClusterStatus
  <2>2. Moves(cluster, cluster')
    BY <2>1 DEF Moves
  <2> QED
    BY <1>1, <2>1, <2>2, RowsInv DEF Move, Inv, TypeOK
<1>2. ASSUME NEW r \in Request, CreateRequest(r) \/ SubmitRequest(r) \/ RejectRequest(r)
      PROVE  Inv'
  <2>1. PICK status \in {"DRAFT", "SUBMITTED", "REJECTED"} :
          /\ request' = [request EXCEPT ![r] = [request[r] EXCEPT !.status = status]]
          /\ UNCHANGED <<builds, infra, cluster, rollbacks>>
    BY <1>2 DEF CreateRequest, SubmitRequest, RejectRequest, Inv, TypeOK
  <2> DEFINE row == [request[r] EXCEPT !.status = status]
  <2>2. row \in RequestRow /\ row.status = status /\ row.execution = request[r].execution
    BY DEF Inv, TypeOK, RequestRow, RequestStatus
  <2>3. request' = [request EXCEPT ![r] = row]
    BY <2>1
  <2> HIDE DEF row
  <2>4. Moves(request[r], row) /\ row.status # "PLAN_READY"
    BY <2>2 DEF Moves
  <2>5. request' \in [Request -> RequestRow] /\ request'[r] = row
        /\ \A x \in Request : x # r => request'[x] = request[x]
    BY <2>2, <2>3 DEF Inv, TypeOK
  <2> QED
    BY <2>1, <2>4, <2>5, RowsInv DEF Inv, TypeOK
<1> QED
  BY <1>1, <1>2 DEF InstallConnector, InstallerFails, CompletePlatformBootstrap

-----------------------------------------------------------------------------
(* The theorems. *)

LEMMA InitInv == Init => Inv
<1> SUFFICES ASSUME Init PROVE Inv
  OBVIOUS
<1>1. PICK b \in Build :
        /\ builds = [a \in Build |-> IF a = b THEN NewBuild("plan", InitialConfig, NoPlan)
                                              ELSE UnusedBuild]
        /\ cluster = [status |-> "PLAN_RUNNING", execution |-> b,
                      plan |-> [key |-> b, sha |-> NoBuild], certified |-> "NONE",
                      config |-> InitialConfig, migrating |-> FALSE]
  BY DEF Init
<1>2. InitialConfig \in Config /\ NoPlan \in Artefact
  BY ProvisioningAssumption DEF InitialConfig, Config, NoPlan, Artefact
<1>4. \A a \in Build : /\ builds[a] \in BuildRow /\ builds[a].mode = "plan"
                       /\ builds[a].certified = "NONE" /\ builds[a].fresh = FALSE
                       /\ builds[a].state = IF a = b THEN "running" ELSE "unused"
                       /\ builds[a].config = InitialConfig
  BY <1>1, <1>2 DEF NewBuild, UnusedBuild, BuildRow, Mode, Certification
<1>5. builds \in [Build -> BuildRow]
  BY <1>1, <1>4
<1>6. cluster \in ClusterRow
  BY <1>1, <1>2 DEF ClusterRow, ClusterStatus, Artefact, Certification
<1>7. request = [r \in Request |-> NewRequest] /\ NewRequest \in RequestRow
      /\ NewRequest.status = "absent" /\ NewRequest.execution = NoBuild
  BY <1>2 DEF Init, NewRequest, RequestRow, RequestStatus, Certification
<1>8. TypeOK
  BY <1>5, <1>6, <1>7, ProvisioningAssumption DEF Init, TypeOK, RunnerTypeOK
<1>9. RowsStarted /\ PlanningRows /\ ReadyMatchesPlan
  BY <1>1, <1>4, <1>7, NoBuildFresh DEF RowsStarted, Started, PlanningRows, AwaitsPlan, ReadyMatchesPlan
<1>10. VerdictsFinal /\ FreshPlansPass /\ AppliesCertifiedPlans
  BY <1>4 DEF VerdictsFinal, FreshPlansPass, AppliesCertifiedPlans
<1> QED
  BY <1>8, <1>9, <1>10 DEF Inv

LEMMA NextInv == Inv /\ [Next]_vars => Inv'
<1> SUFFICES ASSUME Inv, [Next]_vars PROVE Inv'
  OBVIOUS
<1>1. CASE \E b \in Build : Run(b)
  BY <1>1, RunInv
<1>2. CASE \E b \in Build :
             \/ ChangePlan(b) \/ ChangeApply(b) \/ ChangeStop(b) \/ ChangeStart(b) \/ ChangeDelete(b)
             \/ \E g \in Group : MigrateSystemNodeGroup(b, g)
  BY <1>2, ClusterOperationInv
<1>3. CASE \E b \in Build, r \in Request : ApproveRequest(r, b) \/ ApplyRequest(r, b) \/ RetryRequest(r, b)
  BY <1>3, RequestOperationInv
<1>4. CASE \E b \in Build : ClusterCallback(b) \/ \E r \in Request : RequestCallback(r, b)
  BY <1>4, ClusterCallbackInv, RequestCallbackInv
<1>5. CASE \/ InstallConnector \/ InstallerFails \/ CompletePlatformBootstrap
           \/ \E r \in Request : CreateRequest(r) \/ SubmitRequest(r) \/ RejectRequest(r)
  BY <1>5, QuietInv
<1>6. CASE UNCHANGED vars
  BY <1>6 DEF vars, Inv, TypeOK, RunnerTypeOK, RowsStarted, Started, PlanningRows, AwaitsPlan,
     VerdictsFinal, FreshPlansPass, ScanPasses, Destroyed, ReadyMatchesPlan, HoldsPlan,
     AppliesCertifiedPlans
<1> QED
  BY <1>1, <1>2, <1>3, <1>4, <1>5, <1>6 DEF Next, Operation

THEOREM Invariance == Spec => []Inv
BY InitInv, NextInv, PTL DEF Spec

\* The rows, the builds and the infrastructure stay well typed.
THEOREM TypeCorrect == Spec => []TypeOK
<1>1. Inv => TypeOK
  BY DEF Inv
<1> QED
  BY <1>1, Invariance, PTL

\* What is reviewed in PLAN_READY is the finished plan of the row's own latest
\* execution, with its digest and its verdict.
THEOREM ReviewedPlanIsCurrent == Spec => []ReadyMatchesPlan
<1>1. Inv => ReadyMatchesPlan
  BY DEF Inv
<1> QED
  BY <1>1, Invariance, PTL

\* No build applies anything but a certified plan under that plan's digest,
\* not even one whose transaction was rolled back.
THEOREM OnlyCertifiedPlansApplied == Spec => []AppliesCertifiedPlans
<1>1. Inv => AppliesCertifiedPlans
  BY DEF Inv
<1> QED
  BY <1>1, Invariance, PTL

\* An apply that succeeds removes at most the legacy group recorded when its
\* plan was made: the scan is still right because the plan is still fresh.
THEOREM AppliesRetireOnlyLegacy == Spec => OnlyLegacyRetired
<1>1. ASSUME Inv, [Next]_vars, NEW b \in Build, Running(b, {"apply"}),
             builds'[b].state = "succeeded"
      PROVE  infra.groups \ infra'.groups \subseteq
               {builds[builds[b].artefact.key].config.legacy}
  <2>1. CASE infra' = infra
    BY <2>1
  <2>2. ASSUME NEW a \in Build, NEW state \in {"succeeded", "failed"},
               builds' = Ended(a, state), builds[a].state = "running"
        PROVE  a = b /\ state = "succeeded"
    BY <1>1, <2>2, EndedEffect DEF Inv, TypeOK, Running
  <2>3. CASE \E a \in Build : ApplySucceeds(a)
    <3>1. ApplySucceeds(b)
      BY <2>2, <2>3 DEF ApplySucceeds, Running
    <3> DEFINE key == builds[b].artefact.key
    <3>2. builds[key].fresh /\ infra'.groups = builds[key].config.managed
      BY <3>1 DEF ApplySucceeds, Applicable, Planned
    <3>3. key \in Build /\ builds[key].certified = "PASSED"
      BY <1>1 DEF Inv, AppliesCertifiedPlans, Running
    <3>4. ScanPasses(key)
      BY <1>1, <3>2, <3>3 DEF Inv, FreshPlansPass
    <3> QED
      BY <3>2, <3>4 DEF ScanPasses, Destroyed
  <2>4. CASE \E a \in Build : ApplyBreaks(a) \/ DestroyBreaks(a)
    BY <2>2, <2>4 DEF ApplyBreaks, DestroyBreaks, Running
  <2>5. CASE \E a \in Build : DestroySucceeds(a)
    BY <1>1, <2>2, <2>5 DEF DestroySucceeds, Running
  <2>6. \/ infra' = infra
        \/ \E a \in Build : ApplySucceeds(a) \/ ApplyBreaks(a) \/ DestroyBreaks(a) \/ DestroySucceeds(a)
    <3>1. CASE UNCHANGED vars
      BY <3>1 DEF vars
    <3>2. ASSUME NEW a \in Build,
                 \/ ChangePlan(a) \/ ChangeApply(a) \/ ChangeStop(a) \/ ChangeStart(a)
                 \/ ChangeDelete(a) \/ ClusterCallback(a)
                 \/ \E g \in Group : MigrateSystemNodeGroup(a, g)
          PROVE  infra' = infra
      BY ONLY <3>2 DEF ChangePlan, ChangeApply, ChangeStop, ChangeStart, ChangeDelete, Operate,
         ClusterCallback, MigrateSystemNodeGroup, Start
    <3>3. ASSUME NEW a \in Build, NEW r \in Request,
                 \/ ApproveRequest(r, a) \/ ApplyRequest(r, a) \/ RetryRequest(r, a)
                 \/ RequestCallback(r, a)
          PROVE  infra' = infra
      BY ONLY <3>3 DEF ApproveRequest, ApplyRequest, RetryRequest, RequestCallback, Start
    <3>4. ASSUME NEW r \in Request, CreateRequest(r) \/ SubmitRequest(r) \/ RejectRequest(r)
          PROVE  infra' = infra
      BY ONLY <3>4 DEF CreateRequest, SubmitRequest, RejectRequest
    <3>5. CASE InstallConnector \/ InstallerFails \/ CompletePlatformBootstrap
      BY ONLY <3>5 DEF InstallConnector, InstallerFails, CompletePlatformBootstrap, Move
    <3>6. ASSUME NEW a \in Build, Run(a)
          PROVE  \/ infra' = infra
                 \/ ApplySucceeds(a) \/ ApplyBreaks(a) \/ DestroyBreaks(a) \/ DestroySucceeds(a)
      BY ONLY <3>6 DEF Run, RunnerNext, PlanSucceeds, ScaleSucceeds, Fails
    <3> QED
      BY <1>1, <3>1, <3>2, <3>3, <3>4, <3>5, <3>6 DEF Next, Operation
  <2> QED
    BY <2>1, <2>3, <2>4, <2>5, <2>6
<1>2. Inv /\ [Next]_vars =>
        [\A b \in Build : Running(b, {"apply"}) /\ builds'[b].state = "succeeded" =>
           infra.groups \ infra'.groups \subseteq
             {builds[builds[b].artefact.key].config.legacy}]_vars
  BY <1>1
<1> QED
  BY <1>2, Invariance, PTL DEF Spec, OnlyLegacyRetired

-----------------------------------------------------------------------------
(* Active node groups. *)

\* Request r runs an apply of a plan that contains its group.
Applies(r) ==
  LET b == request[r].execution IN
  /\ b \in Build /\ builds[b].mode = "apply" /\ r \in Planned(b)

AppliedRequests ==
  /\ \A r \in Request : request[r].status = "APPLYING" => Applies(r)
  /\ ActiveWasApplied

\* No step changes what a build that has started was given, nor its end.
LEMMA BuildsKept ==
  ASSUME Inv, [Next]_vars
  PROVE  \A a \in Build : builds[a].state # "unused" => Kept(a)
<1>1. CASE UNCHANGED builds
  BY <1>1 DEF Kept
<1>2. ASSUME NEW b \in Build, Run(b)
      PROVE  \A a \in Build : builds[a].state # "unused" => Kept(a)
  BY <1>2, RunEffect DEF Inv, TypeOK
<1>3. ASSUME NEW b \in Build, builds[b].state = "unused",
             \A a \in Build : a # b => builds'[a] = builds[a]
      PROVE  \A a \in Build : builds[a].state # "unused" => Kept(a)
  BY <1>3 DEF Kept
<1>4. ASSUME NEW b \in Build, NEW mode, NEW config, NEW artefact, NEW c, NEW q,
             Start(b, mode, config, artefact, c, q)
      PROVE  \A a \in Build : builds[a].state # "unused" => Kept(a)
  <2>1. builds[b].state = "unused" /\ \A a \in Build : a # b => builds'[a] = builds[a]
    BY <1>4 DEF Start, IsNext, Inv, TypeOK, RunnerTypeOK
  <2> QED
    BY <1>3, <2>1
<1>5. CASE \E b \in Build : \/ ChangePlan(b) \/ ChangeApply(b) \/ ChangeStop(b) \/ ChangeStart(b)
                            \/ ChangeDelete(b) \/ \E g \in Group : MigrateSystemNodeGroup(b, g)
  BY <1>4, <1>5 DEF ChangePlan, ChangeApply, ChangeStop, ChangeStart, ChangeDelete, Operate,
     MigrateSystemNodeGroup
<1>6. CASE \E b \in Build, r \in Request : ApproveRequest(r, b) \/ ApplyRequest(r, b) \/ RetryRequest(r, b)
  BY <1>4, <1>6 DEF ApproveRequest, ApplyRequest, RetryRequest
<1>7. CASE \/ UNCHANGED vars
           \/ \E b \in Build : ClusterCallback(b) \/ \E r \in Request : RequestCallback(r, b)
           \/ \E r \in Request : CreateRequest(r) \/ SubmitRequest(r) \/ RejectRequest(r)
           \/ InstallConnector \/ InstallerFails \/ CompletePlatformBootstrap
  BY <1>1, <1>7 DEF vars, ClusterCallback, RequestCallback, CreateRequest, SubmitRequest,
     RejectRequest, InstallConnector, InstallerFails, CompletePlatformBootstrap, Move
<1> QED
  BY <1>2, <1>5, <1>6, <1>7 DEF Next, Operation

\* Neither does what an apply that has started is to apply.
LEMMA PlannedKept ==
  ASSUME Inv, [Next]_vars, NEW b \in Build, builds[b].state # "unused", builds[b].mode = "apply"
  PROVE  /\ builds'[b].mode = "apply"
         /\ builds[b].state = "succeeded" => builds'[b].state = "succeeded"
         /\ Planned(b)' = Planned(b)
<1> DEFINE key == builds[b].artefact.key
<1>1. key \in Build /\ builds[key].state = "succeeded"
  BY DEF Inv, AppliesCertifiedPlans, VerdictsFinal
<1>2. Kept(b) /\ Kept(key)
  BY <1>1, BuildsKept
<1> QED
  BY <1>1, <1>2 DEF Kept, Planned

\* A request that is left alone stays applied, if it was.
LEMMA AppliedKept ==
  ASSUME Inv, AppliedRequests, [Next]_vars, NEW r \in Request, request'[r] = request[r]
  PROVE  /\ request'[r].status = "APPLYING" => Applies(r)'
         /\ request'[r].status = "ACTIVE" =>
              Applies(r)' /\ builds'[request'[r].execution].state = "succeeded"
<1>1. CASE request[r].status = "APPLYING"
  <2>1. Applies(r) /\ builds[request[r].execution].state # "unused"
    BY <1>1 DEF Inv, RowsStarted, Started, AppliedRequests, Applies
  <2> QED
    BY <1>1, <2>1, PlannedKept DEF Applies
<1>2. CASE request[r].status = "ACTIVE"
  <2>1. Applies(r) /\ builds[request[r].execution].state = "succeeded"
    BY <1>2 DEF AppliedRequests, ActiveWasApplied, Applies
  <2> QED
    BY <1>2, <2>1, PlannedKept DEF Applies
<1> QED
  BY <1>1, <1>2

LEMMA AppliedStep == Inv /\ AppliedRequests /\ [Next]_vars => AppliedRequests'
<1> SUFFICES ASSUME Inv, AppliedRequests, [Next]_vars,
                    NEW r \in Request
             PROVE  /\ request'[r].status = "APPLYING" => Applies(r)'
                    /\ request'[r].status = "ACTIVE" =>
                         Applies(r)' /\ builds'[request'[r].execution].state = "succeeded"
  BY DEF AppliedRequests, ActiveWasApplied, Applies
<1>1. CASE request'[r] = request[r]
  BY <1>1, AppliedKept
<1>2. ASSUME NEW b \in Build, NEW x \in Request, ApplyRequest(x, b), request'[r] # request[r]
      PROVE  Applies(r)' /\ request'[r].status = "APPLYING"
  <2> DEFINE key == request[r].plan.key
  <2>1. /\ x = r /\ builds[b].state = "unused"
        /\ request'[r] = Executing(request[r], b, "APPLYING")
        /\ builds' = [builds EXCEPT ![b] = NewBuild("apply", With(r), request[r].plan)]
    BY <1>2 DEF ApplyRequest, Start, IsNext, Inv, TypeOK
  <2>2. request[r].status = "PLAN_READY" /\ request[r] \in RequestRow
    BY <1>2, <2>1 DEF ApplyRequest, Inv, TypeOK
  <2>3. /\ key \in Build /\ builds[key].state = "succeeded"
        /\ r \in builds[key].config.managed
    <3>1. HoldsPlan(request[r]) /\ r \in builds[request[r].execution].config.managed
      BY <2>2 DEF Inv, ReadyMatchesPlan
    <3>2. key = request[r].execution
      BY <3>1 DEF HoldsPlan
    <3> HIDE DEF key
    <3> QED
      BY <3>1, <3>2 DEF HoldsPlan
  <2>4. builds'[b].mode = "apply" /\ builds'[b].artefact.key = key /\ builds'[key] = builds[key]
    BY <2>1, <2>3 DEF NewBuild, Inv, TypeOK, RunnerTypeOK
  <2>5. request'[r].execution = b /\ request'[r].status = "APPLYING"
    BY <2>1, <2>2 DEF Executing, RequestRow
  <2> QED
    BY <2>3, <2>4, <2>5 DEF Applies, Planned
<1>3. ASSUME NEW b \in Build, NEW x \in Request, ApproveRequest(x, b) \/ RetryRequest(x, b),
             request'[r] # request[r]
      PROVE  request'[r].status = "PLAN_RUNNING"
  <2>1. request[r] \in RequestRow
    BY DEF Inv, TypeOK
  <2>2. \/ request'[r] = Planning(request[r], b)
        \/ request'[r] = [Planning(request[r], b) EXCEPT !.certified = "NONE"]
    BY <1>3 DEF ApproveRequest, RetryRequest, Start, Inv, TypeOK
  <2> QED
    BY <2>1, <2>2, PlanningRequestRow DEF RequestRow
<1>4. ASSUME NEW b \in Build, NEW x \in Request, RequestCallback(x, b), request'[r] # request[r]
      PROVE  /\ request'[r].status # "APPLYING"
             /\ request'[r].status = "ACTIVE" =>
                  Applies(r)' /\ builds'[request'[r].execution].state = "succeeded"
  <2>1. PICK ok \in Ends(b) : request' = [request EXCEPT ![x] = Completed(request[x], b, ok, "ACTIVE")]
    BY <1>4 DEF RequestCallback, Inv, TypeOK
  <2>2. /\ x = r /\ request[r] \in RequestRow /\ request[r].execution = b
        /\ request[r].status \in RequestRunning /\ builds' = builds
        /\ request'[r] = Completed(request[r], b, ok, "ACTIVE")
    BY <1>4, <2>1 DEF RequestCallback, Executes, Inv, TypeOK
  <2>3. /\ request'[r].execution = b /\ request'[r].status \in {"FAILED", "PLAN_READY", "ACTIVE"}
        /\ request'[r].status = "ACTIVE" => request[r].status = "APPLYING" /\ ok
    BY <2>2 DEF Completed, RequestRow, RequestRunning
  <2>4. ok => builds[b].state = "succeeded"
    BY DEF Ends
  <2> QED
    BY <2>2, <2>3, <2>4 DEF AppliedRequests, Applies, Planned
<1>5. ASSUME NEW x \in Request, CreateRequest(x) \/ SubmitRequest(x) \/ RejectRequest(x),
             request'[r] # request[r]
      PROVE  request'[r].status \in {"DRAFT", "SUBMITTED", "REJECTED"}
  BY <1>5 DEF CreateRequest, SubmitRequest, RejectRequest, Inv, TypeOK, RequestRow
<1>6. \/ request' = request
      \/ \E b \in Build, x \in Request : \/ ApproveRequest(x, b) \/ ApplyRequest(x, b)
                                         \/ RetryRequest(x, b) \/ RequestCallback(x, b)
      \/ \E x \in Request : CreateRequest(x) \/ SubmitRequest(x) \/ RejectRequest(x)
  <2>1. ASSUME NEW b \in Build,
               \/ ChangePlan(b) \/ ChangeApply(b) \/ ChangeStop(b) \/ ChangeStart(b)
               \/ ChangeDelete(b) \/ ClusterCallback(b) \/ Run(b)
               \/ \E g \in Group : MigrateSystemNodeGroup(b, g)
        PROVE  request' = request
    BY ONLY <2>1 DEF ChangePlan, ChangeApply, ChangeStop, ChangeStart, ChangeDelete, Operate,
       ClusterCallback, Run, MigrateSystemNodeGroup, Start
  <2>2. CASE UNCHANGED vars \/ InstallConnector \/ InstallerFails \/ CompletePlatformBootstrap
    BY <2>2 DEF vars, InstallConnector, InstallerFails, CompletePlatformBootstrap, Move
  <2> QED
    BY <2>1, <2>2 DEF Next, Operation
<1> QED
  BY <1>1, <1>2, <1>3, <1>4, <1>5, <1>6

\* An active node group was applied, to the end, by a certified plan with it.
THEOREM ActiveGroupsWereApplied == Spec => []ActiveWasApplied
<1>1. Init => AppliedRequests
  BY DEF Init, NewRequest, AppliedRequests, ActiveWasApplied
<1>2. AppliedRequests => ActiveWasApplied
  BY DEF AppliedRequests
<1> QED
  BY <1>1, <1>2, AppliedStep, Invariance, PTL DEF Spec

-----------------------------------------------------------------------------
(* The configuration. *)

\* There is one adopted group at most.
OneAdopted == \E g : cluster.config.adopted \subseteq {g}

\* The configuration stays, but for what is added to it, or for a migration.
Keeps == Extends(cluster.config, cluster'.config)
Migrates ==
  /\ cluster.status = "ACTIVE" /\ cluster'.status = "PLAN_RUNNING"
  /\ Retires(cluster.config, cluster'.config)
  /\ \E g : cluster'.config.adopted = {g}

LEMMA OperationsKeep ==
  ASSUME Inv, OneAdopted, NEW b \in Build,
         \/ ChangePlan(b) \/ ChangeApply(b) \/ ChangeStop(b) \/ ChangeStart(b) \/ ChangeDelete(b)
         \/ \E g \in Group : MigrateSystemNodeGroup(b, g)
  PROVE  (Keeps \/ Migrates) /\ request' = request
<1>1. cluster \in ClusterRow /\ cluster.config \in Config
  BY DEF Inv, TypeOK, ClusterRow
<1>2. cluster'.config = cluster.config => Keeps
  BY DEF Keeps, Extends
<1>3. ASSUME NEW config \in Config, NEW migrating \in BOOLEAN,
             Start(b, "plan", config, cluster.plan, PlanningCluster(b, config, migrating), request)
      PROVE  /\ \/ cluster' = cluster
                \/ cluster'.config = config /\ cluster'.status = "PLAN_RUNNING"
             /\ request' = request
  <2>1. cluster' = cluster \/ cluster' = PlanningCluster(b, config, migrating)
    BY <1>3 DEF Start
  <2>2. /\ PlanningCluster(b, config, migrating).config = config
        /\ PlanningCluster(b, config, migrating).status = "PLAN_RUNNING"
    <3>1. Planning(cluster, b) \in ClusterRow
      <4>1. Executing(cluster, b, "PLAN_RUNNING") \in ClusterRow
        BY <1>1 DEF Executing, ClusterRow, ClusterStatus
      <4>2. [key |-> b, sha |-> NoBuild] \in Artefact
        BY DEF Artefact
      <4> QED
        BY <4>1, <4>2 DEF Planning, ClusterRow
    <3>2. PlanningCluster(b, config, migrating).config = config
      BY <3>1 DEF PlanningCluster, ClusterRow
    <3> QED
      BY <1>1, <3>2, PlanningClusterRow
  <2>3. request' = request
    BY <1>3 DEF Start
  <2> QED
    BY <2>1, <2>2, <2>3
<1>4. ASSUME NEW mode, NEW status \in ClusterStatus,
             Start(b, mode, cluster.config, cluster.plan, ExecutingCluster(b, status), request)
      PROVE  Keeps /\ request' = request
  <2>1. ExecutingCluster(b, status).config = cluster.config
    BY <1>1 DEF ExecutingCluster, Executing, ClusterRow
  <2> QED
    BY <1>2, <1>4, <2>1 DEF Start
<1>5. /\ Reconciled \in Config /\ Extends(cluster.config, Reconciled)
      /\ Names(cluster.config) \subseteq Reconciled.managed \cup cluster.config.adopted
  BY <1>1, ReconciledConfig DEF Reconciled, Names, Config, Extends, Inv
<1>6. CASE ChangePlan(b)
  <2>1. PICK config \in {cluster.config, Reconciled} :
          Start(b, "plan", config, cluster.plan, PlanningCluster(b, config, FALSE), request)
    BY <1>6 DEF ChangePlan
  <2>2. config \in Config /\ Extends(cluster.config, config)
    BY <1>1, <1>5 DEF Extends
  <2> QED
    BY <1>2, <1>3, <2>1, <2>2 DEF Keeps
<1>7. CASE ChangeApply(b) \/ ChangeStop(b) \/ ChangeStart(b) \/ ChangeDelete(b)
  BY <1>4, <1>7 DEF ChangeApply, ChangeStop, ChangeStart, ChangeDelete, Operate, ClusterStatus
<1>8. ASSUME NEW g \in Group, MigrateSystemNodeGroup(b, g)
      PROVE  (Keeps \/ Migrates) /\ request' = request
  <2>1. PICK legacy \in SystemGroups(cluster.config) \cap Names(cluster.config) :
          LET config == [managed |-> Reconciled.managed \ {legacy}, adopted |-> {g},
                         legacy |-> legacy]
          IN  Start(b, "plan", config, cluster.plan, PlanningCluster(b, config, TRUE), request)
    BY <1>8 DEF MigrateSystemNodeGroup
  <2> DEFINE config == [managed |-> Reconciled.managed \ {legacy}, adopted |-> {g},
                        legacy |-> legacy]
  <2>2. config \in Config
    BY <1>1, <1>5 DEF Names, Config
  <2>3. Retires(cluster.config, config)
    <3>1. Names(config) = (Reconciled.managed \ {legacy}) \cup {g}
      BY DEF Names
    <3>2. cluster.config.adopted \subseteq {legacy}
      BY DEF SystemGroups, OneAdopted
    <3> QED
      BY <1>5, <3>1, <3>2 DEF Retires
  <2>4. cluster.status = "ACTIVE" /\ config.adopted = {g}
    BY <1>8 DEF MigrateSystemNodeGroup
  <2> QED
    BY <1>2, <1>3, <2>1, <2>2, <2>3, <2>4 DEF Migrates
<1> QED
  BY <1>6, <1>7, <1>8

LEMMA ConfigurationStep ==
  ASSUME Inv, OneAdopted, [Next]_vars
  PROVE  /\ \A r \in Request : request'[r].status = "ACTIVE" =>
              r \in Names(cluster'.config) \/ request[r].status = "ACTIVE"
         /\ Keeps \/ Migrates
<1>1. /\ cluster \in ClusterRow /\ cluster.config \in Config
      /\ cluster'.config = cluster.config => Keeps
  BY DEF Inv, TypeOK, ClusterRow, Keeps, Extends
<1>2. CASE \E b \in Build :
             \/ ChangePlan(b) \/ ChangeApply(b) \/ ChangeStop(b) \/ ChangeStart(b) \/ ChangeDelete(b)
             \/ \E g \in Group : MigrateSystemNodeGroup(b, g)
  BY <1>2, OperationsKeep
<1>3. ASSUME NEW b \in Build, NEW x \in Request, RequestCallback(x, b)
      PROVE  /\ \A r \in Request : request'[r].status = "ACTIVE" =>
                  r \in Names(cluster'.config) \/ request[r].status = "ACTIVE"
             /\ Keeps
  <2>1. /\ \A r \in Request : r # x => request'[r] = request[r]
        /\ cluster' = IF request'[x].status = "ACTIVE"
                      THEN [cluster EXCEPT !.config = Recorded(x, b)] ELSE cluster
    BY <1>3 DEF RequestCallback, Inv, TypeOK
  <2>2. x \in Names(Recorded(x, b)) /\ Extends(cluster.config, Recorded(x, b))
    BY <1>1 DEF Recorded, With, Names, Config, Extends
  <2>3. request'[x].status = "ACTIVE" => cluster'.config = Recorded(x, b)
    BY <1>1, <2>1 DEF ClusterRow
  <2> QED
    BY <1>1, <2>1, <2>2, <2>3 DEF Keeps
<1>4. ASSUME NEW b \in Build, NEW x \in Request, ApproveRequest(x, b) \/ ApplyRequest(x, b) \/ RetryRequest(x, b)
      PROVE  /\ \A r \in Request : request'[r].status = "ACTIVE" => request[r].status = "ACTIVE"
             /\ cluster' = cluster
  <2>1. PICK new : /\ request' \in {request, [request EXCEPT ![x] = new]}
                   /\ cluster' = cluster
                   /\ new \in {Planning(request[x], b), Executing(request[x], b, "APPLYING"),
                               [Planning(request[x], b) EXCEPT !.certified = "NONE"]}
    BY <1>4 DEF ApproveRequest, ApplyRequest, RetryRequest, Start, Inv, TypeOK
  <2>2. request[x] \in RequestRow /\ request \in [Request -> RequestRow]
    BY DEF Inv, TypeOK
  <2>3. Planning(request[x], b).status = "PLAN_RUNNING" /\ Planning(request[x], b) \in RequestRow
    BY <2>2, PlanningRequestRow
  <2>4. new.status \in {"PLAN_RUNNING", "APPLYING"}
    BY <2>1, <2>2, <2>3 DEF Executing, RequestRow
  <2> QED
    BY <2>1, <2>2, <2>4
<1>5. ASSUME NEW x \in Request, CreateRequest(x) \/ SubmitRequest(x) \/ RejectRequest(x)
      PROVE  /\ \A r \in Request : request'[r].status = "ACTIVE" => request[r].status = "ACTIVE"
             /\ cluster' = cluster
  BY <1>5 DEF CreateRequest, SubmitRequest, RejectRequest, Inv, TypeOK, RequestRow
<1>6. ASSUME NEW b \in Build, ClusterCallback(b)
      PROVE  cluster'.config = cluster.config /\ request' = request
  <2>1. PICK ok \in Ends(b), target \in Targets :
          cluster' = [Completed(cluster, b, ok, target) EXCEPT !.migrating = FALSE]
    BY <1>6 DEF ClusterCallback
  <2> DEFINE row == Completed(cluster, b, ok, target)
  <2>2. row.config = cluster.config
        /\ row = [status |-> row.status, execution |-> row.execution, plan |-> row.plan,
                  certified |-> row.certified, config |-> row.config, migrating |-> row.migrating]
    BY <1>1 DEF Completed, ClusterRow
  <2> HIDE DEF row
  <2>3. cluster'.config = row.config
    BY <2>1, <2>2 DEF row
  <2> QED
    BY <1>6, <2>2, <2>3 DEF ClusterCallback
<1>7. CASE \/ UNCHANGED vars \/ \E b \in Build : Run(b)
           \/ InstallConnector \/ InstallerFails \/ CompletePlatformBootstrap
  <2>1. cluster'.config = cluster.config /\ request' = request
    BY <1>1, <1>7 DEF vars, Run, InstallConnector, InstallerFails, CompletePlatformBootstrap, Move,
       ClusterRow
  <2> QED
    BY <1>1, <2>1
<1> QED
  BY <1>1, <1>2, <1>3, <1>4, <1>5, <1>6, <1>7 DEF Next, Operation

\* Whatever transactions do between a plan and its callback, a group that
\* becomes active is in the configuration, and what is there, a recorded
\* migration too, is changed by another migration only: it retires one group.
THEOREM NoChangeLost == Spec => ConfigurationKept
<1>1. Init => OneAdopted
  BY DEF Init, InitialConfig, OneAdopted
<1>2. Inv /\ OneAdopted /\ [Next]_vars => OneAdopted'
  BY ConfigurationStep DEF OneAdopted, Keeps, Extends, Migrates
<1>3. Inv /\ OneAdopted /\ [Next]_vars =>
        [/\ \A r \in Request : request'[r].status = "ACTIVE" =>
              r \in Names(cluster'.config) \/ request[r].status = "ACTIVE"
         /\ \/ Extends(cluster.config, cluster'.config)
            \/ /\ cluster.status = "ACTIVE" /\ cluster'.status = "PLAN_RUNNING"
               /\ Retires(cluster.config, cluster'.config)]_vars
  BY ConfigurationStep DEF Keeps, Migrates
<1> QED
  BY <1>1, <1>2, <1>3, Invariance, PTL DEF Spec, ConfigurationKept

-----------------------------------------------------------------------------
(* Every running row settles, if the builds end and the callbacks come.      *)

\* A running row names a build, and no build is named by two rows: its callback
\* finds one row, and the right one.
Owned ==
  /\ cluster.status \in ClusterRunning => cluster.execution \in Build
  /\ \A r \in Request : request[r].status \in RequestRunning => request[r].execution \in Build
  /\ \A r \in Request : request[r].execution \in Build =>
       /\ request[r].execution # cluster.execution
       /\ \A q \in Request \ {r} : request[q].execution # request[r].execution

\* The row keeps its execution, and does not begin to run.
Rests(old, new, running) ==
  new.execution = old.execution /\ (new.status \in running => old.status \in running)

\* Every step gives a new build to one row, or to none.
LEMMA ExecutionStep ==
  ASSUME Inv, [Next]_vars
  PROVE  \/ /\ Rests(cluster, cluster', ClusterRunning)
            /\ \A r \in Request : Rests(request[r], request'[r], RequestRunning)
         \/ \E b \in Build : /\ builds[b].state = "unused"
                             /\ cluster'.execution = b /\ request' = request
         \/ \E b \in Build, r \in Request :
              /\ builds[b].state = "unused"
              /\ request'[r].execution = b /\ cluster' = cluster
              /\ \A q \in Request \ {r} : request'[q] = request[q]
<1> DEFINE Rest == /\ Rests(cluster, cluster', ClusterRunning)
                   /\ \A r \in Request : Rests(request[r], request'[r], RequestRunning)
           OfCluster(b) == builds[b].state = "unused" /\ cluster'.execution = b /\ request' = request
           OfRequest(r, b) == /\ builds[b].state = "unused"
                              /\ request'[r].execution = b /\ cluster' = cluster
                              /\ \A q \in Request \ {r} : request'[q] = request[q]
<1>1. cluster \in ClusterRow /\ request \in [Request -> RequestRow]
  BY DEF Inv, TypeOK
<1>2. ASSUME UNCHANGED <<cluster, request>> PROVE Rest
  BY <1>2 DEF Rests
<1>3. ASSUME NEW b \in Build, NEW mode, NEW config, NEW artefact, NEW c,
             Start(b, mode, config, artefact, c, request), c.execution = b
      PROVE  Rest \/ OfCluster(b)
  BY <1>3 DEF Start, IsNext, Rests
<1>4. ASSUME NEW b \in Build, NEW r \in Request, NEW mode, NEW config, NEW artefact,
             NEW row, Start(b, mode, config, artefact, cluster, [request EXCEPT ![r] = row]),
             row.execution = b
      PROVE  Rest \/ OfRequest(r, b)
  BY <1>1, <1>4 DEF Start, IsNext, Rests
<1>5. ASSUME NEW b \in Build,
             \/ ChangePlan(b) \/ ChangeApply(b) \/ ChangeStop(b) \/ ChangeStart(b)
             \/ ChangeDelete(b) \/ \E g \in Group : MigrateSystemNodeGroup(b, g)
      PROVE  Rest \/ OfCluster(b)
  <2>1. \A status : ExecutingCluster(b, status).execution = b
    BY <1>1 DEF ExecutingCluster, Executing, ClusterRow
  <2>2. \A config, migrating : PlanningCluster(b, config, migrating).execution = b
    BY <1>1 DEF PlanningCluster, Planning, Executing, ClusterRow
  <2>3. CASE ChangeApply(b) \/ ChangeStop(b) \/ ChangeStart(b) \/ ChangeDelete(b)
    BY <1>3, <2>1, <2>3 DEF ChangeApply, ChangeStop, ChangeStart, ChangeDelete, Operate
  <2>4. CASE ChangePlan(b) \/ \E g \in Group : MigrateSystemNodeGroup(b, g)
    BY <1>3, <2>2, <2>4 DEF ChangePlan, MigrateSystemNodeGroup
  <2> QED
    BY <1>5, <2>3, <2>4
<1>6. ASSUME NEW b \in Build, NEW r \in Request,
             ApproveRequest(r, b) \/ ApplyRequest(r, b) \/ RetryRequest(r, b)
      PROVE  Rest \/ OfRequest(r, b)
  <2>1. request[r] \in RequestRow
    BY <1>1
  <2>2. /\ Planning(request[r], b).execution = b
        /\ [Planning(request[r], b) EXCEPT !.certified = "NONE"].execution = b
        /\ Executing(request[r], b, "APPLYING").execution = b
    BY <2>1 DEF Planning, Executing, RequestRow
  <2>3. PICK row, mode :
          /\ row.execution = b
          /\ Start(b, mode, With(r), request[r].plan, cluster, [request EXCEPT ![r] = row])
    BY <1>1, <1>6, <2>2 DEF ApproveRequest, ApplyRequest, RetryRequest
  <2> QED
    BY <1>4, <2>3
<1>7. ASSUME NEW b \in Build, ClusterCallback(b)
      PROVE  Rest
  <2>1. PICK ok \in Ends(b), target \in Targets :
          cluster' = [Completed(cluster, b, ok, target) EXCEPT !.migrating = FALSE]
    BY <1>7 DEF ClusterCallback
  <2>2. cluster'.execution = cluster.execution /\ cluster.status \in ClusterRunning
    BY <1>1, <1>7, <2>1 DEF ClusterCallback, Completed, ClusterRow
  <2> QED
    BY <1>7, <2>2 DEF ClusterCallback, Rests
<1>8. ASSUME NEW b \in Build, NEW r \in Request, RequestCallback(r, b)
      PROVE  Rest
  <2>1. PICK ok \in Ends(b) : request' = [request EXCEPT ![r] = Completed(request[r], b, ok, "ACTIVE")]
    BY <1>1, <1>8 DEF RequestCallback
  <2>2. /\ request'[r].execution = request[r].execution /\ request[r].status \in RequestRunning
        /\ \A q \in Request \ {r} : request'[q] = request[q]
    BY <1>1, <1>8, <2>1 DEF RequestCallback, Completed, RequestRow
  <2>3. cluster'.execution = cluster.execution /\ cluster'.status = cluster.status
    BY <1>1, <1>8 DEF RequestCallback, ClusterRow
  <2> QED
    BY <2>2, <2>3 DEF Rests
<1>9. ASSUME NEW r \in Request, CreateRequest(r) \/ SubmitRequest(r) \/ RejectRequest(r)
      PROVE  Rest
  <2>1. /\ request'[r].execution = request[r].execution
        /\ request'[r].status \in {"DRAFT", "SUBMITTED", "REJECTED"}
        /\ \A q \in Request \ {r} : request'[q] = request[q]
    BY <1>1, <1>9 DEF CreateRequest, SubmitRequest, RejectRequest, RequestRow
  <2>2. cluster' = cluster
    BY <1>9 DEF CreateRequest, SubmitRequest, RejectRequest
  <2> QED
    BY <2>1, <2>2 DEF Rests, RequestRunning
<1>10. ASSUME InstallConnector \/ InstallerFails \/ CompletePlatformBootstrap
       PROVE  Rest
  <2>1. /\ cluster'.execution = cluster.execution /\ request' = request
        /\ cluster'.status \in {"BOOTSTRAPPING", "BOOTSTRAP_FAILED", "ACTIVE"}
    BY <1>1, <1>10 DEF InstallConnector, InstallerFails, CompletePlatformBootstrap, Move, ClusterRow
  <2> QED
    BY <2>1 DEF Rests, ClusterRunning
<1>11. ASSUME UNCHANGED vars \/ \E b \in Build : Run(b)
       PROVE  Rest
  BY <1>2, <1>11 DEF vars, Run
<1> HIDE DEF Rest, OfCluster, OfRequest
<1>12. Rest \/ (\E b \in Build : OfCluster(b)) \/ (\E b \in Build, r \in Request : OfRequest(r, b))
  <2>1. CASE Operation
    BY <2>1, <1>5, <1>6, <1>9 DEF Operation
  <2>2. CASE \E b \in Build : ClusterCallback(b) \/ Run(b) \/ \E r \in Request : RequestCallback(r, b)
    BY <2>2, <1>7, <1>8, <1>11
  <2> QED
    BY <2>1, <2>2, <1>10, <1>11 DEF Next
<1> QED
  BY <1>12 DEF Rest, OfCluster, OfRequest

LEMMA OwnedStep == Inv /\ Owned /\ [Next]_vars => Owned'
<1> SUFFICES ASSUME Inv, Owned, [Next]_vars PROVE Owned'
  OBVIOUS
<1>1. CASE /\ Rests(cluster, cluster', ClusterRunning)
           /\ \A r \in Request : Rests(request[r], request'[r], RequestRunning)
  BY <1>1 DEF Rests, Owned
<1>2. ASSUME NEW b \in Build, builds[b].state = "unused", cluster'.execution = b,
             request' = request
      PROVE  Owned'
  BY <1>2 DEF Inv, RowsStarted, Started, Owned
<1>3. ASSUME NEW b \in Build, NEW r \in Request, builds[b].state = "unused",
             request'[r].execution = b, cluster' = cluster,
             \A q \in Request \ {r} : request'[q] = request[q]
      PROVE  Owned'
  <2>1. b # cluster.execution /\ \A q \in Request : b # request[q].execution
    BY <1>3 DEF Inv, RowsStarted, Started
  <2> QED
    BY <1>3, <2>1 DEF Owned
<1> QED
  BY <1>1, <1>2, <1>3, ExecutionStep

\* Whatever is started, rolled back, repeated or retried, a build is named by one
\* row at most, and a row that is running names one.
THEOREM RowsOwned == Spec => []Owned
<1>1. Init => Owned
  BY NoBuildFresh DEF Init, Owned, NewRequest, RequestRunning
<1> QED
  BY <1>1, OwnedStep, Invariance, PTL DEF Spec

\* No row keeps another one waiting: the callback of each running row is possible
\* as soon as its build has ended.
THEOREM CallbacksPossible == Spec /\ []GuardsSuffice => []NothingStuck
<1>1. Owned /\ GuardsSuffice => NothingStuck
  BY DEF Owned, GuardsSuffice, NothingStuck, Settles, Executes
<1> QED
  BY <1>1, RowsOwned, PTL

\* The build of a running row is running, or has ended.
LEMMA BuildUnderWay ==
  ASSUME Inv, NEW b \in Build
  PROVE  /\ ~Settles(cluster, ClusterRunning, b) => builds[b].state = "running" \/ Finished(b)
         /\ \A r \in Request : ~Settles(request[r], RequestRunning, b) =>
              builds[b].state = "running" \/ Finished(b)
<1>1. builds[b].state \in {"unused", "running", "succeeded", "failed"}
  BY DEF Inv, TypeOK, RunnerTypeOK, BuildRow
<1> QED
  BY <1>1 DEF Inv, RowsStarted, Started, Settles, Finished

LEMMA BuildEnds ==
  ASSUME NEW b \in Build
  PROVE  /\ Inv /\ Run(b) => Finished(b)'
         /\ Inv /\ [Next]_vars /\ Finished(b) => Finished(b)'
         /\ Inv /\ [Next]_vars /\ builds[b].state = "running" =>
              (builds[b].state = "running" \/ Finished(b))'
<1>1. Inv /\ Run(b) => Finished(b)'
  <2> SUFFICES ASSUME Inv, Run(b) PROVE builds'[b].state \in {"succeeded", "failed"}
    BY DEF Finished
  <2>1. builds[b] \in BuildRow /\ builds \in [Build -> BuildRow]
    BY DEF Inv, TypeOK, RunnerTypeOK
  <2>2. CASE PlanSucceeds(b) \/ ScaleSucceeds(b) \/ Fails(b)
    BY <2>1, <2>2 DEF PlanSucceeds, ScaleSucceeds, Fails, BuildRow
  <2>3. CASE ApplySucceeds(b) \/ ApplyBreaks(b) \/ DestroySucceeds(b) \/ DestroyBreaks(b)
    <3>1. PICK state \in {"succeeded", "failed"} : builds[b].state = "running" /\ builds' = Ended(b, state)
      BY <2>3 DEF ApplySucceeds, ApplyBreaks, DestroySucceeds, DestroyBreaks, Running
    <3> QED
      BY <3>1, EndedEffect DEF Inv, TypeOK
  <2> QED
    BY <2>2, <2>3 DEF Run, RunnerNext
<1>2. Inv /\ [Next]_vars /\ Finished(b) => Finished(b)'
  BY BuildsKept DEF Kept, Finished
<1>3. Inv /\ Inv' /\ [Next]_vars /\ builds[b].state = "running" =>
        (builds[b].state = "running" \/ Finished(b))'
  BY BuildsKept DEF Kept, Finished, Inv, TypeOK, RunnerTypeOK, BuildRow
<1> QED
  BY <1>1, <1>2, <1>3, NextInv

\* A callback takes its row out of its running status.
LEMMA CallbackSettles ==
  ASSUME NEW b \in Build, Inv
  PROVE  /\ ClusterCallback(b) => Settles(cluster, ClusterRunning, b)'
         /\ \A r \in Request : RequestCallback(r, b) => Settles(request[r], RequestRunning, b)'
<1>1. ASSUME ClusterCallback(b) PROVE cluster'.status \notin ClusterRunning
  <2>1. PICK ok \in Ends(b), target \in Targets :
          cluster' = [Completed(cluster, b, ok, target) EXCEPT !.migrating = FALSE]
    BY <1>1 DEF ClusterCallback
  <2>2. target \notin ClusterRunning
    BY DEF Targets, ClusterRunning
  <2>3. cluster \in ClusterRow
    BY DEF Inv, TypeOK
  <2> QED
    BY <2>1, <2>2, <2>3 DEF Completed, ClusterRow, ClusterRunning
<1>2. ASSUME NEW r \in Request, RequestCallback(r, b) PROVE request'[r].status \notin RequestRunning
  <2>1. request \in [Request -> RequestRow]
    BY DEF Inv, TypeOK
  <2>2. PICK ok \in Ends(b) : request'[r] = Completed(request[r], b, ok, "ACTIVE")
    BY <1>2, <2>1 DEF RequestCallback
  <2>3. request[r] \in RequestRow
    BY <2>1
  <2> QED
    BY <2>2, <2>3 DEF Completed, RequestRow, RequestRunning
<1> QED
  BY <1>1, <1>2 DEF Settles

LEMMA ClusterRowSettles ==
  ASSUME NEW b \in Build
  PROVE  Spec /\ []GuardsSuffice /\ BuildFairness(b) => ClusterSettles(b)
<1> DEFINE Settled == Settles(cluster, ClusterRunning, b)
           Runs == builds[b].state = "running"
           HasEnded == Finished(b)
<1>1. Inv /\ ~Settled => Runs \/ HasEnded
  BY BuildUnderWay
<1>2. Inv /\ [Next]_vars /\ Runs => (Runs \/ HasEnded)'
  BY BuildEnds
<1>3. Inv /\ <<Run(b)>>_vars => HasEnded'
  BY BuildEnds
<1>4. Inv /\ [Next]_vars /\ HasEnded => HasEnded'
  BY BuildEnds
<1>5. Inv /\ <<ClusterCallback(b)>>_vars => Settled'
  BY CallbackSettles
<1>6. GuardsSuffice => (Runs => ENABLED <<Run(b)>>_vars)
  BY DEF GuardsSuffice
<1>7. GuardsSuffice => (HasEnded /\ ~Settled => ENABLED <<ClusterCallback(b)>>_vars)
  BY DEF GuardsSuffice, Settles, Executes
<1> HIDE DEF Settled, Runs, HasEnded
<1>8. Spec /\ []GuardsSuffice /\ BuildFairness(b) => (~Settled ~> Settled)
  BY <1>1, <1>2, <1>3, <1>4, <1>5, <1>6, <1>7, Invariance, PTL DEF Spec, BuildFairness
<1> QED
  BY <1>8 DEF Settled, ClusterSettles

LEMMA RequestRowSettles ==
  ASSUME NEW b \in Build, NEW r \in Request
  PROVE  Spec /\ []GuardsSuffice /\ BuildFairness(b) /\ RequestFairness(r, b) => RequestSettles(r, b)
<1> DEFINE Settled == Settles(request[r], RequestRunning, b)
           Runs == builds[b].state = "running"
           HasEnded == Finished(b)
<1>1. Inv /\ ~Settled => Runs \/ HasEnded
  BY BuildUnderWay
<1>2. Inv /\ [Next]_vars /\ Runs => (Runs \/ HasEnded)'
  BY BuildEnds
<1>3. Inv /\ <<Run(b)>>_vars => HasEnded'
  BY BuildEnds
<1>4. Inv /\ [Next]_vars /\ HasEnded => HasEnded'
  BY BuildEnds
<1>5. Inv /\ <<RequestCallback(r, b)>>_vars => Settled'
  BY CallbackSettles
<1>6. GuardsSuffice => (Runs => ENABLED <<Run(b)>>_vars)
  BY DEF GuardsSuffice
<1>7. Owned /\ GuardsSuffice => (HasEnded /\ ~Settled => ENABLED <<RequestCallback(r, b)>>_vars)
  BY DEF Owned, GuardsSuffice, Settles, Executes
<1> HIDE DEF Settled, Runs, HasEnded
<1>8. Spec /\ []GuardsSuffice /\ BuildFairness(b) /\ RequestFairness(r, b) => (~Settled ~> Settled)
  BY <1>1, <1>2, <1>3, <1>4, <1>5, <1>6, <1>7, Invariance, RowsOwned, PTL
     DEF Spec, BuildFairness, RequestFairness
<1> QED
  BY <1>8 DEF Settled, RequestSettles

\* No cluster and no request stays in a running status for ever, for any number of
\* builds, rollbacks, retries and requests, if builds end and callbacks come.
THEOREM RunningRowsSettle == FairSpec /\ []GuardsSuffice => ExecutionsSettle
BY ClusterRowSettles, RequestRowSettles DEF FairSpec, Fairness, ExecutionsSettle

-----------------------------------------------------------------------------
(* The bootstrap: ConnectorBootstrap adds detail to what the connector does *)
(* to a cluster, and no behaviour.                                          *)

LEMMA BootstrapInitMaps == BootstrapInit => Init
BY DEF BootstrapInit

LEMMA BootstrapStepMaps == [BootstrapNext]_bootstrapVars => [Next]_vars
<1> SUFFICES ASSUME [BootstrapNext]_bootstrapVars PROVE [Next]_vars
  OBVIOUS
<1>1. CASE Operation \/ \E b \in Build, r \in Request : RequestCallback(r, b)
  BY <1>1 DEF Next
<1>2. CASE \E b \in Build : ClusterCompletes(b) \/ Terraform(b)
  BY <1>2 DEF ClusterCompletes, Terraform, Next
<1>3. CASE \E c \in Connector : RequestInstall(c)
  BY <1>3 DEF RequestInstall, Next
<1>4. CASE \E ok \in BOOLEAN : ReportAccess(ok) \/ ReportComponents(ok)
  <2>1. Complete \/ UNCHANGED vars
    BY <1>4 DEF ReportAccess, ReportComponents
  <2>2. CompletePlatformBootstrap \/ UNCHANGED vars
    BY <2>1 DEF Complete, Awaited, CompletePlatformBootstrap
  <2> QED
    BY <2>2 DEF Next
<1>5. CASE \E c \in Connector : Refresh(c)
  <2>1. InstallerFails \/ UNCHANGED vars
    BY <1>5 DEF Refresh, Waiting, InstallerFails
  <2> QED
    BY <2>1 DEF Next
<1>6. CASE \/ UNCHANGED bootstrapVars
           \/ \E c \in Connector : InstallRolledBack(c) \/ WriteToken(c) \/ InstallerEnds(c) \/ Inspect(c)
           \/ Deploy \/ RestartAgent \/ ReportFails \/ ReportNamespaces
           \/ \E kind \in Kind : Authenticate(kind)
  BY <1>6 DEF bootstrapVars, InstallRolledBack, WriteToken, InstallerEnds, Inspect, Deploy,
     RestartAgent, ReportFails, ReportNamespaces, Authenticate
<1> QED
  BY <1>1, <1>2, <1>3, <1>4, <1>5, <1>6 DEF BootstrapNext, ReportEnds

\* With connectors, installers, agents, reports and polls in the open, the
\* cluster behaves as ClusterProvisioning says, so that the theorems above
\* hold of it.
THEOREM BootstrapImplements == BootstrapSpec => Spec
BY BootstrapInitMaps, BootstrapStepMaps, PTL DEF BootstrapSpec, Spec

\* The transaction of a report is one of the connector that is installed now;
\* so is what was last said of namespaces, and the installation a bootstrap waits
\* for.  A poll has seen a build that is over.
Present ==
  /\ report.kind # "none" => report.connector = live
  /\ inventory.connector = live
  /\ cluster.status = "BOOTSTRAPPING" => bootstrap.connector = live /\ live \in Connector
  /\ \A c \in polls : Over(c)

BootstrapInv == BootstrapTypeOK /\ Present

\* What users do leaves the status alone or starts an execution.
LEMMA OperationStatus ==
  ASSUME TypeOK, Operation
  PROVE  cluster'.status \in {cluster.status} \cup ClusterRunning
<1>1. cluster \in ClusterRow
  BY DEF TypeOK
<1>2. ASSUME NEW b \in Build, NEW status \in ClusterRunning, NEW mode, NEW config,
             Start(b, mode, config, cluster.plan, ExecutingCluster(b, status), request)
      PROVE  cluster'.status \in {cluster.status, status}
  BY <1>1, <1>2, ExecutingClusterRow DEF Start, ClusterRunning, ClusterStatus
<1>3. ASSUME NEW b \in Build, NEW config \in Config, NEW migrating \in BOOLEAN,
             Start(b, "plan", config, cluster.plan, PlanningCluster(b, config, migrating), request)
      PROVE  cluster'.status \in {cluster.status, "PLAN_RUNNING"}
  BY <1>1, <1>3, PlanningClusterRow DEF Start
<1>4. ASSUME NEW b \in Build, ChangePlan(b)
      PROVE  cluster'.status \in {cluster.status, "PLAN_RUNNING"}
  <2>1. PICK config \in Config :
          Start(b, "plan", config, cluster.plan, PlanningCluster(b, config, FALSE), request)
    BY <1>1, <1>4, ReconciledConfig DEF ChangePlan, ClusterRow
  <2> QED
    BY <1>3, <2>1
<1>5. ASSUME NEW b \in Build, ChangeApply(b) \/ ChangeStop(b) \/ ChangeStart(b) \/ ChangeDelete(b)
      PROVE  cluster'.status \in {cluster.status} \cup ClusterRunning
  BY <1>2, <1>5 DEF ChangeApply, ChangeStop, ChangeStart, ChangeDelete, Operate, ClusterRunning
<1>6. ASSUME NEW b \in Build, NEW g \in Group, MigrateSystemNodeGroup(b, g)
      PROVE  cluster'.status \in {cluster.status, "PLAN_RUNNING"}
  <2>1. PICK legacy \in SystemGroups(cluster.config) \cap Names(cluster.config) :
          LET config == [managed |-> Reconciled.managed \ {legacy}, adopted |-> {g},
                         legacy |-> legacy]
          IN  Start(b, "plan", config, cluster.plan, PlanningCluster(b, config, TRUE), request)
    BY <1>6 DEF MigrateSystemNodeGroup
  <2>2. [managed |-> Reconciled.managed \ {legacy}, adopted |-> {g}, legacy |-> legacy] \in Config
    BY <1>1, ReconciledConfig DEF Names, ClusterRow, Config
  <2> QED
    BY <1>3, <2>1, <2>2
<1>7. ASSUME NEW r \in Request,
             \/ CreateRequest(r) \/ SubmitRequest(r) \/ RejectRequest(r)
             \/ \E b \in Build : ApproveRequest(r, b) \/ ApplyRequest(r, b) \/ RetryRequest(r, b)
      PROVE  cluster'.status = cluster.status
  BY <1>7 DEF CreateRequest, SubmitRequest, RejectRequest, ApproveRequest, ApplyRequest,
     RetryRequest, Start
<1> QED
  BY <1>4, <1>5, <1>6, <1>7 DEF Operation, ClusterRunning

LEMMA BootstrapInitInv == BootstrapInit => BootstrapInv
<1> SUFFICES ASSUME BootstrapInit PROVE BootstrapInv
  OBVIOUS
<1>1. TypeOK
  BY InitInv DEF BootstrapInit, Inv
<1>2. cluster.status = "PLAN_RUNNING"
  BY DEF BootstrapInit, Init
<1>3. installer \in [Connector -> InstallerState] /\ faults \in 0 .. MaxFaults
  BY ConnectorAssumption DEF BootstrapInit, InstallerState
<1>4. /\ pod \in [connector: MaybeConnector, token: MaybeConnector, ready: BOOLEAN]
      /\ report \in [kind: Kind \cup {"none"}, connector: MaybeConnector]
  BY DEF BootstrapInit, NoPod, NoReport, MaybeConnector
<1>5. BootstrapTypeOK
  BY <1>1, <1>3, <1>4 DEF BootstrapInit, BootstrapTypeOK, MaybeConnector
<1>6. Present
  BY <1>2 DEF BootstrapInit, Present, NoReport
<1> QED
  BY <1>5, <1>6 DEF BootstrapInv

LEMMA BootstrapNextInv ==
  ASSUME Inv, Inv', BootstrapInv, [BootstrapNext]_bootstrapVars
  PROVE  BootstrapInv'
<1> USE DEF MaybeConnector
<1>1. TypeOK /\ TypeOK' /\ cluster \in ClusterRow
  BY DEF Inv, TypeOK
<1>2. ASSUME NEW c \in Connector, NEW build \in {"running", "not_started"}, Enroll(c, build),
             bootstrap' \in [connector: MaybeConnector, installer: {"NONE", "SUCCEEDED", "FAILED"}],
             cluster'.status = "BOOTSTRAPPING" => bootstrap'.connector = c,
             repository' \in MaybeConnector,
             UNCHANGED <<platform, secret, pod, report, polls, faults>>
      PROVE  BootstrapInv'
  <2>1. /\ live' = c /\ report = NoReport
        /\ inventory' = [status |-> "NOT_CONFIGURED", connector |-> c]
        /\ installer[c] = "unused" /\ installer' = [installer EXCEPT ![c] = build]
    BY <1>2 DEF Enroll, Unlocked, IsNextConnector
  <2>2. installer' \in [Connector -> InstallerState] /\ \A d \in polls' : Over(d)'
    BY <1>2, <2>1 DEF BootstrapInv, BootstrapTypeOK, Present, InstallerState, Over
  <2> QED
    BY <1>1, <1>2, <2>1, <2>2 DEF BootstrapInv, BootstrapTypeOK, Present, NoReport
<1>3. ASSUME cluster'.status # "BOOTSTRAPPING" \/ cluster'.status = cluster.status,
             UNCHANGED connectorVars
      PROVE  BootstrapInv'
  BY <1>1, <1>3 DEF connectorVars, BootstrapInv, BootstrapTypeOK, Present, Over
<1>4. CASE UNCHANGED connectorVars /\ Operation
  BY <1>1, <1>3, <1>4, OperationStatus DEF ClusterRunning
<1>5. CASE UNCHANGED connectorVars /\ \E b \in Build, r \in Request : RequestCallback(r, b)
  <2>1. cluster'.status = cluster.status
    BY <1>1, <1>5 DEF RequestCallback, ClusterRow
  <2> QED
    BY <1>3, <1>5, <2>1
<1>6. ASSUME NEW b \in Build, ClusterCompletes(b)
      PROVE  BootstrapInv'
  <2>1. CASE /\ cluster'.status \notin {"BOOTSTRAPPING", "BOOTSTRAP_FAILED"}
             /\ UNCHANGED <<live, bootstrap, inventory, installer, repository>>
    <3>1. UNCHANGED <<platform, secret, pod, report, polls, faults>>
      BY <1>6 DEF ClusterCompletes
    <3> QED
      BY <1>1, <2>1, <3>1 DEF BootstrapInv, BootstrapTypeOK, Present, Over
  <2>2. ASSUME NEW c \in Connector, Enroll(c, "running"), repository' = c,
               bootstrap' = [connector |-> c, installer |-> "NONE"]
        PROVE  BootstrapInv'
    BY <1>2, <1>6, <2>2 DEF ClusterCompletes
  <2>3. ASSUME NEW c \in Connector, Enroll(c, "not_started"), repository' \in {repository, c},
               cluster'.status = "BOOTSTRAP_FAILED",
               bootstrap' = [connector |-> NoConnector, installer |-> "NONE"]
        PROVE  BootstrapInv'
    BY <1>2, <1>6, <2>3 DEF ClusterCompletes, BootstrapInv, BootstrapTypeOK
  <2> QED
    BY <1>6, <2>1, <2>2, <2>3 DEF ClusterCompletes
<1>7. ASSUME NEW c \in Connector, RequestInstall(c)
      PROVE  BootstrapInv'
  <2>1. /\ bootstrap' = [bootstrap EXCEPT !.connector = c] /\ repository' = c /\ Enroll(c, "running")
        /\ UNCHANGED <<platform, secret, pod, report, polls, faults>>
    BY <1>7 DEF RequestInstall
  <2>2. bootstrap'.connector = c
        /\ bootstrap' \in [connector: MaybeConnector, installer: {"NONE", "SUCCEEDED", "FAILED"}]
    BY <2>1 DEF BootstrapInv, BootstrapTypeOK
  <2> QED
    BY <1>2, <2>1, <2>2
<1>8. ASSUME NEW ok \in BOOLEAN, ReportAccess(ok) \/ ReportComponents(ok)
      PROVE  BootstrapInv'
  <2>1. /\ \/ UNCHANGED <<vars, bootstrap>>
           \/ Move("ACTIVE") /\ bootstrap' = [bootstrap EXCEPT !.connector = report.connector]
        /\ report' = NoReport /\ platform' \in BOOLEAN
        /\ \/ pod' = pod
           \/ pod' = [pod EXCEPT !.ready = @ \/ (pod.connector = report.connector /\ pod.token = pod.connector)]
        /\ UNCHANGED <<live, inventory, installer, repository, secret, polls, faults>>
    BY <1>8 DEF ReportAccess, ReportComponents, Complete, BootstrapInv, BootstrapTypeOK
  <2>2. \/ cluster'.status = cluster.status /\ bootstrap' = bootstrap
        \/ cluster'.status = "ACTIVE"
    BY <1>1, <2>1 DEF vars, Move, ClusterRow
  <2>3. bootstrap' \in [connector: MaybeConnector, installer: {"NONE", "SUCCEEDED", "FAILED"}]
    BY <2>1 DEF BootstrapInv, BootstrapTypeOK
  <2>4. pod' \in [connector: MaybeConnector, token: MaybeConnector, ready: BOOLEAN]
    BY <2>1 DEF BootstrapInv, BootstrapTypeOK
  <2> QED
    BY <1>1, <2>1, <2>2, <2>3, <2>4 DEF BootstrapInv, BootstrapTypeOK, Present, NoReport, Over
<1>9. CASE ReportNamespaces
  BY <1>1, <1>9 DEF ReportNamespaces, vars, BootstrapInv, BootstrapTypeOK, Present, NoReport, Over
<1>10. ASSUME NEW c \in Connector, Refresh(c)
       PROVE  BootstrapInv'
  <2>1. /\ c \in polls /\ polls' = polls \ {c}
        /\ \/ UNCHANGED <<vars, bootstrap>>
           \/ /\ bootstrap' = [bootstrap EXCEPT !.installer = installer[c]]
              /\ Move("BOOTSTRAP_FAILED") \/ UNCHANGED vars
        /\ UNCHANGED <<live, inventory, platform, installer, repository, secret, pod, report, faults>>
    BY <1>10 DEF Refresh
  <2>2. installer[c] \in {"SUCCEEDED", "FAILED"}
    BY <2>1 DEF BootstrapInv, Present, Over
  <2>3. /\ bootstrap'.connector = bootstrap.connector
        /\ bootstrap' \in [connector: MaybeConnector, installer: {"NONE", "SUCCEEDED", "FAILED"}]
    BY <2>1, <2>2 DEF BootstrapInv, BootstrapTypeOK
  <2>4. cluster'.status = cluster.status \/ cluster'.status = "BOOTSTRAP_FAILED"
    BY <1>1, <2>1 DEF vars, Move, ClusterRow
  <2> QED
    BY <1>1, <2>1, <2>3, <2>4 DEF BootstrapInv, BootstrapTypeOK, Present, Over
<1>11. ASSUME NEW c \in Connector, InstallRolledBack(c) \/ WriteToken(c) \/ InstallerEnds(c)
       PROVE  BootstrapInv'
  <2>1. PICK state \in InstallerState :
          /\ installer' = [installer EXCEPT ![c] = state]
          /\ ~Over(c)
    BY <1>11 DEF InstallRolledBack, IsNextConnector, WriteToken, InstallerEnds, InstallerState, Over
  <2>2. /\ repository' \in MaybeConnector /\ secret' \in MaybeConnector
        /\ faults' \in 0 .. MaxFaults
        /\ UNCHANGED <<vars, live, bootstrap, inventory, platform, pod, report, polls>>
    <3>1. CASE InstallRolledBack(c)
      <4>1. /\ repository' = c /\ faults < MaxFaults /\ faults' = faults + 1
            /\ UNCHANGED <<vars, live, bootstrap, inventory, platform, secret, pod, report, polls>>
        BY <3>1 DEF InstallRolledBack
      <4> QED
        BY <4>1, ConnectorAssumption DEF BootstrapInv, BootstrapTypeOK
    <3>2. CASE WriteToken(c) \/ InstallerEnds(c)
      BY <3>2 DEF WriteToken, InstallerEnds, BootstrapInv, BootstrapTypeOK
    <3> QED
      BY <1>11, <3>1, <3>2
  <2>3. installer' \in [Connector -> InstallerState] /\ \A d \in polls' : Over(d)'
    BY <2>1, <2>2 DEF BootstrapInv, BootstrapTypeOK, Present, Over
  <2> QED
    BY <1>1, <2>2, <2>3 DEF vars, BootstrapInv, BootstrapTypeOK, Present
<1>12. ASSUME NEW c \in Connector, Inspect(c)
       PROVE  BootstrapInv'
  BY <1>1, <1>12 DEF Inspect, vars, BootstrapInv, BootstrapTypeOK, Present, Over
<1>13. CASE Deploy \/ RestartAgent \/ \E b \in Build : Terraform(b)
  <2>1. /\ pod' \in [connector: MaybeConnector, token: MaybeConnector, ready: BOOLEAN]
        /\ secret' \in MaybeConnector /\ faults' \in 0 .. MaxFaults
    <3>1. CASE Deploy
      BY <3>1 DEF Deploy, PodOf, BootstrapInv, BootstrapTypeOK
    <3>2. CASE RestartAgent
      BY <3>2, ConnectorAssumption DEF RestartAgent, PodOf, BootstrapInv, BootstrapTypeOK
    <3>3. CASE \E b \in Build : Terraform(b)
      <4>1. faults' = faults /\ \/ UNCHANGED <<secret, pod>>
                                \/ secret' = NoConnector /\ pod' = NoPod
        BY <3>3 DEF Terraform
      <4>2. NoPod \in [connector: MaybeConnector, token: MaybeConnector, ready: BOOLEAN]
        BY DEF NoPod
      <4>3. /\ pod \in [connector: MaybeConnector, token: MaybeConnector, ready: BOOLEAN]
            /\ secret \in MaybeConnector /\ faults \in 0 .. MaxFaults
        BY DEF BootstrapInv, BootstrapTypeOK
      <4> QED
        BY <4>1, <4>2, <4>3
    <3> QED
      BY <1>13, <3>1, <3>2, <3>3
  <2>2. cluster' = cluster
        /\ UNCHANGED <<live, bootstrap, inventory, platform, installer, repository, report, polls>>
    BY <1>13 DEF Deploy, RestartAgent, Terraform, Run, vars
  <2> QED
    BY <1>1, <2>1, <2>2 DEF BootstrapInv, BootstrapTypeOK, Present, Over
<1>14. CASE ReportFails \/ \E kind \in Kind : Authenticate(kind)
  <2>1. /\ report' \in {NoReport} \cup {[kind |-> kind, connector |-> live] : kind \in Kind}
        /\ UNCHANGED <<vars, live, bootstrap, inventory, platform, installer, repository, secret, pod,
                       polls, faults>>
    BY <1>14 DEF ReportFails, Authenticate
  <2>2. report' \in [kind: Kind \cup {"none"}, connector: MaybeConnector]
        /\ (report'.kind # "none" => report'.connector = live)
    BY <2>1 DEF NoReport, BootstrapInv, BootstrapTypeOK
  <2> QED
    BY <1>1, <2>1, <2>2 DEF vars, BootstrapInv, BootstrapTypeOK, Present, Over
<1>15. CASE UNCHANGED bootstrapVars
  BY <1>1, <1>15 DEF bootstrapVars, connectorVars, vars, BootstrapInv, BootstrapTypeOK, Present, Over
<1> QED
  BY <1>4, <1>5, <1>6, <1>7, <1>8, <1>9, <1>10, <1>11, <1>12, <1>13, <1>14, <1>15
     DEF BootstrapNext, ReportEnds

THEOREM BootstrapInvariance == BootstrapSpec => []BootstrapInv
<1>1. BootstrapSpec => []Inv
  BY BootstrapImplements, Invariance, PTL
<1> QED
  BY <1>1, BootstrapInitInv, BootstrapNextInv, PTL DEF BootstrapSpec

\* A cluster becomes ready by the connector that is installed, after it has
\* reported its namespaces.
THEOREM PresentConnectorReadies == BootstrapSpec => ReadyByPresent
<1>1. ASSUME BootstrapInv, BootstrapNext, cluster.status # "ACTIVE", cluster'.status = "ACTIVE"
      PROVE  \/ cluster.status \in ClusterRunning /\ Finished(cluster.execution)
             \/ /\ cluster.status = "BOOTSTRAPPING"
                /\ report.connector = live /\ bootstrap.connector = live
                /\ inventory = [status |-> "READY", connector |-> live]
  <2>1. cluster \in ClusterRow
    BY <1>1 DEF BootstrapInv, BootstrapTypeOK, TypeOK
  <2>2. CASE \E ok \in BOOLEAN : ReportAccess(ok) \/ ReportComponents(ok)
    <3>1. Awaited /\ report.kind # "none"
      BY <1>1, <2>2 DEF ReportAccess, ReportComponents, Complete, vars
    <3> QED
      BY <1>1, <3>1 DEF Awaited, BootstrapInv, BootstrapTypeOK, Present
  <2>3. CASE \E b \in Build : ClusterCompletes(b)
    BY <2>3 DEF ClusterCompletes, ClusterCallback, Executes
  <2>4. CASE \/ \E b \in Build : Terraform(b)
             \/ \E c \in Connector : InstallRolledBack(c) \/ WriteToken(c) \/ InstallerEnds(c) \/ Inspect(c)
             \/ Deploy \/ RestartAgent \/ ReportFails \/ ReportNamespaces
             \/ \E kind \in Kind : Authenticate(kind)
    BY <1>1, <2>4 DEF Terraform, Run, InstallRolledBack, WriteToken, InstallerEnds, Inspect, Deploy,
       RestartAgent, ReportFails, ReportNamespaces, Authenticate, vars
  <2>5. CASE \E c \in Connector : RequestInstall(c) \/ Refresh(c)
    BY <1>1, <2>1, <2>5 DEF RequestInstall, InstallConnector, Refresh, Move, vars, ClusterRow
  <2>6. CASE Operation
    BY <1>1, <2>6, OperationStatus DEF ClusterRunning, BootstrapInv, BootstrapTypeOK
  <2>7. CASE \E b \in Build, r \in Request : RequestCallback(r, b)
    BY <1>1, <2>1, <2>7 DEF RequestCallback, ClusterRow
  <2> QED
    BY <1>1, <2>2, <2>3, <2>4, <2>5, <2>6, <2>7 DEF BootstrapNext, ReportEnds
<1> QED
  BY <1>1, BootstrapInvariance, PTL DEF BootstrapSpec, ReadyByPresent

\* A bootstrap is failed by the installer of its own connector only.
THEOREM OwnInstallerFails == BootstrapSpec => FailsByOwnInstaller
<1>1. ASSUME BootstrapInv, BootstrapNext, cluster.status = "BOOTSTRAPPING",
             cluster'.status = "BOOTSTRAP_FAILED"
      PROVE  live \in Connector /\ installer[live] = "FAILED" /\ bootstrap.connector = live
  <2>1. cluster \in ClusterRow
    BY <1>1 DEF BootstrapInv, BootstrapTypeOK, TypeOK
  <2>2. CASE \E c \in Connector : Refresh(c)
    BY <1>1, <2>2 DEF Refresh, Waiting, vars
  <2>3. CASE \E b \in Build : ClusterCompletes(b)
    BY <1>1, <2>3 DEF ClusterCompletes, ClusterCallback, ClusterRunning
  <2>4. CASE \E ok \in BOOLEAN : ReportAccess(ok) \/ ReportComponents(ok)
    BY <1>1, <2>1, <2>4 DEF ReportAccess, ReportComponents, Complete, Move, vars, ClusterRow
  <2>5. CASE \E c \in Connector : RequestInstall(c)
    BY <1>1, <2>1, <2>5 DEF RequestInstall, InstallConnector, Move, ClusterRow
  <2>6. CASE Operation
    BY <1>1, <2>6, OperationStatus DEF ClusterRunning, BootstrapInv, BootstrapTypeOK
  <2>7. CASE \E b \in Build, r \in Request : RequestCallback(r, b)
    BY <1>1, <2>1, <2>7 DEF RequestCallback, ClusterRow
  <2>8. CASE \/ \E b \in Build : Terraform(b)
             \/ \E c \in Connector : InstallRolledBack(c) \/ WriteToken(c) \/ InstallerEnds(c) \/ Inspect(c)
             \/ Deploy \/ RestartAgent \/ ReportFails \/ ReportNamespaces
             \/ \E kind \in Kind : Authenticate(kind)
    BY <1>1, <2>8 DEF Terraform, Run, InstallRolledBack, WriteToken, InstallerEnds, Inspect, Deploy,
       RestartAgent, ReportFails, ReportNamespaces, Authenticate, vars
  <2> QED
    BY <1>1, <2>2, <2>3, <2>4, <2>5, <2>6, <2>7, <2>8 DEF BootstrapNext, ReportEnds
<1> QED
  BY <1>1, BootstrapInvariance, PTL DEF BootstrapSpec, FailsByOwnInstaller

-----------------------------------------------------------------------------
(* Bootstraps end. *)

\* Who runs with a token that is its own says that it is ready, and an installer
\* that has succeeded with its token in place has seen its agent.
TokensMatch ==
  /\ pod.ready => pod.token = pod.connector
  /\ \A c \in Connector : installer[c] = "SUCCEEDED" /\ secret = c /\ pod.connector = c => pod.token = c

\* The connector that a bootstrap waits for has its installer.
InstallerStarted == cluster.status = "BOOTSTRAPPING" => installer[live] \notin {"unused", "not_started"}

EndInv == BootstrapInv /\ TokensMatch /\ InstallerStarted

\* What becomes of the installers.
InstallersStep ==
  \/ installer' = installer
  \/ \E c \in Connector :
       \/ /\ installer[c] = "unused" /\ UNCHANGED <<secret, pod>>
          /\ \E build \in {"running", "not_started"} : installer' = [installer EXCEPT ![c] = build]
       \/ WriteToken(c)
       \/ InstallerEnds(c)

LEMMA InstallersChange == [BootstrapNext]_bootstrapVars => InstallersStep
<1> SUFFICES ASSUME [BootstrapNext]_bootstrapVars PROVE InstallersStep
  OBVIOUS
<1>1. ASSUME NEW c \in Connector, NEW build \in {"running", "not_started"}, Enroll(c, build),
             UNCHANGED <<secret, pod>>
      PROVE  InstallersStep
  BY <1>1 DEF Enroll, IsNextConnector, InstallersStep
<1>2. ASSUME NEW c \in Connector, RequestInstall(c) \/ InstallRolledBack(c)
      PROVE  InstallersStep
  <2>1. CASE RequestInstall(c)
    BY <1>1, <2>1 DEF RequestInstall
  <2>2. CASE InstallRolledBack(c)
    BY <2>2 DEF InstallRolledBack, IsNextConnector, InstallersStep
  <2> QED
    BY <1>2, <2>1, <2>2
<1>3. ASSUME NEW b \in Build, ClusterCompletes(b)
      PROVE  InstallersStep
  <2>1. /\ UNCHANGED <<secret, pod>>
        /\ \/ installer' = installer
           \/ \E c \in Connector, build \in {"running", "not_started"} : Enroll(c, build)
    BY <1>3 DEF ClusterCompletes
  <2> QED
    BY <1>1, <2>1 DEF InstallersStep
<1>4. CASE \E c \in Connector : WriteToken(c) \/ InstallerEnds(c)
  BY <1>4 DEF InstallersStep
<1>5. CASE \/ UNCHANGED connectorVars
           \/ \E c \in Connector : Inspect(c) \/ Refresh(c)
           \/ \E b \in Build : Terraform(b)
           \/ Deploy \/ RestartAgent \/ ReportEnds
           \/ \E kind \in Kind : Authenticate(kind)
  BY <1>5 DEF connectorVars, Inspect, Refresh, Terraform, Deploy, RestartAgent, ReportEnds,
     ReportFails, ReportNamespaces, ReportAccess, ReportComponents, Authenticate, InstallersStep
<1> QED
  BY <1>2, <1>3, <1>4, <1>5 DEF BootstrapNext, bootstrapVars

\* An installer that was started stays so, and one that is over has its last word.
LEMMA InstallersProgress ==
  ASSUME BootstrapInv, [BootstrapNext]_bootstrapVars, NEW c \in Connector
  PROVE  /\ installer[c] \notin {"unused", "not_started"} => installer'[c] \notin {"unused", "not_started"}
         /\ Over(c) => installer'[c] = installer[c]
<1>1. installer \in [Connector -> InstallerState]
  BY DEF BootstrapInv, BootstrapTypeOK
<1> QED
  BY <1>1, InstallersChange DEF InstallersStep, WriteToken, InstallerEnds, Over

\* What becomes of the token and of the agent.
AgentStep ==
  \/ UNCHANGED <<secret, pod>>
  \/ (\E c \in Connector : WriteToken(c)) \/ Deploy \/ RestartAgent
  \/ /\ UNCHANGED <<secret, installer>>
     /\ pod' = [pod EXCEPT !.ready = @ \/ (pod.connector = report.connector /\ pod.token = pod.connector)]
  \/ ~infra'.exists /\ secret' = NoConnector /\ pod' = NoPod /\ installer' = installer

LEMMA AgentChanges == [BootstrapNext]_bootstrapVars => AgentStep
<1> SUFFICES ASSUME [BootstrapNext]_bootstrapVars PROVE AgentStep
  OBVIOUS
<1>1. CASE \/ \E c \in Connector : RequestInstall(c) \/ InstallRolledBack(c)
           \/ \E b \in Build : ClusterCompletes(b)
  BY <1>1 DEF RequestInstall, InstallRolledBack, ClusterCompletes, AgentStep
<1>2. CASE \/ UNCHANGED connectorVars
           \/ \E c \in Connector : InstallerEnds(c) \/ Inspect(c) \/ Refresh(c)
           \/ \E kind \in Kind : Authenticate(kind)
  BY <1>2 DEF connectorVars, InstallerEnds, Inspect, Refresh, Authenticate, AgentStep
<1>3. CASE ReportEnds
  BY <1>3 DEF ReportEnds, ReportFails, ReportNamespaces, ReportAccess, ReportComponents, AgentStep
<1>4. CASE \E b \in Build : Terraform(b)
  BY <1>4 DEF Terraform, AgentStep
<1>5. CASE (\E c \in Connector : WriteToken(c)) \/ Deploy \/ RestartAgent
  BY <1>5 DEF AgentStep
<1> QED
  BY <1>1, <1>2, <1>3, <1>4, <1>5 DEF BootstrapNext, bootstrapVars

LEMMA TokensMatchStep ==
  ASSUME BootstrapInv, TokensMatch, [BootstrapNext]_bootstrapVars
  PROVE  TokensMatch'
<1> USE DEF TokensMatch
<1>1. /\ installer \in [Connector -> InstallerState]
      /\ pod \in [connector: MaybeConnector, token: MaybeConnector, ready: BOOLEAN]
      /\ NoConnector \notin Connector
  BY ConnectorAssumption DEF BootstrapInv, BootstrapTypeOK, NoConnector
<1>2. CASE UNCHANGED <<secret, pod>> /\ InstallersStep
  BY <1>1, <1>2 DEF InstallersStep, WriteToken, InstallerEnds
<1>3. ASSUME NEW c \in Connector, WriteToken(c)
      PROVE  TokensMatch'
  BY <1>1, <1>3 DEF WriteToken
<1>4. CASE Deploy \/ RestartAgent
  BY <1>1, <1>4 DEF Deploy, RestartAgent, PodOf
<1>5. CASE /\ UNCHANGED <<secret, installer>>
           /\ pod' = [pod EXCEPT !.ready =
                        @ \/ (pod.connector = report.connector /\ pod.token = pod.connector)]
  BY <1>1, <1>5
<1>6. CASE secret' = NoConnector /\ pod' = NoPod
  BY <1>1, <1>6 DEF NoPod
<1> QED
  BY <1>2, <1>3, <1>4, <1>5, <1>6, InstallersChange, AgentChanges DEF AgentStep

\* A cluster that goes on waiting waits for the same connector, and keeps what
\* that has reported, unless another one is installed.
LEMMA StillWaits ==
  ASSUME Inv, BootstrapInv, [BootstrapNext]_bootstrapVars, cluster'.status = "BOOTSTRAPPING"
  PROVE  \/ \E c \in Connector : Enroll(c, "running") /\ bootstrap'.connector = c
         \/ /\ cluster.status = "BOOTSTRAPPING"
            /\ live' = live /\ bootstrap'.connector = bootstrap.connector
            /\ inventory.status = "READY" => inventory'.status = "READY"
<1> DEFINE Another == \E c \in Connector : Enroll(c, "running") /\ bootstrap'.connector = c
           Same == /\ cluster.status = "BOOTSTRAPPING"
                   /\ live' = live /\ bootstrap'.connector = bootstrap.connector
                   /\ inventory.status = "READY" => inventory'.status = "READY"
<1>1. /\ cluster \in ClusterRow
      /\ bootstrap \in [connector: MaybeConnector, installer: {"NONE", "SUCCEEDED", "FAILED"}]
  BY DEF BootstrapInv, BootstrapTypeOK, TypeOK
<1>2. CASE Operation /\ UNCHANGED connectorVars
  <2>1. cluster.status = "BOOTSTRAPPING"
    BY <1>2, OperationStatus DEF ClusterRunning, BootstrapInv, BootstrapTypeOK
  <2> QED
    BY <1>2, <2>1 DEF connectorVars
<1>3. CASE UNCHANGED connectorVars /\ \E b \in Build, r \in Request : RequestCallback(r, b)
  BY <1>1, <1>3 DEF RequestCallback, connectorVars, ClusterRow
<1>4. ASSUME NEW b \in Build, ClusterCompletes(b)
      PROVE  Another
  BY <1>4 DEF ClusterCompletes
<1>5. ASSUME NEW c \in Connector, RequestInstall(c)
      PROVE  Another
  BY <1>1, <1>5 DEF RequestInstall
<1>6. CASE ReportEnds
  <2>1. CASE ReportFails \/ ReportNamespaces
    BY <2>1 DEF ReportFails, ReportNamespaces, vars
  <2>2. ASSUME NEW ok \in BOOLEAN, ReportAccess(ok) \/ ReportComponents(ok)
        PROVE  Same
    <3>1. UNCHANGED <<vars, bootstrap>>
      BY <1>1, <2>2 DEF ReportAccess, ReportComponents, Complete, Move, ClusterRow
    <3> QED
      BY <2>2, <3>1 DEF ReportAccess, ReportComponents, vars
  <2> QED
    BY <1>6, <2>1, <2>2 DEF ReportEnds
<1>7. ASSUME NEW c \in Connector, Refresh(c)
      PROVE  Same
  <2>1. UNCHANGED vars /\ UNCHANGED <<live, inventory>> /\ bootstrap'.connector = bootstrap.connector
    BY <1>1, <1>7 DEF Refresh, Move, ClusterRow
  <2> QED
    BY <2>1 DEF vars
<1>8. CASE \/ UNCHANGED bootstrapVars
           \/ \E c \in Connector : InstallRolledBack(c) \/ WriteToken(c) \/ InstallerEnds(c) \/ Inspect(c)
           \/ \E b \in Build : Terraform(b)
           \/ Deploy \/ RestartAgent \/ \E kind \in Kind : Authenticate(kind)
  <2>1. UNCHANGED <<cluster, live, bootstrap, inventory>>
    BY <1>8 DEF bootstrapVars, connectorVars, InstallRolledBack, WriteToken, InstallerEnds, Inspect,
       Terraform, Run, Deploy, RestartAgent, Authenticate, vars
  <2> QED
    BY <2>1
<1> QED
  BY <1>2, <1>3, <1>4, <1>5, <1>6, <1>7, <1>8 DEF BootstrapNext

LEMMA EndInvariance == BootstrapSpec => []EndInv
<1>1. BootstrapInit => TokensMatch /\ InstallerStarted
  BY ConnectorAssumption DEF BootstrapInit, Init, TokensMatch, InstallerStarted, NoPod, NoConnector
<1>2. ASSUME Inv, BootstrapInv, BootstrapInv', InstallerStarted, [BootstrapNext]_bootstrapVars
      PROVE  InstallerStarted'
  <2> SUFFICES ASSUME cluster'.status = "BOOTSTRAPPING"
               PROVE  installer'[live'] \notin {"unused", "not_started"}
    BY DEF InstallerStarted
  <2>1. installer \in [Connector -> InstallerState] /\ live' \in Connector
    BY <1>2 DEF BootstrapInv, BootstrapTypeOK, Present
  <2>2. CASE \E c \in Connector : Enroll(c, "running")
    BY <2>1, <2>2 DEF Enroll
  <2>3. CASE cluster.status = "BOOTSTRAPPING" /\ live' = live
    BY <1>2, <2>1, <2>3, InstallersProgress DEF InstallerStarted
  <2> QED
    BY <1>2, <2>2, <2>3, StillWaits
<1>3. BootstrapSpec => [](Inv /\ BootstrapInv)
  BY BootstrapImplements, Invariance, BootstrapInvariance, PTL
<1> QED
  BY <1>1, <1>2, <1>3, TokensMatchStep, PTL DEF BootstrapSpec, EndInv

\* The bootstrap of c goes on, with what it needs.
Goes(c) == Bootstrapping(c) /\ ~Stranded(c)

\* While it goes on nothing is installed, so that what was reported stays.
LEMMA GoesOn ==
  ASSUME Inv, EndInv, [BootstrapNext]_bootstrapVars, NEW c \in Connector, Goes(c), Goes(c)'
  PROVE  /\ live = c /\ live' = c
         /\ inventory.status = "READY" => inventory'.status = "READY"
<1>1. live = c
  BY DEF Goes, Bootstrapping, EndInv, BootstrapInv, Present
<1>2. installer[c] # "unused"
  BY <1>1 DEF EndInv, InstallerStarted, Goes, Bootstrapping
<1>3. ~(\E d \in Connector : Enroll(d, "running") /\ bootstrap'.connector = d)
  BY <1>2 DEF Enroll, IsNextConnector, Goes, Bootstrapping
<1> QED
  BY <1>1, <1>3, StillWaits DEF Goes, Bootstrapping, EndInv

\* The agent of c, once deployed, stays, and has c's token when the installer
\* has succeeded.
LEMMA AgentStays ==
  ASSUME EndInv, [BootstrapNext]_bootstrapVars, NEW c \in Connector, Goes(c), Goes(c)',
         pod.connector = c
  PROVE  /\ pod'.connector = c
         /\ installer[c] = "SUCCEEDED" => pod.token = c
<1>1. pod \in [connector: MaybeConnector, token: MaybeConnector, ready: BOOLEAN]
  BY DEF EndInv, BootstrapInv, BootstrapTypeOK
<1>2. infra.exists /\ infra'.exists /\ repository = c
  BY DEF Goes, Stranded
<1>3. pod'.connector = c
  BY <1>1, <1>2, AgentChanges DEF AgentStep, WriteToken, Deploy, RestartAgent, PodOf
<1>4. installer[c] = "SUCCEEDED" => pod.token = c
  BY DEF EndInv, TokensMatch, Goes, Stranded
<1> QED
  BY <1>3, <1>4

\* A poll that has seen the end of an installer is answered by its own refresh only.
LEMMA PollStays ==
  ASSUME [BootstrapNext]_bootstrapVars, NEW c \in Connector, c \in polls
  PROVE  c \in polls' \/ Refresh(c)
<1>1. ASSUME NEW d \in Connector, Refresh(d) \/ Inspect(d)
      PROVE  c \in polls' \/ Refresh(c)
  BY <1>1 DEF Refresh, Inspect
<1>2. CASE \/ UNCHANGED connectorVars
           \/ \E d \in Connector : RequestInstall(d) \/ InstallRolledBack(d) \/ WriteToken(d) \/ InstallerEnds(d)
           \/ \E b \in Build : ClusterCompletes(b) \/ Terraform(b)
           \/ Deploy \/ RestartAgent \/ ReportEnds
           \/ \E kind \in Kind : Authenticate(kind)
  BY <1>2 DEF connectorVars, RequestInstall, InstallRolledBack, WriteToken, InstallerEnds,
     ClusterCompletes, Terraform, Deploy, RestartAgent, ReportEnds, ReportFails, ReportNamespaces,
     ReportAccess, ReportComponents, Authenticate
<1> QED
  BY <1>1, <1>2 DEF BootstrapNext, bootstrapVars

\* What a suffix of a behaviour knows of its steps.
BootstrapRuns ==
  []Inv /\ []EndInv /\ []BootstrapGuardsSuffice /\ [][BootstrapNext]_bootstrapVars

LEMMA SuffixRuns == BootstrapSpec /\ []BootstrapGuardsSuffice => BootstrapRuns
BY BootstrapImplements, Invariance, EndInvariance, PTL DEF BootstrapSpec, BootstrapRuns

\* The installer ends.
LEMMA InstallerIsOver ==
  ASSUME NEW c \in Connector
  PROVE  BootstrapRuns /\ InstallerFairness(c)
         => []([]Goes(c) => <>[](installer[c] = "FAILED") \/ <>[](installer[c] = "SUCCEEDED"))
<1> DEFINE W == Goes(c)
           Fl == installer[c] = "FAILED"
           Su == installer[c] = "SUCCEEDED"
<1>1. EndInv /\ W => Fl \/ Su \/ installer[c] \in {"running", "token_written"}
  BY DEF EndInv, BootstrapInv, BootstrapTypeOK, InstallerState, InstallerStarted, Present, Goes,
     Bootstrapping
<1>2. EndInv /\ <<InstallerEnds(c)>>_bootstrapVars => (Fl \/ Su)'
  BY DEF EndInv, BootstrapInv, BootstrapTypeOK, InstallerEnds
<1>3. EndInv /\ [BootstrapNext]_bootstrapVars => (Fl => Fl') /\ (Su => Su')
  BY InstallersProgress DEF EndInv, Over
<1>4. BootstrapGuardsSuffice /\ EndInv =>
        (W /\ ~Fl /\ ~Su => ENABLED <<InstallerEnds(c)>>_bootstrapVars)
  BY <1>1 DEF BootstrapGuardsSuffice
<1> HIDE DEF W, Fl, Su
<1>5. BootstrapRuns /\ InstallerFairness(c) => []([]W => <>[]Fl \/ <>[]Su)
  BY <1>2, <1>3, <1>4, PTL DEF BootstrapRuns, InstallerFairness
<1> QED
  BY <1>5 DEF W, Fl, Su

\* Between reports the row of the connector is free, again and again.
LEMMA ReportsEnd ==
  BootstrapRuns /\ AgentFairness => []<>Unlocked
<1>1. <<ReportEnds>>_bootstrapVars => Unlocked'
  BY DEF ReportEnds, ReportFails, ReportNamespaces, ReportAccess, ReportComponents, Unlocked
<1>2. BootstrapGuardsSuffice => (~Unlocked => ENABLED <<ReportEnds>>_bootstrapVars)
  BY DEF BootstrapGuardsSuffice
<1> QED
  BY <1>1, <1>2, PTL DEF BootstrapRuns, AgentFairness

\* The failure of an installer is recorded.
LEMMA FailureIsShown ==
  ASSUME NEW c \in Connector
  PROVE  BootstrapRuns /\ ScreenFairness(c) /\ AgentFairness
         => []~([]Goes(c) /\ [](installer[c] = "FAILED"))
<1> DEFINE W == Goes(c)
           Fl == installer[c] = "FAILED"
           Polled == c \in polls
<1>1. EndInv /\ W /\ Fl => Waiting(c) /\ Over(c)
  BY DEF EndInv, BootstrapInv, Present, Goes, Bootstrapping, Stranded, Waiting, Over
<1>2. EndInv /\ BootstrapGuardsSuffice =>
        (W /\ Fl /\ ~Polled => ENABLED <<Inspect(c)>>_bootstrapVars)
  BY <1>1 DEF BootstrapGuardsSuffice
<1>3. <<Inspect(c)>>_bootstrapVars => Polled'
  BY DEF Inspect
<1>4. BootstrapGuardsSuffice => (Polled /\ Unlocked => ENABLED <<Refresh(c)>>_bootstrapVars)
  BY DEF BootstrapGuardsSuffice
<1>5. Inv /\ EndInv /\ W /\ Fl /\ Refresh(c) => ~W'
  <2> SUFFICES ASSUME Inv, EndInv, W, Fl, Refresh(c) PROVE cluster'.status # "BOOTSTRAPPING"
    BY DEF Goes, Bootstrapping
  <2>1. Move("BOOTSTRAP_FAILED")
    BY <1>1 DEF Refresh
  <2> QED
    BY <2>1 DEF Move, Inv, TypeOK, ClusterRow
<1>6. Inv /\ EndInv /\ [BootstrapNext]_bootstrapVars /\ W /\ W' /\ Fl /\ Polled => Polled'
  BY <1>5, PollStays
<1> HIDE DEF W, Fl, Polled
<1>7. BootstrapRuns /\ ScreenFairness(c) /\ AgentFairness => []~([]W /\ []Fl)
  BY <1>2, <1>3, <1>4, <1>5, <1>6, ReportsEnd, PTL DEF BootstrapRuns, ScreenFairness
<1> QED
  BY <1>7 DEF W, Fl

\* Once the installer has succeeded, the agent of c is deployed with its token, and stays.
LEMMA AgentIsDeployed ==
  ASSUME NEW c \in Connector
  PROVE  BootstrapRuns /\ AgentFairness
         => []([]Goes(c) /\ [](installer[c] = "SUCCEEDED") => <>[](pod.connector = c /\ pod.token = c))
<1> DEFINE W == Goes(c)
           Su == installer[c] = "SUCCEEDED"
           Deployed == pod.connector = c
           Ready == pod.connector = c /\ pod.token = c
<1>1. W /\ Su => infra.exists /\ secret = c /\ repository = c /\ c # NoConnector
  BY ConnectorAssumption DEF Goes, Stranded, NoConnector
<1>2. BootstrapGuardsSuffice => (W /\ Su /\ ~Deployed => ENABLED <<Deploy>>_bootstrapVars)
  BY <1>1 DEF BootstrapGuardsSuffice
<1>3. W /\ <<Deploy>>_bootstrapVars => Deployed'
  BY DEF Goes, Stranded, Deploy, PodOf
<1>4. Inv /\ EndInv /\ [BootstrapNext]_bootstrapVars /\ W /\ W' /\ Deployed => Deployed'
  BY AgentStays
<1>5. EndInv /\ W /\ Su /\ Deployed => Ready
  BY DEF EndInv, TokensMatch, Goes, Stranded
<1> HIDE DEF W, Su, Deployed, Ready
<1>6. BootstrapRuns /\ AgentFairness => []([]W /\ []Su => <>[]Ready)
  BY <1>2, <1>3, <1>4, <1>5, PTL DEF BootstrapRuns, AgentFairness
<1> QED
  BY <1>6 DEF W, Su, Ready

\* An agent with its token reports its namespaces, and a platform that is ready.
LEMMA SuccessIsReported ==
  ASSUME NEW c \in Connector
  PROVE  BootstrapRuns /\ AgentFairness /\ ComponentsStayReady
         => []~([]Goes(c) /\ <>[](pod.connector = c /\ pod.token = c))
<1> DEFINE W == Goes(c)
           Ready == pod.connector = c /\ pod.token = c
           Namespaces == report.kind = "namespaces"
           Components == report.kind = "components"
           Inventory == inventory.status = "READY"
<1>1. EndInv /\ BootstrapGuardsSuffice =>
        (W /\ Ready /\ Unlocked => /\ ENABLED <<Authenticate("namespaces")>>_bootstrapVars
                                   /\ ENABLED <<Authenticate("components")>>_bootstrapVars)
  <2>1. W /\ Ready /\ EndInv => live # NoConnector /\ pod.connector = live /\ pod.token = live
    BY ConnectorAssumption DEF EndInv, BootstrapInv, Present, Goes, Bootstrapping, NoConnector
  <2> QED
    BY <2>1 DEF BootstrapGuardsSuffice
<1>2. /\ <<Authenticate("namespaces")>>_bootstrapVars => Namespaces'
      /\ <<Authenticate("components")>>_bootstrapVars => Components'
  BY DEF Authenticate
<1>3. BootstrapGuardsSuffice =>
        /\ Namespaces => ENABLED <<ReportNamespaces>>_bootstrapVars
        /\ Components => ENABLED <<ReportPlatform>>_bootstrapVars
  BY DEF BootstrapGuardsSuffice
<1>4. <<ReportNamespaces>>_bootstrapVars => Inventory'
  BY DEF ReportNamespaces
<1>5. Inv /\ EndInv /\ [BootstrapNext]_bootstrapVars /\ W /\ W' /\ Inventory => Inventory'
  BY GoesOn
<1>6. /\ Inv /\ W /\ Inventory /\ [~ReportComponents(FALSE)]_bootstrapVars
      /\ <<ReportPlatform>>_bootstrapVars
      => ~W'
  <2> SUFFICES ASSUME Inv, W, Inventory, ReportComponents(TRUE)
               PROVE  cluster'.status # "BOOTSTRAPPING"
    BY DEF ReportPlatform, Goes, Bootstrapping
  <2>1. Move("ACTIVE")
    BY DEF ReportComponents, Complete, Awaited, Goes, Bootstrapping
  <2> QED
    BY <2>1 DEF Move, Inv, TypeOK, ClusterRow
<1> HIDE DEF W, Ready, Namespaces, Components, Inventory
<1>7. BootstrapRuns /\ AgentFairness => []([]W /\ <>[]Ready => <>[]Inventory)
  BY <1>1, <1>2, <1>3, <1>4, <1>5, ReportsEnd, PTL DEF BootstrapRuns, AgentFairness
<1>8. BootstrapRuns /\ AgentFairness /\ ComponentsStayReady
        => []~([]W /\ <>[]Ready /\ <>[]Inventory)
  BY <1>1, <1>2, <1>3, <1>6, ReportsEnd, PTL DEF BootstrapRuns, AgentFairness, ComponentsStayReady
<1>9. BootstrapRuns /\ AgentFairness /\ ComponentsStayReady => []~([]W /\ <>[]Ready)
  BY <1>7, <1>8, PTL DEF ComponentsStayReady
<1> QED
  BY <1>9 DEF W, Ready

LEMMA EachBootstrapEnds ==
  ASSUME NEW c \in Connector
  PROVE  /\ BootstrapRuns
         /\ InstallerFairness(c) /\ ScreenFairness(c) /\ AgentFairness /\ ComponentsStayReady
         => BootstrapEnds(c)
<1> DEFINE W == Goes(c)
           B == Bootstrapping(c)
           S == Stranded(c)
           Fl == installer[c] = "FAILED"
           Su == installer[c] = "SUCCEEDED"
           Ready == pod.connector = c /\ pod.token = c
           Hypotheses == /\ BootstrapRuns /\ ComponentsStayReady
                         /\ InstallerFairness(c) /\ ScreenFairness(c) /\ AgentFairness
<1>1. Hypotheses => []([]W => <>[]Fl \/ <>[]Su)
  BY InstallerIsOver
<1>2. Hypotheses => []~([]W /\ []Fl)
  BY FailureIsShown
<1>3. Hypotheses => []([]W /\ []Su => <>[]Ready)
  BY AgentIsDeployed
<1>4. Hypotheses => []~([]W /\ <>[]Ready)
  BY SuccessIsReported
<1>5. W <=> B /\ ~S
  BY DEF Goes
<1> HIDE DEF W, B, S, Fl, Su, Ready
<1>6. Hypotheses => (B ~> ~B \/ S)
  BY <1>1, <1>2, <1>3, <1>4, <1>5, PTL
     DEF BootstrapRuns, InstallerFairness, ScreenFairness, AgentFairness, ComponentsStayReady
<1> QED
  BY <1>6 DEF B, S, BootstrapEnds

\* Every bootstrap ends, in a platform that is ready or in a failure that is
\* shown, whatever is installed, rolled back, restarted or reported meanwhile, and
\* however many connectors there are, except one that is stranded, and unless
\* reports of components that are not ready never cease.
THEOREM BootstrapsFinish == FairBootstrapSpec /\ []BootstrapGuardsSuffice => BootstrapsEnd
BY SuffixRuns, EachBootstrapEnds DEF FairBootstrapSpec, BootstrapFairness, BootstrapsEnd

=============================================================================
