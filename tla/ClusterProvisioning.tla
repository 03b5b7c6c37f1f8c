-------------------------- MODULE ClusterProvisioning --------------------------
(***************************************************************************)
(* A cluster from its first Terraform plan on, with its application        *)
(* node-group requests (cluster_management/service.py) and the callbacks   *)
(* that record what the builds did (status_handler.py).  Every operation   *)
(* is one transaction under the cluster's row lock.  It may start a build  *)
(* and then fail to commit: the build runs although no row names it.       *)
(*                                                                         *)
(* The approval that leads here is not part of this module; nor are the    *)
(* roles of the callers and the version numbers the row locks make a mere  *)
(* staleness check.  Of the connector only what it does to the status is   *)
(* here; ConnectorBootstrap has the rest.                                  *)
(***************************************************************************)
EXTENDS TerraformRunner

CONSTANTS Request,        \* requested application node groups, by name
          System,         \* the initial system node group
          Operations,     \* the cluster operations users call
          MaxRollbacks    \* transactions that start a build and do not commit

ASSUME ProvisioningAssumption ==
  /\ Request \subseteq Group /\ System \in Group
  /\ Operations \subseteq Mode \cup {"migrate", "install"}
  /\ MaxRollbacks \in Nat

VARIABLES cluster,        \* the row of clusters
          request,        \* [Request -> the row of cluster_node_group_requests]
          rollbacks       \* rolled back transactions so far

vars == <<builds, infra, cluster, request, rollbacks>>

ClusterStatus == {"PLAN_RUNNING", "PLAN_READY", "APPLYING", "BOOTSTRAPPING", "BOOTSTRAP_FAILED",
                  "ACTIVE", "STOPPING", "STOPPED", "STARTING", "DELETING", "DELETED", "FAILED"}
RequestStatus == {"absent", "DRAFT", "SUBMITTED", "REJECTED", "PLAN_RUNNING", "PLAN_READY",
                  "APPLYING", "ACTIVE", "FAILED"}
ClusterRow == [status: ClusterStatus, execution: Build \cup {NoBuild}, plan: Artefact,
               certified: Certification, config: Config, migrating: BOOLEAN]
RequestRow == [status: RequestStatus, execution: Build \cup {NoBuild}, plan: Artefact,
               certified: Certification]

ClusterRunning == {"PLAN_RUNNING", "APPLYING", "STOPPING", "STARTING", "DELETING"}
RequestRunning == {"PLAN_RUNNING", "APPLYING"}

TypeOK ==
  /\ RunnerTypeOK
  /\ cluster \in ClusterRow
  /\ request \in [Request -> RequestRow]
  /\ rollbacks \in 0 .. MaxRollbacks

NoPlan == [key |-> NoBuild, sha |-> NoBuild]
NewRequest == [status |-> "absent", execution |-> NoBuild, plan |-> NoPlan, certified |-> "NONE"]
InitialConfig == [managed |-> {System}, adopted |-> {}, legacy |-> NoGroup]
UnusedBuild == [state |-> "unused", mode |-> "plan", config |-> InitialConfig,
                artefact |-> NoPlan, certified |-> "NONE", fresh |-> FALSE]

\* Approval has started the first plan.
Init ==
  /\ \E b \in Build :
       /\ \A a \in Build : b <= a
       /\ builds = [a \in Build |-> IF a = b THEN NewBuild("plan", InitialConfig, NoPlan)
                                             ELSE UnusedBuild]
       /\ cluster = [status |-> "PLAN_RUNNING", execution |-> b,
                     plan |-> [key |-> b, sha |-> NoBuild], certified |-> "NONE",
                     config |-> InitialConfig, migrating |-> FALSE]
  /\ infra = [exists |-> FALSE, groups |-> {}]
  /\ request = [r \in Request |-> NewRequest]
  /\ rollbacks = 0

-----------------------------------------------------------------------------

Names(config) == config.managed \cup config.adopted

\* The group of purpose SYSTEM: the initial one until another is adopted.
SystemGroups(config) == IF config.adopted = {} THEN {System} ELSE config.adopted
ActiveRequests == {r \in Request : request[r].status = "ACTIVE"}

\* reconcile_active_application_node_groups.
Reconciled == [cluster.config EXCEPT !.managed = @ \cup (ActiveRequests \ Names(cluster.config))]

\* Provisioner.start within the transaction that writes the rows c and q.
Start(b, mode, config, artefact, c, q) ==
  /\ IsNext(b)
  /\ builds' = [builds EXCEPT ![b] = NewBuild(mode, config, artefact)]
  /\ \/ cluster' = c /\ request' = q /\ UNCHANGED rollbacks
     \/ /\ rollbacks < MaxRollbacks
        /\ rollbacks' = rollbacks + 1
        /\ UNCHANGED <<cluster, request>>
  /\ UNCHANGED infra

Executing(row, b, status) == [row EXCEPT !.status = status, !.execution = b]

\* A new plan: its key is recorded, its digest is not known yet.
Planning(row, b) ==
  [Executing(row, b, "PLAN_RUNNING") EXCEPT !.plan = [key |-> b, sha |-> NoBuild]]

-----------------------------------------------------------------------------
(* Service.change.  currentExecution.kind survives no start but a migration's. *)

PlanningCluster(b, config, migrating) ==
  [Planning(cluster, b) EXCEPT !.config = config, !.migrating = migrating]

ExecutingCluster(b, status) == [Executing(cluster, b, status) EXCEPT !.migrating = FALSE]

ChangePlan(b) ==
  /\ "plan" \in Operations
  /\ cluster.status \in {"FAILED", "PLAN_READY"}
  /\ LET config == IF cluster.config.legacy # NoGroup THEN Reconciled ELSE cluster.config
     IN  Start(b, "plan", config, cluster.plan, PlanningCluster(b, config, FALSE), request)

\* Mutant: the certification is not looked at.
ChangeApply_Uncertified(b) ==
  /\ "apply" \in Operations
  /\ cluster.status = "PLAN_READY"
  /\ Start(b, "apply", cluster.config, cluster.plan,
           ExecutingCluster(b, "APPLYING"), request)

ChangeApply(b) ==
  /\ "apply" \in Operations
  /\ cluster.status = "PLAN_READY"
  /\ cluster.certified = "PASSED"
  /\ Start(b, "apply", cluster.config, cluster.plan,
           ExecutingCluster(b, "APPLYING"), request)

Operate(b, mode, from, to) ==
  /\ mode \in Operations
  /\ cluster.status \in from
  /\ Start(b, mode, cluster.config, cluster.plan,
           ExecutingCluster(b, to), request)

ChangeStop(b) == Operate(b, "stop", {"ACTIVE"}, "STOPPING")
ChangeStart(b) == Operate(b, "start", {"STOPPED"}, "STARTING")
ChangeDelete(b) == Operate(b, "delete", {"ACTIVE", "STOPPED", "FAILED"}, "DELETING")

\* Adopt target as the system group and retire the present one.
MigrateSystemNodeGroup(b, target) ==
  /\ "migrate" \in Operations
  /\ cluster.status = "ACTIVE"
  /\ target \notin Names(Reconciled)
  /\ \E legacy \in SystemGroups(cluster.config) \cap Names(cluster.config) :
       LET config == [managed |-> Reconciled.managed \ {legacy}, adopted |-> {target},
                      legacy |-> legacy]
       IN  Start(b, "plan", config, cluster.plan, PlanningCluster(b, config, TRUE), request)

-----------------------------------------------------------------------------
(* Node-group requests. *)

CreateRequest(r) ==
  /\ cluster.status = "ACTIVE"
  /\ request[r].status = "absent"
  /\ r \notin Names(cluster.config)
  /\ request' = [request EXCEPT ![r].status = "DRAFT"]
  /\ UNCHANGED <<builds, infra, cluster, rollbacks>>

SubmitRequest(r) ==
  /\ request[r].status \in {"DRAFT", "REJECTED"}
  /\ request' = [request EXCEPT ![r].status = "SUBMITTED"]
  /\ UNCHANGED <<builds, infra, cluster, rollbacks>>

RejectRequest(r) ==
  /\ request[r].status = "SUBMITTED"
  /\ request' = [request EXCEPT ![r].status = "REJECTED"]
  /\ UNCHANGED <<builds, infra, cluster, rollbacks>>

\* node_group_execution_cluster.
With(r) == [cluster.config EXCEPT !.managed = @ \cup {r}]

ApproveRequest(r, b) ==
  /\ request[r].status = "SUBMITTED"
  /\ Start(b, "plan", With(r), request[r].plan, cluster,
           [request EXCEPT ![r] = Planning(@, b)])

ApplyRequest(r, b) ==
  /\ request[r].status = "PLAN_READY"
  /\ request[r].certified = "PASSED"
  /\ Start(b, "apply", With(r), request[r].plan, cluster,
           [request EXCEPT ![r] = Executing(@, b, "APPLYING")])

RetryRequest(r, b) ==
  /\ request[r].status = "FAILED"
  /\ Start(b, "plan", With(r), request[r].plan, cluster,
           [request EXCEPT ![r] = [Planning(@, b) EXCEPT !.certified = "NONE"]])

-----------------------------------------------------------------------------
(* status_handler: EventBridge reports the end of a build, at least once; a  *)
(* build outlasts the transaction that started it.                           *)

Ends(b) == {ok \in BOOLEAN : ok => builds[b].state = "succeeded"}

\* Mutant: an end, whatever the result, is taken for success.
Completed_Always(row, b, ok, target) ==
  IF row.status = "PLAN_RUNNING"
  THEN [row EXCEPT !.status = "PLAN_READY", !.plan.sha = b, !.certified = builds[b].certified]
  ELSE [row EXCEPT !.status = target]

\* The row after build b; ok is FALSE too when result.json cannot be read.
Completed(row, b, ok, target) ==
  IF ~ok THEN [row EXCEPT !.status = "FAILED"]
  ELSE IF row.status = "PLAN_RUNNING"
  THEN [row EXCEPT !.status = "PLAN_READY", !.plan.sha = b, !.certified = builds[b].certified]
  ELSE [row EXCEPT !.status = target]

\* Mutant: the callback goes to whatever is running.
Executes_Any(row, b) == row.execution # NoBuild /\ builds[b].state # "unused"

\* The row is found by provider_execution_id.
Executes(row, b) == row.execution = b

Finished(b) == builds[b].state \in {"succeeded", "failed"}

\* An apply is followed by the installation of the connector, which may fail,
\* unless it is known to be that of a migration.
Targets ==
  CASE cluster.status = "APPLYING" /\ cluster.migrating -> {"ACTIVE"}
    [] cluster.status = "APPLYING" /\ ~cluster.migrating ->
         {"BOOTSTRAP_FAILED"} \cup (IF infra.exists THEN {"BOOTSTRAPPING"} ELSE {})
    [] cluster.status = "STOPPING" -> {"STOPPED"}
    [] cluster.status = "STARTING" -> {"ACTIVE"}
    [] cluster.status = "DELETING" -> {"DELETED"}
    [] OTHER -> {"PLAN_READY"}

\* Mutant: only successful builds are reported.
ClusterCallback_Succeeded(b) ==
  /\ builds[b].state = "succeeded"
  /\ Executes(cluster, b)
  /\ cluster.status \in ClusterRunning
  /\ \E ok \in Ends(b), target \in Targets :
       cluster' = [Completed(cluster, b, ok, target) EXCEPT !.migrating = FALSE]
  /\ UNCHANGED <<builds, infra, request, rollbacks>>

ClusterCallback(b) ==
  /\ Finished(b)
  /\ Executes(cluster, b)
  /\ cluster.status \in ClusterRunning
  /\ \E ok \in Ends(b), target \in Targets :
       cluster' = [Completed(cluster, b, ok, target) EXCEPT !.migrating = FALSE]
  /\ UNCHANGED <<builds, infra, request, rollbacks>>

\* Mutant: the configuration that the build was given is written back.
Recorded_AsBuilt(r, b) == builds[b].config

\* The node group joins the configuration as it is now.
Recorded(r, b) == IF r \in Names(cluster.config) THEN cluster.config ELSE With(r)

RequestCallback(r, b) ==
  /\ Finished(b)
  /\ ~Executes(cluster, b)
  /\ Executes(request[r], b)
  /\ request[r].status \in RequestRunning
  /\ \E ok \in Ends(b) :
       /\ request' = [request EXCEPT ![r] = Completed(@, b, ok, "ACTIVE")]
       /\ cluster' = IF request'[r].status = "ACTIVE"
                     THEN [cluster EXCEPT !.config = Recorded(r, b)] ELSE cluster
  /\ UNCHANGED <<builds, infra, rollbacks>>

-----------------------------------------------------------------------------
(* The connector. *)

Move(status) ==
  /\ cluster' = [cluster EXCEPT !.status = status]
  /\ UNCHANGED <<builds, infra, request, rollbacks>>

\* A user installs the connector: the status is not looked at, but the
\* installer describes the EKS cluster, which must exist.
InstallConnector == "install" \in Operations /\ infra.exists /\ Move("BOOTSTRAPPING")

\* refresh_installer_status sees the installer's build fail.
InstallerFails == cluster.status = "BOOTSTRAPPING" /\ Move("BOOTSTRAP_FAILED")

\* A report of the connector finds the platform ready; it may have been sent
\* before something else happened to the cluster.
CompletePlatformBootstrap == cluster.status = "BOOTSTRAPPING" /\ Move("ACTIVE")

-----------------------------------------------------------------------------

Run(b) == RunnerNext(b) /\ UNCHANGED <<cluster, request, rollbacks>>

\* What users do.
Operation ==
  \/ \E b \in Build :
       \/ ChangePlan(b) \/ ChangeApply(b) \/ ChangeStop(b) \/ ChangeStart(b) \/ ChangeDelete(b)
       \/ \E g \in Group : MigrateSystemNodeGroup(b, g)
       \/ \E r \in Request : ApproveRequest(r, b) \/ ApplyRequest(r, b) \/ RetryRequest(r, b)
  \/ \E r \in Request : CreateRequest(r) \/ SubmitRequest(r) \/ RejectRequest(r)

Next ==
  \/ Operation
  \/ \E b \in Build : ClusterCallback(b) \/ Run(b) \/ \E r \in Request : RequestCallback(r, b)
  \/ InstallConnector \/ InstallerFails \/ CompletePlatformBootstrap

Spec == Init /\ [][Next]_vars

\* A build has a time limit; EventBridge retries the callback.
BuildFairness(b) == WF_vars(Run(b)) /\ WF_vars(ClusterCallback(b))
RequestFairness(r, b) == WF_vars(RequestCallback(r, b))

Fairness ==
  /\ \A b \in Build : BuildFairness(b)
  /\ \A r \in Request, b \in Build : RequestFairness(r, b)

FairSpec == Spec /\ Fairness

-----------------------------------------------------------------------------

\* row holds the plan of its own execution, its digest and its verdict.
HoldsPlan(row) ==
  LET b == row.execution IN
  /\ b \in Build /\ row.plan = [key |-> b, sha |-> b]
  /\ builds[b].mode = "plan" /\ builds[b].state = "succeeded"
  /\ row.certified = builds[b].certified

\* What a reviewer sees in PLAN_READY is what apply will use: the plan of the
\* row's own latest execution, although older builds of the cluster or of
\* other requests may end, be reported again or be reported late.
ReadyMatchesPlan ==
  /\ cluster.status = "PLAN_READY" => HoldsPlan(cluster)
  /\ \A r \in Request : request[r].status = "PLAN_READY" =>
       HoldsPlan(request[r]) /\ r \in builds[request[r].execution].config.managed

\* Every apply that is started, a rolled back one included, is given a plan
\* that finished and was certified, with the digest of that plan.
AppliesCertifiedPlans ==
  \A b \in Build : builds[b].state # "unused" /\ builds[b].mode = "apply" =>
    LET plan == builds[b].artefact IN
    /\ plan.key \in Build /\ plan.sha = plan.key
    /\ builds[plan.key].mode = "plan" /\ builds[plan.key].certified = "PASSED"

\* An active node group was applied: the execution its request names applied,
\* to its end, a certified plan that contains the group.
ActiveWasApplied ==
  \A r \in Request : request[r].status = "ACTIVE" =>
    LET b == request[r].execution IN
    /\ b \in Build /\ builds[b].mode = "apply" /\ builds[b].state = "succeeded"
    /\ r \in Planned(b)

\* Nothing of configuration old is missing in new, and its migration is the same.
Extends(old, new) ==
  /\ Names(old) \subseteq Names(new)
  /\ new.adopted = old.adopted /\ new.legacy = old.legacy

\* Configuration new retires nothing but its legacy group, a system group of old.
Retires(old, new) == Names(old) \ Names(new) \subseteq SystemGroups(old) \cap {new.legacy}

\* A node group that becomes active is in the configuration the next plan
\* starts from.  What is in the configuration, and the migration recorded there,
\* stay, but for the group that another migration retires when it plans an
\* active cluster: no transaction writes back a configuration that was read
\* before another one changed it.
ConfigurationKept ==
  [][/\ \A r \in Request : request'[r].status = "ACTIVE" =>
          r \in Names(cluster'.config) \/ request[r].status = "ACTIVE"
     /\ \/ Extends(cluster.config, cluster'.config)
        \/ /\ cluster.status = "ACTIVE" /\ cluster'.status = "PLAN_RUNNING"
           /\ Retires(cluster.config, cluster'.config)]_vars

\* An apply that succeeds removes nothing but the legacy group that was
\* recorded when its plan was made, whatever happened since.
OnlyLegacyRetired ==
  [][\A b \in Build : Running(b, {"apply"}) /\ builds'[b].state = "succeeded" =>
       infra.groups \ infra'.groups \subseteq {builds[builds[b].artefact.key].config.legacy}]_vars

Settles(row, running, b) == ~(row.status \in running /\ row.execution = b)

\* Whatever a running row waits for can happen: its build can end, and the end
\* can be recorded; no other row that names the build keeps the callback from it.
NothingStuck ==
  \A b \in Build :
    /\ builds[b].state = "running" => ENABLED <<Run(b)>>_vars
    /\ Finished(b) /\ ~Settles(cluster, ClusterRunning, b) => ENABLED <<ClusterCallback(b)>>_vars
    /\ \A r \in Request : Finished(b) /\ ~Settles(request[r], RequestRunning, b) =>
         ENABLED <<RequestCallback(r, b)>>_vars

\* The guards of the steps that are scheduled fairly: each can be taken when they hold.
GuardsSuffice ==
  \A b \in Build :
    /\ builds[b].state = "running" => ENABLED <<Run(b)>>_vars
    /\ Finished(b) /\ Executes(cluster, b) /\ cluster.status \in ClusterRunning =>
         ENABLED <<ClusterCallback(b)>>_vars
    /\ \A r \in Request :
         Finished(b) /\ ~Executes(cluster, b) /\ Executes(request[r], b)
           /\ request[r].status \in RequestRunning => ENABLED <<RequestCallback(r, b)>>_vars

ClusterSettles(b) == ~Settles(cluster, ClusterRunning, b) ~> Settles(cluster, ClusterRunning, b)
RequestSettles(r, b) ==
  ~Settles(request[r], RequestRunning, b) ~> Settles(request[r], RequestRunning, b)

\* No cluster and no request stays in a running status for ever: the build its
\* row names ends and is recorded, or the row has moved on.
ExecutionsSettle ==
  /\ \A b \in Build : ClusterSettles(b)
  /\ \A r \in Request, b \in Build : RequestSettles(r, b)

=============================================================================
