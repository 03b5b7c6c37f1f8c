--------------------------- MODULE ConnectorBootstrap ---------------------------
(***************************************************************************)
(* The bootstrap of the platform in a cluster, on top of                   *)
(* ClusterProvisioning: a connector is enrolled with its token, its id is  *)
(* committed to the cluster's system repository and an installer build     *)
(* started, all before the transaction commits (repository.py); the        *)
(* installer writes the token into the cluster, Argo CD deploys the id;    *)
(* the agent reports (connector/agent.py, connector_handler.py); and       *)
(* whoever opens the cluster's screen polls the installer's build          *)
(* (bootstrap_status.py).  A report holds the connector's row from its     *)
(* authentication to its commit, and so does an installation, which        *)
(* revokes the connector.                                                  *)
(*                                                                         *)
(* A report locks the connector and then the cluster, the other two the    *)
(* cluster and then the connector: the deadlocks this allows PostgreSQL    *)
(* breaks, which is one of the failures a report or an installation has    *)
(* here anyway.                                                            *)
(***************************************************************************)
EXTENDS ClusterProvisioning

CONSTANTS Connector,    \* ids of connectors, in the order they are issued
          MaxFaults     \* restarts of the agent, installations rolled back

ASSUME ConnectorAssumption == Connector \subseteq Nat \ {0} /\ MaxFaults \in Nat

NoConnector == 0
MaybeConnector == Connector \cup {NoConnector}

VARIABLES live,         \* the one connector that is not revoked
          bootstrap,    \* workflow.platformBootstrap of the cluster
          inventory,    \* the row of cluster_namespace_inventories
          platform,     \* do the rows of the required components say READY?
          installer,    \* [Connector -> its installer's build]
          repository,   \* the connector the system repository configures
          secret,       \* the connector whose token is in the cluster
          pod,          \* the agent: the id and the token it was started with
          report,       \* the transaction that holds the connector's row
          polls,        \* builds that a poll has seen to be over
          faults

connectorVars == <<live, bootstrap, inventory, platform, installer, repository, secret, pod,
                   report, polls, faults>>
bootstrapVars == <<vars, connectorVars>>

Kind == {"access", "namespaces", "components"}
NoReport == [kind |-> "none", connector |-> NoConnector]
NoPod == [connector |-> NoConnector, token |-> NoConnector, ready |-> FALSE]
InstallerState == {"unused", "not_started", "running", "token_written", "SUCCEEDED", "FAILED"}

BootstrapTypeOK ==
  /\ TypeOK
  /\ live \in MaybeConnector
  /\ bootstrap \in [connector: MaybeConnector, installer: {"NONE", "SUCCEEDED", "FAILED"}]
  /\ inventory \in [status: {"NOT_CONFIGURED", "READY"}, connector: MaybeConnector]
  /\ platform \in BOOLEAN
  /\ installer \in [Connector -> InstallerState]
  /\ repository \in MaybeConnector
  /\ secret \in MaybeConnector
  /\ pod \in [connector: MaybeConnector, token: MaybeConnector, ready: BOOLEAN]
  /\ report \in [kind: Kind \cup {"none"}, connector: MaybeConnector]
  /\ polls \subseteq Connector
  /\ faults \in 0 .. MaxFaults

BootstrapInit ==
  /\ Init
  /\ live = NoConnector
  /\ bootstrap = [connector |-> NoConnector, installer |-> "NONE"]
  /\ inventory = [status |-> "NOT_CONFIGURED", connector |-> NoConnector]
  /\ platform = FALSE
  /\ installer = [c \in Connector |-> "unused"]
  /\ repository = NoConnector /\ secret = NoConnector
  /\ pod = NoPod /\ report = NoReport
  /\ polls = {} /\ faults = 0

-----------------------------------------------------------------------------
(* Installation: request_connector_install. *)

IsNextConnector(c) ==
  /\ installer[c] = "unused"
  /\ \A d \in Connector : d < c => installer[d] # "unused"

\* Bound: there is an id left for the callback of an apply.
Spare(c) == live # NoConnector \/ \E d \in Connector : c < d

\* Mutant: the row of the connector is not locked.
Unlocked_NoLock == TRUE

\* No report holds the row of the connector.
Unlocked == report = NoReport

\* Connector c, its build in the given state, replaces the present one; what it
\* reported of namespaces is void, what it reported of components is not.
Enroll(c, build) ==
  /\ IsNextConnector(c)
  /\ Unlocked
  /\ live' = c
  /\ installer' = [installer EXCEPT ![c] = build]
  /\ inventory' = [status |-> "NOT_CONFIGURED", connector |-> c]

\* A user installs a connector.  A verdict on an earlier installer stays.
RequestInstall(c) ==
  /\ Spare(c)
  /\ InstallConnector
  /\ Enroll(c, "running")
  /\ repository' = c
  /\ bootstrap' = [bootstrap EXCEPT !.connector = c]
  /\ UNCHANGED <<platform, secret, pod, report, polls, faults>>

\* An apply has ended; the platform is to be installed.
Provisioned(b) ==
  /\ cluster.status = "APPLYING" /\ ~cluster.migrating
  /\ Executes(cluster, b) /\ builds[b].state = "succeeded"

\* The commit of an installation fails, after that to the system repository and
\* perhaps after its build was started.
InstallRolledBack(c) ==
  /\ faults < MaxFaults /\ faults' = faults + 1
  /\ "install" \in Operations \/ \E b \in Build : Provisioned(b)
  /\ Spare(c)
  /\ IsNextConnector(c)
  /\ Unlocked
  /\ repository' = c
  /\ \E build \in {"not_started"} \cup (IF infra.exists THEN {"running"} ELSE {}) :
       installer' = [installer EXCEPT ![c] = build]
  /\ UNCHANGED <<vars, live, bootstrap, inventory, platform, secret, pod, report, polls>>

\* The callback of an apply installs the connector in its own transaction; an
\* error is recorded instead of the installation it leaves behind half done.
ClusterCompletes(b) ==
  /\ ClusterCallback(b)
  /\ \/ /\ cluster'.status \notin {"BOOTSTRAPPING", "BOOTSTRAP_FAILED"}
        /\ UNCHANGED <<live, bootstrap, inventory, installer, repository>>
     \/ /\ cluster'.status = "BOOTSTRAPPING"
        /\ \E c \in Connector : Enroll(c, "running") /\ repository' = c
                                /\ bootstrap' = [connector |-> c, installer |-> "NONE"]
     \/ /\ cluster'.status = "BOOTSTRAP_FAILED"
        /\ \E c \in Connector : Enroll(c, "not_started") /\ repository' \in {repository, c}
        /\ bootstrap' = [connector |-> NoConnector, installer |-> "NONE"]
  /\ UNCHANGED <<platform, secret, pod, report, polls, faults>>

-----------------------------------------------------------------------------
(* In the customer's account: the installer's build, Argo CD, the agent. *)
(* A pod without nodes to run on is one that takes long to report.       *)

\* The installer replaces the token in the cluster, whichever is there.
WriteToken(c) ==
  /\ installer[c] = "running"
  /\ infra.exists
  /\ secret' = c
  /\ installer' = [installer EXCEPT ![c] = "token_written"]
  /\ UNCHANGED <<vars, live, bootstrap, inventory, platform, repository, pod, report, polls, faults>>

\* It succeeds once the agent that is deployed by then is ready.
InstallerEnds(c) ==
  /\ installer[c] \in {"running", "token_written"}
  /\ \E result \in {"FAILED"} \cup
                   (IF installer[c] = "token_written" /\ pod.ready THEN {"SUCCEEDED"} ELSE {}) :
       installer' = [installer EXCEPT ![c] = result]
  /\ UNCHANGED <<vars, live, bootstrap, inventory, platform, repository, secret, pod, report, polls,
                 faults>>

PodOf(c) == [connector |-> c, token |-> secret, ready |-> FALSE]

\* Argo CD deploys the id of the system repository; the pod takes the token it
\* finds and keeps it.
Deploy ==
  /\ infra.exists
  /\ secret # NoConnector /\ repository # NoConnector
  /\ pod.connector # repository
  /\ pod' = PodOf(repository)
  /\ UNCHANGED <<vars, live, bootstrap, inventory, platform, installer, repository, secret, report,
                 polls, faults>>

RestartAgent ==
  /\ pod # NoPod
  /\ faults < MaxFaults /\ faults' = faults + 1
  /\ pod' = PodOf(pod.connector)
  /\ UNCHANGED <<vars, live, bootstrap, inventory, platform, installer, repository, secret, report,
                 polls>>

\* Terraform works; with the cluster goes what runs in it.
Terraform(b) ==
  /\ Run(b)
  /\ IF infra'.exists THEN UNCHANGED <<secret, pod>> ELSE secret' = NoConnector /\ pod' = NoPod
  /\ UNCHANGED <<live, bootstrap, inventory, platform, installer, repository, report, polls, faults>>

-----------------------------------------------------------------------------
(* Reports of the agent: connector_handler.  The reports of a cycle come in   *)
(* any order here, and their revisions, times, are in order.                  *)

\* authenticate: the token is that of the connector, which is not revoked.
Authenticate(kind) ==
  /\ report = NoReport
  /\ pod.connector = live /\ pod.token = live /\ live # NoConnector
  /\ report' = [kind |-> kind, connector |-> live]
  /\ UNCHANGED <<vars, live, bootstrap, inventory, platform, installer, repository, secret, pod,
                 polls, faults>>

ReportFails ==
  /\ report # NoReport
  /\ report' = NoReport
  /\ UNCHANGED <<vars, live, bootstrap, inventory, platform, installer, repository, secret, pod,
                 polls, faults>>

\* complete_platform_bootstrap goes on: namespaces were reported since the
\* installation, the components are ready, the cluster waits for it.
Awaited == inventory.status = "READY" /\ platform' /\ cluster.status = "BOOTSTRAPPING"

Complete ==
  IF Awaited
  THEN Move("ACTIVE") /\ bootstrap' = [bootstrap EXCEPT !.connector = report.connector]
  ELSE UNCHANGED <<vars, bootstrap>>

\* record_reconciliation; an assignment may not have been applied.
ReportAccess(applied) ==
  /\ report.kind = "access"
  /\ report' = NoReport
  /\ platform' = platform
  /\ IF applied THEN Complete ELSE UNCHANGED <<vars, bootstrap>>
  /\ UNCHANGED <<live, inventory, installer, repository, secret, pod, polls, faults>>

ReportNamespaces ==
  /\ report.kind = "namespaces"
  /\ report' = NoReport
  /\ inventory' = [status |-> "READY", connector |-> report.connector]
  /\ UNCHANGED <<vars, live, bootstrap, platform, installer, repository, secret, pod, polls, faults>>

\* The last report of a cycle; the agent then says that it is ready.
ReportComponents(ready) ==
  /\ report.kind = "components"
  /\ report' = NoReport
  /\ platform' = ready
  /\ pod' = [pod EXCEPT !.ready = @ \/ (pod.connector = report.connector /\ pod.token = pod.connector)]
  /\ Complete
  /\ UNCHANGED <<live, inventory, installer, repository, secret, polls, faults>>

-----------------------------------------------------------------------------
(* refresh_installer_status, when somebody reads the cluster. *)

\* Mutant: a build that failed is taken for one that still runs.
Over_Succeeded(c) == installer[c] = "SUCCEEDED"

Over(c) == installer[c] \in {"SUCCEEDED", "FAILED"}

\* Mutant: what was true when the build was inspected is not looked at again.
Waiting_Status(c) == cluster.status = "BOOTSTRAPPING"

\* The cluster waits for the installer of c and has no verdict on one yet.
Waiting(c) ==
  /\ cluster.status = "BOOTSTRAPPING"
  /\ bootstrap.connector = c /\ bootstrap.installer # "SUCCEEDED"
  /\ live = c

\* The row is read without a lock, the build inspected.
Inspect(c) ==
  /\ Waiting(c)
  /\ Over(c)
  /\ polls' = polls \cup {c}
  /\ UNCHANGED <<vars, live, bootstrap, inventory, platform, installer, repository, secret, pod,
                 report, faults>>

\* Both rows are locked and looked at again.
Refresh(c) ==
  /\ c \in polls
  /\ polls' = polls \ {c}
  /\ IF ~Waiting(c) THEN UNCHANGED <<vars, bootstrap>>
     ELSE /\ Unlocked
          /\ bootstrap' = [bootstrap EXCEPT !.installer = installer[c]]
          /\ IF installer[c] = "FAILED" THEN Move("BOOTSTRAP_FAILED") ELSE UNCHANGED vars
  /\ UNCHANGED <<live, inventory, platform, installer, repository, secret, pod, report, faults>>

-----------------------------------------------------------------------------

\* The transaction of a report ends, one way or the other.
ReportEnds ==
  \/ ReportFails \/ ReportNamespaces
  \/ \E ok \in BOOLEAN : ReportAccess(ok) \/ ReportComponents(ok)

BootstrapNext ==
  \/ /\ Operation \/ \E b \in Build, r \in Request : RequestCallback(r, b)
     /\ UNCHANGED connectorVars
  \/ \E b \in Build : ClusterCompletes(b) \/ Terraform(b)
  \/ \E c \in Connector : \/ RequestInstall(c) \/ InstallRolledBack(c)
                          \/ WriteToken(c) \/ InstallerEnds(c)
                          \/ Inspect(c) \/ Refresh(c)
  \/ Deploy \/ RestartAgent
  \/ \E kind \in Kind : Authenticate(kind)
  \/ ReportEnds

BootstrapSpec == BootstrapInit /\ [][BootstrapNext]_bootstrapVars

\* The build of an installer ends.
InstallerFairness(c) == WF_bootstrapVars(InstallerEnds(c))

\* Somebody has the cluster's screen open, which polls again and again.
ScreenFairness(c) == WF_bootstrapVars(Inspect(c)) /\ SF_bootstrapVars(Refresh(c))

\* A report of components is stored, whatever they are like.
ReportPlatform == \E ready \in BOOLEAN : ReportComponents(ready)

\* Argo CD synchronizes; the agent goes on reporting, each report ends, and not
\* every one of namespaces fails, nor every one of components.
AgentFairness ==
  /\ WF_bootstrapVars(Deploy)
  /\ SF_bootstrapVars(Authenticate("namespaces")) /\ SF_bootstrapVars(Authenticate("components"))
  /\ SF_bootstrapVars(ReportNamespaces) /\ SF_bootstrapVars(ReportPlatform)
  /\ WF_bootstrapVars(ReportEnds)

BootstrapFairness ==
  /\ \A c \in Connector : InstallerFairness(c) /\ ScreenFairness(c)
  /\ AgentFairness

FairBootstrapSpec == BootstrapSpec /\ BootstrapFairness

-----------------------------------------------------------------------------

\* A bootstrap is completed only by a report of the connector that is installed
\* now, which has itself reported its namespaces since it was enrolled: no
\* report of a replaced connector, however long it was under way, does it, and
\* no report moves a cluster that something else happened to meanwhile.
ReadyByPresent ==
  [][cluster.status # "ACTIVE" /\ cluster'.status = "ACTIVE" =>
       \/ cluster.status \in ClusterRunning /\ Finished(cluster.execution)
       \/ /\ cluster.status = "BOOTSTRAPPING"
          /\ report.connector = live /\ bootstrap.connector = live
          /\ inventory = [status |-> "READY", connector |-> live]]_bootstrapVars

\* "A build observed before another restart must never fail the newer
\* installation" (bootstrap_status.py): a bootstrap fails only by the installer
\* of its own connector.
FailsByOwnInstaller ==
  [][cluster.status = "BOOTSTRAPPING" /\ cluster'.status = "BOOTSTRAP_FAILED" =>
       live \in Connector /\ installer[live] = "FAILED" /\ bootstrap.connector = live]_bootstrapVars

Bootstrapping(c) == cluster.status = "BOOTSTRAPPING" /\ bootstrap.connector = c

\* The cluster does not run, or is not given, what c needs, and its installer
\* will not tell: another installation, that was rolled back or revoked, left
\* its id in the repository or its token in the cluster, or the verdict on an
\* earlier installer hides the failure of this one.
Stranded(c) ==
  \/ ~infra.exists
  \/ repository # c
  \/ installer[c] = "SUCCEEDED" /\ secret # c
  \/ installer[c] = "FAILED" /\ bootstrap.installer = "SUCCEEDED"

BootstrapEnds(c) == Bootstrapping(c) ~> ~Bootstrapping(c) \/ Stranded(c)

\* From some time on no report finds a component that is not ready.
ComponentsStayReady == <>[][~ReportComponents(FALSE)]_bootstrapVars

\* Every bootstrap ends: in a ready platform, or in a failure that is shown,
\* unless it is stranded as above or some component of the platform fails again
\* and again.
BootstrapsEnd == ComponentsStayReady => \A c \in Connector : BootstrapEnds(c)

\* The guards of the steps that are scheduled fairly: each can be taken when they hold.
BootstrapGuardsSuffice ==
  /\ \A c \in Connector :
       /\ installer[c] \in {"running", "token_written"} => ENABLED <<InstallerEnds(c)>>_bootstrapVars
       /\ Waiting(c) /\ Over(c) /\ c \notin polls => ENABLED <<Inspect(c)>>_bootstrapVars
       /\ c \in polls /\ Unlocked => ENABLED <<Refresh(c)>>_bootstrapVars
  /\ infra.exists /\ secret # NoConnector /\ repository \notin {NoConnector, pod.connector} =>
       ENABLED <<Deploy>>_bootstrapVars
  /\ Unlocked /\ live # NoConnector /\ pod.connector = live /\ pod.token = live =>
       /\ ENABLED <<Authenticate("namespaces")>>_bootstrapVars
       /\ ENABLED <<Authenticate("components")>>_bootstrapVars
  /\ ~Unlocked => ENABLED <<ReportEnds>>_bootstrapVars
  /\ report.kind = "namespaces" => ENABLED <<ReportNamespaces>>_bootstrapVars
  /\ report.kind = "components" => ENABLED <<ReportPlatform>>_bootstrapVars

=============================================================================
