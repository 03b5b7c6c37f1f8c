# A verification development for Navigan

Navigan is a control plane: engineers register customers, describe the cloud
environments a customer allows, request Kubernetes clusters in them, have these
reviewed, planned and applied with Terraform, bootstrap a platform through a
connector that runs in the cluster, and migrate workloads between clusters.  It
is a set of Python AWS Lambdas (`src/navigan`) over one PostgreSQL database, with
CodeBuild running Terraform, EventBridge carrying events, and agents in the
clusters.  Paths in this document are relative to the repository root.

The modules of this directory specify the parts of that system whose correctness
depends on the order of events.  TLC checks small instances of them, TLAPS proves
the main properties for every value of the constants.  To repeat the checks, run
`tlc -config X.cfg MCm.tla` for the configurations of the table under *Runs* and
`tlapm MProofs.tla` for the proof modules.

## The system

### Components, their state and their operations

| component | state it keeps | operations | what makes it correct |
|---|---|---|---|
| Customer Management (`modules/customer_management`) | `customers` with status, version, review cycle; `customer_reviews`; audit log, status history, outbox rows; idempotency rows | create, update, set providers, nine transitions | changes on current rows only, one outcome per call, independent review of what was submitted, gapless history |
| Environment Management (`modules/environment_management`) | `environments` with status, version, approved version, pending version, status of the baseline; `environment_versions` | create, update, revise, submit, review, approve, reject, activate, suspend, reactivate, deactivate | the baseline in force was reviewed as submitted; revising never disturbs or revives it |
| environment discovery, readiness, provisioning options | none | reports over AWS APIs | – (reads) |
| Bootstrap remediation (`remediation.py`) | remediation requests and their history | create, approve, reject, verify | one open request per account and region; completed only if the prerequisites are there |
| Cluster requests (`cluster_management/service.py`, `repository.py`) | `clusters` with status, version, pinned approved version; GitHub connections and one-time authorization states | create, edit, submit, review, approve, reject, begin and complete an authorization | first plan only under a baseline in force and for an active customer |
| Cluster operations (same files, `provisioning.py`) | status, execution id, plan key, plan digest, certification, configuration; node-group requests | plan, apply, stop, start, delete, retry, system node-group migration, node-group requests | only certified plans are applied, no configuration is lost, nothing stays running |
| Build-status handler (`status_handler.py`) | the same rows | completion of a CodeBuild build | stale and repeated completions change nothing |
| Terraform runner (`provisioning/runner/runner.py`) | plan artefacts, Terraform state, the infrastructure | plan and scan, apply, stop, start, destroy | applies the plan it was given, or nothing |
| Connector ingress, installation, bootstrap status (`connector_handler.py`, `connector_installation.py`, `bootstrap_status.py`, `system_repository.py`) | connectors, component rows, inventories, the installer's build, the system repository | install, report access, namespaces and components, refresh the installer's status | the present connector completes a bootstrap and its own installer fails it; every bootstrap ends |
| Tool access and sessions (`tool_access.py`, `tool_session_handler.py`) | tool sessions | issue, exchange, validate | an exchange token is used once |
| Access Management (`access_management/handler.py`, part of `repository.py`) | Kubernetes access assignments, reconciliations | assign, revoke, reconcile | desired and applied revisions converge |
| Transactional outbox (`shared/outbox.py`) | `platform.event_outbox` | enqueue with a change, publish a batch | no event lost or invented |
| Shared transactions, access, diagnostics (`shared/`) | – | `transaction()`, role and scope checks | all or nothing |
| Migration Management (`migration_management/service.py`, `repository.py`, `handler.py`, `connector_handler.py`) | migrations with version and status, source clusters, connectors, inventories, planning drafts | create, update, select a target, save a draft, change, enrol a source, assign, submit a catalogue or an inventory | what is reviewed is what was assessed; drafts rest on the newest assessment; every discovery gets on |
| Workspace collection (`workspace_collection.py`, `workspace_worker.py`, `image_worker.py`) | artifact workspaces, artifacts, collection jobs with leases | enqueue, claim, renew, finish | every job decided, status truthful, stale workers publish nothing |
| Artifact recovery (`artifact_recovery.py`, `recovery_worker.py`) | recovery jobs with phases; commands and work directories on the source host | start, poll, export, upload, time out, exclude after a review | one recovery at a time; saved means stored; every recovery ends |
| evidence rules and assessment (`assessment_engine.py` and the `*_evidence.py` files) | none | pure functions | – |
| agents (`connector/agent.py`, `migration_connector/agent.py`), tools gateway | tokens, caches | poll and report | – (seen in the modules of their ingress) |

`PROJECT.json` lists the files of each component and how far it is modelled.

### How they interact

* One Lambda invocation serves one HTTP call in one READ COMMITTED transaction
  (`shared/database.py:61-68`).  Rows are locked with `SELECT ... FOR UPDATE`
  (`FOR SHARE` for the profile and customer a cluster request depends on), and the
  version a client sends is compared under that lock.
* Environment Management locks the customer's row to check its status; Cluster
  Management shares the locks on the profile and the customer while it calls
  GitHub and CodeBuild.
* Cluster Management calls `StartBuild` inside its transaction; the build runs on
  its own and its end comes back as an EventBridge event, at least once and in any
  order, to `status_handler`.
* The agents poll the ingress Lambdas, which lock the connector's row and then the
  cluster's or migration's.
* The installation of a connector commits to the GitHub repository of the cluster and
  starts a build in the customer's account; the build writes the connector's token
  into the cluster, Argo CD deploys the agent with the id it finds in the repository.
  Nobody reports the end of that build: whoever looks at the cluster polls it.
* A recovery is a pair of SSM commands on the source host, sent inside a transaction
  and looked at by later polls.
* The outbox publisher and the workspace workers run on a schedule and take rows
  with `FOR UPDATE SKIP LOCKED`; several of them may overlap.

### What is hard here

Interleavings of transactions at their row locks; builds that outlive the
transaction that started them, fail half way, or report late and twice; two kinds
of plans over one Terraform state; a baseline that is withdrawn or superseded
while a request depends on it; connectors that are replaced while their reports, or
the builds that install them, are under way; publishers and workers that die between an effect
outside the database and their commit; clients that repeat a call they got no
answer for.  The list of hazards in `PROJECT.json` names the line at which each
bites and the property that watches it, or says why none does.

## Modules

| module | models | proofs |
|---|---|---|
| `CustomerWorkflow` | the rules of `workflow.py` and what `CustomerService` writes, as operators | in `CustomerLifecycleProofs` |
| `CustomerLifecycle` | abstract: each accepted call is one step | `CustomerLifecycleProofs` |
| `CustomerApi` | overlapping, repeated and aborted invocations with the idempotency table, the advisory lock and the row lock; implements `CustomerLifecycle` | `CustomerApiProofs` |
| `EventFeed` | abstract: a change and its event are one step, an event waits until it was sent | in `OutboxProofs` |
| `Outbox` | writers, overlapping publishers, EventBridge, a consumer; implements `EventFeed` | `OutboxProofs` |
| `TerraformRunner` | the builds of one cluster and their effect on its node groups | – |
| `ClusterProvisioning` | extends it with the cluster's row, its node-group requests, the callbacks | `ClusterProvisioningProofs` |
| `EnvironmentLifecycle` | abstract: each operation on a profile is one step | in `ClusterRequestsProofs` |
| `ClusterRequests` | extends it with cluster requests, both kinds of operations being locking transactions; implements `EnvironmentLifecycle` | `ClusterRequestsProofs` |
| `ConnectorBootstrap` | extends `ClusterProvisioning` with connectors, installers, the system repository, the agent, its reports, the polls; implements it | `ClusterProvisioningProofs` |
| `CollectionQueue` | abstract: queueing, claiming, renewing, losing and deciding a collection are one step each | in `WorkspaceCollectionProofs` |
| `WorkspaceCollection` | queue, leases and workers, transaction by transaction; implements `CollectionQueue` | `WorkspaceCollectionProofs` |
| `ArtifactRecovery` | requests, SSM commands, the host's work directories, the review of historical Jobs | `ArtifactRecoveryProofs` |
| `MigrationAssessment` | migrations, planning drafts, connectors, their assignments and reports | `MigrationAssessmentProofs` |

The `MC...` modules only give constants their values.  An operator whose comment
starts with "Mutant" is no part of a specification: it is the body a plausible
mistake would give the operator that follows it, with which the named property
fails.

### State and actions against the code

**Customers.**  `rows`, `audit`, `reviews` are the tables; free text is reduced to
what the guards ask of it (is there a reason, a primary contact, a provider).
`CustomerApi` splits an invocation where it can wait: `Begin`, `KeyLocked` and its
outcomes `KeyMiss` and `KeyReplay` (`idempotency_get`), `LockRow` (`get(lock=True)`),
then one commit (`CommitCreate`, `CommitChange`), which re-evaluates nothing, or
`Abort`.  That a decision is still right at its commit is a part of the invariant the
proofs rest on (`SnapshotCurrent`).

**Outbox.**  An event is its writer's transaction.  `Select` is the `SKIP LOCKED`
query with its order by attempts and creation time, `Answer` is `put_events`, which
may take any part of the batch, `Settle` the updates and the commit, `Crash` the
end of the invocation before it.  `created_at` is the start of the transaction, so
events of one customer can be published in another order than they happened.
`EventFeed` knows an event by its customer and version: what waits there are the rows
not yet marked, what was sent is what EventBridge took (`ImplementsFeed`).

**Provisioning.**  A build has a mode, the configuration and the plan it was given.
Its Terraform work is one step, since the state lock serializes commands; a failed
apply leaves any part of its effect.  A plan is *fresh* until the state changes,
and Terraform refuses a stale one.  Each operation of `service.py` starts a build
and writes its row in one step under the cluster's lock, or starts it and rolls
back (`rollbacks`).  The callbacks may come for any ended build, any number of times.

**Environments and cluster requests.**  `env` is the profile, `versions` its
snapshots; `standing` is `approved_status`.  A transaction of `ClusterRequests` is
the steps at which it may wait: the profile's lock, then the customer's; the
cluster's lock, then the shared locks.  `BuildEnds` is the callback.

**Workspaces.**  A transaction is a sequence of steps with drafts of the rows it
has written and locked.  `FinishJob`, `Settle` and `CommitFinish` of different
workers interleave; `Crash` rolls back; `Tick` lets a lease run out; the answer of a
commit may be lost: `CommitFinish` then leaves the worker to report a failure.
`CollectionQueue` sees the committed jobs, and as leased the jobs whose lease has time
left (`ImplementsQueue`).

**Bootstrap.**  `live` is the connector that is not revoked, `bootstrap` the part of
`workflow.platformBootstrap` that decides, `inventory` and `platform` what was reported
of namespaces and components.  `installer`, `repository`, `secret` and `pod` are the
customer's side: the build of each connector, the id in the system repository, the
token in the cluster, the agent with the id and the token it started with, which may
differ.  A report holds the connector's row from `Authenticate` to its end (`report`);
an installation needs that row (`Unlocked`).  A poll is `Inspect`, without a lock, and
later `Refresh`, with both locks.  `InstallRolledBack` is an installation that has
committed to GitHub, and perhaps started its build, and then fails.

**Recovery.**  A request is two steps: what it reads without a lock (`BeginStart`,
`BeginPoll`, `BeginReview`), then the rest under the lock of the source row.  Commands
are sent before the commit, so that `Start` and `PollExported` may leave a command
that no job names.  The host's actions are `ExportEnds` and `UploadEnds`; `Lose` and
`Expire` are SSM's silence and the time limit.  `Exclude`, `NewInventory` and
`ConfigureDelivery` are the other writers of the same rows.

**Migrations.**  A user's call locks the row, compares the version and writes: one
step.  `RefreshEvidence` is the refresh of `analyze_deployment_sources`, by which a
completed assessment goes into another discovery and keeps its planning draft.  A
report is two steps: `Report` authenticates the connector (`by` is its row then) and
finds the migration without a lock, `SubmitCatalogue` or `SubmitSourceInventory` locks
and checks it.  `versions` holds the configurations of `migration_versions`, and an
entry of `evidence` the version that the report named, so that what an assessment
looked at is looked up as `require_planning_configuration` does (`AsAssessed`).
`earlier` holds the pairs of migrations of which the first was updated before the
second (`updated_at`), by which a source connector chooses; `digest` what the source
amounts to now.  A connector's write empties the planning draft (`Reported`), because
its query leaves that column out.

### Abstractions

* `CustomerApi`: deadlocks among the locks cannot occur, each call takes the key
  and then one row; the database errors of a handler are `Abort`.
* `ClusterProvisioning`: the versions clients send are left out, since each
  operation checks the status under the row lock anyway; so are the roles.  A
  request is named by the node group it asks for: the unique index of migration 016
  allows one request per name.  Nothing but the node groups of an infrastructure is
  represented.  The builds start in the step that commits: a build lasts minutes,
  the rest of the transaction is one `UPDATE`.
* `EnvironmentLifecycle`: reasons and the rules of `configuration.py` are reduced to
  the set `Complete`; the provider association of the customer does not change; the
  unique names of profiles are left out.
* `ClusterRequests`: one profile; certification of plans belongs to
  `ClusterProvisioning`; cluster versions are left out as above; the edit of a
  draft, the one-time state of a GitHub authorization, and what follows the first
  apply are left out; the two `FOR SHARE` locks are taken at once,
  together with the read of the GitHub connection.
* `WorkspaceCollection`: which of several eligible jobs a worker gets is open, where
  the code takes the oldest; one requester at a time because `enqueue` locks the
  migration; `load_context` succeeds or fails freely; `now()` is the start of the
  transaction.
* `ConnectorBootstrap`: a report and an installation lock the connector and the
  cluster in opposite orders; the deadlock PostgreSQL breaks is a report or an
  installation that fails (`ReportFails`, `InstallRolledBack`).  The reports of a
  cycle come in any order, with growing revisions.  The baseline demands platform
  components (`readinessContract` `PLATFORM_COMPONENTS_V1`); of the other baselines the
  bootstrap needs less.  A pod that lost its nodes is one that takes long to report.
  `Spare` keeps a connector for the callback of an apply, a bound.
* `ArtifactRecovery`: one assessment and one source; `DOWNLOAD` writes nothing and is
  left out; the contents of an artifact are whether it is stored.
* `MigrationAssessment`: `MIGRATION_SOURCE_FIRST_ENABLED` is on; an enrolment token is
  the right to enrol one more connector; names, descriptions, last-seen times and the
  analysis of a target are left out, as are the analysis of deployment sources without
  a refresh, which writes the source's delivery configuration only, and the state of
  the source connections, which a refresh asks for.

## Runs

| run | instance | asks | states |
|---|---|---|---|
| `customer_api` | two overlapping invocations, keyed and unkeyed, repeated, at stale versions, over the whole life of one customer with a rejection and a second review; another customer competes for its name | does every call have one outcome, do history, reviews and completeness agree, and do the transactions implement the lifecycle | 124 000 |
| `outbox` | three writers, two publishers, batches of two, two failures | is the table truthful of what happened; is it a feed to its consumers, although publishers overlap and die; does the consumer end with the newest version | 40 000 |
| `cluster_operations` | from the first plan; one node-group request, a migration, all operations, four builds, one rolled back transaction | what do reviewers see, what is applied, can what a running row waits for happen, does everything settle | 194 000 |
| `node_groups` | an active cluster, two requests, a migration, four builds | does what becomes active exist, is a configuration change lost, what do applies remove | 1 160 000 |
| `connector_bootstrap` | one cluster, two connectors, three builds, one fault | who completes and who fails a bootstrap; does every one end | 151 000 |
| `cluster_requests` | one profile up to version 8 with two complete configurations, one transaction on it, one on a cluster | was the baseline reviewed, can revising disturb or revive it, is a first plan ever committed outside a baseline in force; do transactions implement the profile's lifecycle | 2 030 000 |
| `workspace_collection` | two images of one workspace, two workers, two requests | are the status and the published objects right; do overlapping transactions take effect like whole operations on a queue | 2 690 000 |
| `jobs_decided` | one job, two workers, leases of two ticks | does every queued job end | 50 000 |
| `artifact_recovery` | an artifact a review may exclude and one outside workspaces, two jobs, two requests, one fault | is there one recovery at a time, is what is shown as saved stored, is the host left clean, does every recovery end | 498 000 |
| `migration_assessment` | two migrations of one source, one through a cycle or a refresh and a second assessment, two connectors of the source and one of a migration, one fault, one change of the source | is what is reviewed what was assessed; do drafts go with their evidence; does a replaced or expired connector move nothing; does every discovery get on | 799 000 |

The other two runs, `applies_recheck` and `reassessment_ends`, end in a violation; see
*Where code and documents disagree*.

### Properties

*Customers.*  `AuditChain`: the entries of a customer's audit log chain into its
status; that they are numbered without gaps (`VersionsContiguous`) is proved only.
`ApprovedIndependently`, `EveryReviewIndependent`: approvals and reviews were made
by others than the creator and the submitter of their cycle, however often
`submitted_by` was overwritten.  `GovernedComplete`: no edit undoes what submission
validated.  `OneOutcome`, `RepliesBacked`: a call is applied at most once
and every success stands for a committed change.  `ImplementsLifecycle`: refinement.

*Outbox.*  `TableTruthful`: what is marked published EventBridge took, an event is
sent again only after a failure (`AttemptsAccounted`), although publishers overlap
(that no two hold one row, `BatchesDisjoint`, is a part of the invariant behind it),
and what can be heard of are the committed versions, each once
(`EventsMatchVersions`).  `ImplementsFeed`: refinement; with it every version of a
customer waits to be sent or was sent (`Faithful`, proved only).  `EventuallySeen`: a
consumer ends with the newest version.

*Clusters.*  `ReadyMatchesPlan`: a row in `PLAN_READY` holds the plan of its own
latest execution.  `AppliesCertifiedPlans`: each apply, of a rolled-back
transaction too, has a certified plan with its digest.  `ActiveWasApplied`,
`OnlyLegacyRetired`: an active node group was applied, and an apply removes nothing but
the legacy group its plan retired.  `ConfigurationKept`: what becomes active is in the
configuration, and a step takes nothing out of it and leaves its migration (`adopted`,
`legacy`) as it is (`Extends`), but for the planning of a migration, which takes out the
one system group it retires (`Retires`); a callback that wrote back what its build was
given (`Recorded_AsBuilt`) would undo a migration recorded meanwhile.
`ExecutionsSettle`: no row stays in a running status.  `NothingStuck`: what a running
row waits for can happen, whatever the order of builds, callbacks and rollbacks: its
build can end, and the callback of a build that has ended is not refused.

*Environments and requests.*  `BaselineSound`: the baseline in force was approved by
somebody independent, as submitted (`BaselineReviewed`), and a profile that shows as
active or withdrawn shows its configuration (`ProfileIsBaseline`).
`WithdrawnStaysWithdrawn`:
only a reactivation brings a withdrawn baseline back.  `ImplementsEnvironment`:
refinement.  `PinsReviewed`, `FirstPlanEntitled`, `SupersededFrozen`: a request pins a
reviewed snapshot, is first planned only under a baseline in force at its commit,
and never moves again once it is superseded.

*Workspaces.*  `StatusTruthful`: a workspace is `COLLECTING` exactly while a job of it
is open.  `LastHolderPublishes`: an object comes from the last lease given.
`ImplementsQueue`: refinement; with it a collected artifact is final
(`CollectedOnce`, proved only).  `JobsDecided`: every queued job ends.

*Bootstrap.*  `ReadyByPresent`: a bootstrap is completed only by a report of the
connector installed now, which has reported its namespaces since it was enrolled.
`FailsByOwnInstaller`: it fails only by the installer of that connector.
`BootstrapsEnd`: if from some time on no report finds a component that is not ready
(`ComponentsStayReady`), every bootstrap ends, except one that is `Stranded`: an
installation that was rolled back or revoked has left its id in the repository or its
token in the cluster, or a verdict on an earlier installer hides the failure of this one.
The condition is needed: while a component fails, the code leaves the cluster
`BOOTSTRAPPING`, for ever if need be.

*Recovery.*  `OneRecovery`: one recovery of an assessment at a time.
`CollectedIsStored`: an artifact shown as saved names an object in the bucket that a
recovery of this artifact put there.  `HostIsClean`: without faults, ended recoveries
leave no work directory.  `RecoveriesEnd`: each one ends, unless its job has left the
list or cannot be polled any more (`Unpollable`).

*Migrations.*  `ReviewedAsAssessed`: from the assessment to the approval the
configuration is the one kept under the version that the newest assessment names, so
that no report is stored for a configuration it did not look at.  `DraftOnLatest`: a
planning draft rests on the newest assessment, although a refresh keeps it.
`RevokedReportNothing`: a report that arrived from an expired connector, or whose
connector was replaced before it was handled, moves no migration.  `DiscoveriesProceed`:
with a valid connector every migration that waits, for the first time or again, gets on,
unless a discovery of its source is `Hopeless`.

Each module has one type invariant.  They are proved, and can be added to the
configurations as `INVARIANT TypeOK`.

### Bounds, and why they are enough

`MaxVersion` 8 allows a profile two complete review cycles and a withdrawal, which is
what the baselines differ in; the calls of `customer_api` lead through a rejection, a
resubmission by another user and every later status, which is what cycles and
overwritten submitters differ in.  The proofs remove both bounds for the properties
they cover.  Four builds are a plan and an apply of two rows, or of one row from the
first plan to an active node group; every property about builds relates at most a
plan, its apply and one build that interferes.  `MaxRollbacks` is one because
rolled-back transactions leave only a build.  `MaxFailures` is two: a refused entry
and a crash.  `LeaseTime` is one tick where the order of events matters, two where a
worker renews in time; `MaxRequests` is two so that a failed job is queued again.

In `connector_bootstrap` the two connectors are the one of the apply and its
replacement, the three builds a plan, its apply and a deletion; one fault is an
installation rolled back or an agent restarted with the token of another connector.
The proofs remove these bounds for the two action properties and `BootstrapsEnd`.  In
`artifact_recovery` one work directory stands for the two of the host, so that two
jobs already compete for it; two uploads are one repeated after a rollback.  In
`migration_assessment` version 10 takes the first migration through a catalogue and an
assessment, and from there to the choice of a target, or by a rejection or a refresh
through a second discovery and assessment.  The other migration is created and waits for its
catalogue, in the way of the first.  The source's connector is replaced once,
and one connector is the first migration's own.  A request that waits without a source
(the second alternative of `Update`) does not occur in the instance; the proofs cover it.
Transactions on one profile, or on one cluster, exclude each other: that several of
them wait is left to the theorems.

### Fairness

* Publishers: `rate(1 minute)` in
  `infrastructure/modules/customer-management/template.yaml:131`; an invocation ends
  within its time limit.  EventBridge delivers what it accepted.
* Builds end: CodeBuild stops them at their time limit.  Completions are delivered
  at least once; `ExecutionsSettle` needs that none is lost for ever.
* Workspace workers: `rate(1 minute)` in
  `infrastructure/modules/migration-management/template.yaml:156`, the image worker
  loops.  Weak fairness of a worker's steps says that a run ends; strong fairness
  of claims and of `settle`, that a transaction which gets its chance again and again
  is not killed, or made to wait, every time.
* Bootstraps: the build of each installer ends; Argo CD synchronizes by itself; the
  cluster's screen, which polls while the cluster is `BOOTSTRAPPING`, is open and looks
  at each connector; the agent repeats
  its reports every minute (`connector/agent.py:1063-1144`) and gets one of each kind
  through now and then.  What a report says of the components is left open: that they
  are ready in the end is no fairness, but the condition in `BootstrapsEnd`.
* Recoveries: SSM ends or stops reporting the command a job waits for, 40 minutes
  pass, an open collection screen polls its running jobs (strong fairness: whatever
  else is asked; `artifact-workspace-panel.tsx:692-792`), and an invocation ends.
* Migrations: the agent of a source polls for ever
  (`migration_connector/agent.py:738-771`) and invocations end.
* Nothing is assumed of users, customers, commits of clients' transactions, or
  of the order in which locks are granted.

## Proofs

Every theorem listed in `PROJECT.json` holds for all values of the constants that
satisfy the assumptions the modules name (`RolesAssumption`, `OutboxAssumption`,
`RunnerAssumption`, `ProvisioningAssumption`, `ConnectorAssumption`, `EnvironmentAssumption`,
`RecoveryAssumption`, `MigrationAssumption` and those of `WorkspaceCollection`), so in
particular for any number of users, customers, builds, requests, invocations,
publishers, workers, migrations and connectors.  The arguments:

* **CustomerLifecycle.**  Types need that an identifier without a row has version 0
  (`FreshUnversioned`).  The numbering of the audit log is inductive with it; the chain
  uses the numbering.  Independence of approvals needs to know what has been
  recorded while the review is open (`ReviewProgress`): a customer under review has
  an independent review start on record in its current cycle.  `EveryReviewIndependent`
  counts submissions: `CycleCounted` says that the cycle is their number and that the last
  one is the submitter's, and a new entry comes after all others (`AuditGrows`).
* **CustomerApi.**  `LockInv`: an invocation under way has passed the role checks
  (`Admitted`), holds its row alone (`RowExclusive`), and the row it decided on is
  the committed one (`SnapshotCurrent`).  A commit is then the lifecycle's step with the same guard; a creation
  locks nothing, its row being invisible until the commit.  What is proved of the
  lifecycle then holds here too (`Proved == INSTANCE CustomerLifecycleProofs`).
  `ReplyInv` relates what clients were answered to what is stored and to the audit
  log: one row per scope, an answer to a keyed call is the stored one, an answer to a call
  without a key is of the version after the one it sent.  `OneOutcome` follows,
  since the log has one entry per version.
* **Outbox.**  The safety properties are inductive together with `BatchPending`: the
  rows a publisher holds are pending, so none is rolled back or published by
  another between its selection and its settlement.  `AttemptsAccounted` needs besides
  that a row which EventBridge refused goes with a failure no attempt has used up
  (`RefusalsCounted`), and that no other publisher holds it.  The feed sees a commit as
  a change, an answer or a crash as the sending of some of a batch, a settlement as
  the end of waiting: the rows' names are unique and never change (`FeedRows`,
  `NamesStay`), and what is sent waits (`BatchPending`).  `FeedIsFaithful`
  follows from `EventsMatchVersions`, once what consumers saw was sent (`SeenWasSent`).
  *Liveness* (`EventsAreSeen`): take the part of a behaviour after the last failure and
  the last publication.  A publisher there cannot select rows, because the answer would
  take all of them and the settlement mark them (`NothingIsChosen`); so each comes to
  rest, the rows it held are let go and stay free, and a row that waited would be
  selected (`NothingWaits`).  Every event was therefore marked before, hence taken, its
  version is final, and it is delivered (`TakenIsSeen`).
* **ClusterProvisioning.**  The inductive invariant adds that rows name builds that
  were started (`RowsStarted`), that a row being planned has recorded the key of its own plan build
  (`PlanningRows`), that only a plan that succeeded has a verdict (`VerdictsFinal`), and that a fresh
  plan that passed the scan destroys at most the legacy group (`FreshPlansPass`),
  from which `OnlyLegacyRetired` follows although the plan and its apply are far apart.
  `ActiveWasApplied` needs what a request in `APPLYING` knows of its build
  (`AppliedRequests`); `ConfigurationKept`, proved operation by operation, that no
  configuration has two adopted groups (`OneAdopted`), so that a migration retires one.
  *Liveness* (`RunningRowsSettle`): a running row names a build that was started, and no
  other row names it (`Owned`, proved as `RowsOwned`), so that this build runs or has
  ended and its callback finds the row; a running build ends, what has ended stays
  ended, and the callback settles the row.
* **ConnectorBootstrap.**  Every step of it is a step of `ClusterProvisioning` or leaves
  that alone (`BootstrapImplements`), so its theorems hold here; the invariant
  `Present` adds that the report under way, the namespaces and the bootstrap belong to
  the connector that is live, and that polls have seen builds that are over.  Both
  action properties follow from it.  *Liveness* (`BootstrapsFinish`): the installer of
  the live connector was started (`InstallerStarted`) and ends.  If it fails, a poll sees
  that build, which stays as it is, and the failure is shown.  If it succeeds, the
  repository names the connector and the cluster has its token unless somebody else's
  are there (`TokensMatch`, the exception `Stranded`); Argo CD deploys the agent with
  both, it reports its namespaces and then, once no report finds a component that is
  not ready (`ComponentsStayReady`), a platform that is.
* **EnvironmentLifecycle.**  Snapshots are numbered (`Numbered`), a submission stands
  unedited until it is decided (`SubmissionStands`), a version is
  pending exactly while the profile is `APPROVED` and is the row's own, reviewed one
  (`Approving`), and the baseline is no later than the row (`Baseline`).
* **ClusterRequests.**  `ProfileHeld` and `ClusterHeld` say that a transaction past a lock
  still sees what it decided on; `ProfileExclusion` and `ClusterExclusion` that
  the locks exclude.  The refinement and `FirstPlanEntitled` follow from them, and
  `SupersededFrozen` from the growth of the approved version.
* **WorkspaceCollection.**  `RowsOK` relates statuses, tokens and objects of committed
  rows and drafts; `Locking` says who has written what; `Settling` says that a
  transaction that opened or ended a job holds the lock of its workspace, settled, or
  has still to settle it.  `StatusTruthful` is inductive with the three of them.
  `QueueImplemented` needs that the drafts of a transaction are what one request, one
  claim or one result writes (`Writes`), and that a workspace it holds has a job that it
  writes or that was queued before (`Touching`): its commit is then one step of
  `CollectionQueue`, `Tick` is the loss of leases, and every other step is a stutter.
* **ArtifactRecovery.**  `OneRecovery` is inductive, because a start looks at the list
  under the lock of the source row.  `CollectedIsStored` needs that a job that is
  saved has stored its object and never changes again (`SavedStored`), `HostIsClean` that
  a recovery which no fault disturbed goes through one line of phases (`Phase`): job,
  commands and work directory agree at each of them.  *Liveness* (`RecoveriesFinish`):
  suppose a job could wait for ever, in the part of a behaviour after the last fault.
  It names a command that was sent (`Commanded`); the command ends or comes to its time
  limit, and stays over but for the one step from the export to the upload (`JobStep`).
  Once it is over for good, the screen, which gets free again and again
  (`ScreenAnswerable`), asks about the job, keeps what it asked (`AskedStays`), and the
  answer ends the job or sends the upload (`AnswerMoves`).  The hypotheses are that
  faults cease, which every behaviour of the model grants because `faults` only grows and
  is bounded, a fact that itself takes induction; and `MaxFaults < MaxUploads`, so
  that the bound on uploads, which the code does not have, is never what stops a poll.
* **MigrationAssessment.**  A row and its evidence are inductive by themselves
  (`Tables`): what becomes `ASSESSMENT_READY` gets the assessment of the version the row
  has in the same step, every version keeps its configuration (`Kept`), and in the
  statuses that follow only the target changes, under a source-first draft; a refresh
  keeps the draft, and the report that brings the next assessment drops it (`Founded`).
  `TypeOK` is inductive with two facts: `earlier` orders the
  created migrations strictly, and no inventory digest is recorded twice of one
  migration.  `RevokedReportNothing` needs `CallCurrent`: the
  report that is being handled is the newest connector's, which was valid when it
  arrived, because a connector is replaced only when its row is not locked.  *Liveness* (`DiscoveriesGetOn`): suppose a
  migration waits for ever with hope (`Stuck`), in the part of a behaviour in which
  rows, connectors, sources and faults stay as they are.  The agent finishes what it
  has, its report is answered, and it is given a migration again.  This one is in its
  discovery already, since the assignment would write its row otherwise, and was
  updated before all that wait for the source, so that the report, too, is for it,
  names its version and is not refused: the assignment is `Promising`, the report
  `Heard`.  The answer then writes the row (`AcceptedMoves`), against the supposition.

### What the liveness theorems assume

* `ENABLED`: the proof system does not expand it, so that the fair steps can be taken
  when their guards hold is a hypothesis with a name of its own: `GuardsSuffice`,
  `BootstrapGuardsSuffice`, `OutboxGuardsSuffice`, `MigrationGuardsSuffice`.  They say
  little of the code, each antecedent being the guard of the action, and no run lists
  them; TLC evaluates them, and they hold in the instances of the runs when they are
  added as invariants.  That of `ClusterProvisioning` implies the `NothingStuck` checked
  there (`CallbacksPossible`).  The last two say besides that a set of rows has a batch,
  and one of migrations a first one: finite sets in an order have.
* That disturbance ends: `FailuresCease` and `PublicationsCease` of `Outbox`,
  `ChangesCease` of `MigrationAssessment`, and that faults cease in `ArtifactRecovery`.
  What changes there only grows and is bounded, so that every fair behaviour grants it,
  as TLC finds when they are added as properties; but the proof is by induction on the
  bound, and the theorems on induction take an operator as a parameter, which no
  installed prover can instantiate.

Model-checked only: `JobsDecided`.  What it
says of any number of jobs takes induction over the length of a lease and over the
workspaces that a claim has to settle; and with several workspaces it asks for more than
`Fairness` grants, since a run that is killed between two settlements every time settles
each of them again and again.  The run has one workspace.  No module here declares a
`RECURSIVE` operator.

## Where code and documents disagree

* `applies_recheck`: plan and apply take `pinned_environment_snapshot`, which looks
  neither at the profile's nor at the customer's status.
  `docs/cluster-management.md:5-6`: "plan and apply re-check that the customer and
  environment are still `ACTIVE` and that the pinned version remains approved."
* `reassessment_ends`: `UNIQUE(migration_id, inventory_digest)`
  (`database/migrations/022_migration_management.sql:113`) refuses the inventory of a
  source that has not changed, so that a second assessment of it never ends.
  `docs/migration-delivery-plan.md:49` has stale configuration reassessed "even if a
  source inventory digest still matches".  So ends the refresh of an unchanged source,
  which `docs/migration/deployment-source-discovery.md:26` describes.

Seen while modelling, without a run of their own:

* `request_connector_install` (`cluster_management/repository.py:783`) keeps
  `installerStatus` `SUCCEEDED` of an earlier installer, so that the failure of a new
  one is never recorded; the exception `Stranded` of `BootstrapsEnd` has it.
* Component rows that a replaced connector reported `READY` stay, and vouch for the
  platform until the new connector reports; a component that fails does not move the
  cluster to `BOOTSTRAP_FAILED` as `docs/cluster-system-gitops.md:57` says.
* The recorded `systemNodeGroupMigration` stays in the configuration
  (`provisioning/runner/runner.py:91` reads it) and a request may take the name of the
  retired group, which a plan made without that request may then remove.

## Not modelled

Reads, reports and pure functions (discovery, readiness, capabilities, evidence
rules, assessment, exports): nothing interleaves with them.  The frontend, the
deployment scripts, the infrastructure templates and vendored files.  The
components named in the plan below, until their modules exist.

## Plan

In this order; each module with its properties, its run and its theorems.

1. `ToolSession`: issue, single exchange, expiry, revocation.
2. `Remediation`, and `ClusterNaming` for names against Terraform state keys.
3. `KubernetesAccess`: assignments and reconciliation through the connector.
