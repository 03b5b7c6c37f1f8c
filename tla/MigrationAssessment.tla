-------------------------- MODULE MigrationAssessment --------------------------
(***************************************************************************)
(* Migration requests and the connectors that report on their source       *)
(* (migration_management/service.py, repository.py, connector_handler.py). *)
(* A request is edited, discovered and assessed, planned, reviewed and     *)
(* decided.  Connectors poll: an assignment names a migration and its      *)
(* version, the report names the version only.  A source connector serves  *)
(* every migration of its source, the least recently updated one first; a  *)
(* migration connector serves its own migration once.                      *)
(*                                                                         *)
(* A user's call locks the row of the migration, compares the version and  *)
(* writes before it commits: one step.  A report takes two: the migration  *)
(* is searched without a lock, then locked by its identifier and checked.  *)
(* The connector's own row is locked during both.                          *)
(***************************************************************************)
EXTENDS Naturals, Sequences, FiniteSets, SequencesExt

CONSTANTS Migration, Source, User, Scope, Target,
          Planned,       \* the targets that name no registered cluster
          NoSource, NoTarget,
          Creator,       \* [Migration -> User]
          Requested,     \* [Migration -> SUBSET Config]: what its user may ask for
          MaxInstalls,   \* [Source \cup Migration -> Nat]: connectors ever enrolled
          MaxVersion,    \* [Migration -> Nat]: no user's call beyond this version, but
                         \* RefreshEvidence, which MaxDrift bounds
          MaxDrift, MaxFaults

Origin == Source \cup Migration   \* what a connector reports for

\* What is assessed: manual is the discoveryMode of the source configuration.
Config == [source: Source \cup {NoSource}, manual: BOOLEAN, scope: Scope,
           target: Target \cup {NoTarget}]

ASSUME MigrationAssumption ==
  /\ Planned \subseteq Target
  /\ NoSource \notin Source /\ NoTarget \notin Target /\ Scope # {}
  /\ Creator \in [Migration -> User] /\ Requested \in [Migration -> SUBSET Config]
  /\ Source \cap Migration = {}
  /\ MaxInstalls \in [Origin -> Nat] /\ MaxVersion \in [Migration -> Nat]
  /\ {MaxDrift, MaxFaults} \subseteq Nat

VARIABLES row,        \* [Migration -> the migrations row]
          versions,   \* [Migration -> the configurations of its migration_versions]
          earlier,    \* pairs of migrations, the first one updated before the second
          evidence,   \* [Migration -> its inventories and assessments, oldest first]
          digest,     \* [Source -> what an inventory of the source amounts to now]
          connector,  \* [Origin -> the number of its newest connector, and if it is valid]
          agent,      \* [Origin -> the assignment its newest connector works on]
          call,       \* [Origin -> the report that is being handled]
          faults

tables == <<row, versions, earlier, evidence>>
agents == <<connector, agent, call>>
vars == <<row, versions, earlier, evidence, digest, connector, agent, call, faults>>

Status == {"NONE", "DRAFT", "SOURCE_ENROLLMENT_PENDING", "INVENTORY_DISCOVERING",
           "INVENTORY_READY", "DISCOVERY_PENDING", "DISCOVERING", "ASSESSMENT_READY",
           "SUBMITTED", "UNDER_REVIEW", "APPROVED", "REJECTED", "CANCELLED"}

\* A planning draft: the assessment it rests on, and its workflow.
NoDraft == [on |-> 0, sourceFirst |-> FALSE]

Idle == [type |-> "none", version |-> 0]
NoCall == [for |-> {}]

Created == {m \in Migration : row[m].status # "NONE"}

\* updated_at orders the rows: one after the other, none twice.
Ordered ==
  /\ earlier \subseteq Created \X Created
  /\ \A m, n \in Created : <<m, n>> \in earlier \/ <<n, m>> \in earlier \/ m = n
  /\ \A m, n \in Created : <<m, n>> \in earlier => <<n, m>> \notin earlier
  /\ \A l, m, n \in Created : <<l, m>> \in earlier /\ <<m, n>> \in earlier => <<l, n>> \in earlier

TypeOK ==
  /\ row \in [Migration -> [status: Status, version: Nat, config: Config,
                            draft: [on: Nat, sourceFirst: BOOLEAN],
                            deleted: BOOLEAN]]
  /\ versions \in [Migration -> Seq(Config)]
  /\ Ordered
  /\ \A m \in Migration :
       /\ Len(versions[m]) = row[m].version
       /\ evidence[m] \in Seq([digest: 0 .. MaxDrift, version: Nat])
       /\ IsInjective([k \in DOMAIN evidence[m] |-> evidence[m][k].digest])
  /\ digest \in [Source -> 0 .. MaxDrift]
  /\ connector \in [Origin -> [number: Nat, live: BOOLEAN]]
  /\ agent \in [Origin -> [type: {"none", "catalogue", "inventory"}, version: Nat]]
  /\ \A o \in Origin : call[o] # NoCall =>
       call[o] \in [for: SUBSET Migration, by: [number: Nat, live: BOOLEAN],
                   type: {"catalogue", "inventory"}, version: Nat, digest: 0 .. MaxDrift]
  /\ faults \in 0 .. MaxFaults

-----------------------------------------------------------------------------
(* The writes of Repository.save. *)

\* m is the last one updated.
Latest(m) ==
  earlier' = {p \in earlier : m \notin {p[1], p[2]}} \cup {<<n, m>> : n \in Created \ {m}}

\* Row m becomes new, with the next version, and that version is kept.
Saved(m, new) ==
  /\ row' = [row EXCEPT ![m] = [new EXCEPT !.version = row[m].version + 1]]
  /\ versions' = [versions EXCEPT ![m] = Append(@, new.config)]
  /\ Latest(m)

\* Mutant: a connector's transition keeps the planning draft.
Reported_KeepsDraft(r, status) == [r EXCEPT !.status = status]

\* A connector's transition of row r: its SELECT leaves out planning_draft, so
\* that save writes {}.
Reported(r, status) == [r EXCEPT !.status = status, !.draft = NoDraft]

Init ==
  /\ row = [m \in Migration |-> [status |-> "NONE", version |-> 0, draft |-> NoDraft,
                                 config |-> CHOOSE c \in Config : TRUE, deleted |-> FALSE]]
  /\ versions = [m \in Migration |-> <<>>]
  /\ earlier = {}
  /\ evidence = [m \in Migration |-> <<>>]
  /\ digest = [s \in Source |-> 0]
  /\ connector = [o \in Origin |-> [number |-> 0, live |-> FALSE]]
  /\ agent = [o \in Origin |-> Idle]
  /\ call = [o \in Origin |-> NoCall]
  /\ faults = 0

-----------------------------------------------------------------------------
(* The calls of users. *)

\* Service.create: without a target the discovery is MANUAL, and needs a source.
Create(m, c) ==
  /\ row[m].status = "NONE"
  /\ c.target = NoTarget => c.manual /\ c.source # NoSource
  /\ Saved(m, [row[m] EXCEPT !.status = "DRAFT", !.config = c])
  /\ UNCHANGED <<evidence, digest, agents, faults>>

\* get(lock): the row exists and is not deleted.
Exists(m) == row[m].status # "NONE" /\ ~row[m].deleted

Open(m) == Exists(m) /\ row[m].version < MaxVersion[m]

Editable(r) == r.status \in {"DRAFT", "REJECTED", "INVENTORY_READY"}

\* Service.update: source, target and scope, each if given.  A target alone, of
\* a REJECTED request, is SelectTarget.  A request that waits without a source
\* may be given one.
Update(m, c) ==
  /\ Open(m)
  /\ c # row[m].config
  /\ \/ /\ Editable(row[m])
        /\ c.target = NoTarget => row[m].config.target = NoTarget
        /\ row[m].status = "REJECTED" => c.target = row[m].config.target
     \/ /\ row[m].status = "SOURCE_ENROLLMENT_PENDING"
        /\ row[m].config.source = NoSource /\ c.source # NoSource
        /\ c.scope = row[m].config.scope /\ c.target = row[m].config.target
  /\ Saved(m, [row[m] EXCEPT !.config = c])
  /\ UNCHANGED <<evidence, digest, agents, faults>>

\* require_planning_configuration: the version that the newest assessment
\* names is kept, with the present configuration or all of it but the target.
AsAssessed(m, sourceOnly) ==
  /\ evidence[m] # <<>>
  /\ Last(evidence[m]).version \in DOMAIN versions[m]
  /\ LET c == versions[m][Last(evidence[m]).version] IN
     /\ [c EXCEPT !.target = NoTarget] = [row[m].config EXCEPT !.target = NoTarget]
     /\ sourceOnly \/ c.target = row[m].config.target

\* Service.select_planning_target.
SelectTarget(m, t) ==
  /\ Open(m)
  /\ row[m].status \in {"ASSESSMENT_READY", "REJECTED"}
  /\ row[m].draft.sourceFirst
  /\ row[m].draft.on = Len(evidence[m])
  /\ AsAssessed(m, TRUE)
  /\ t \in Target \ Planned
  /\ Saved(m, [row[m] EXCEPT !.config.target = t])
  /\ UNCHANGED <<evidence, digest, agents, faults>>

\* Service.save_planning_draft, for a draft that rests on assessment k.
SavePlanningDraft(m, k, sourceFirst) ==
  /\ Open(m)
  /\ row[m].status \in {"ASSESSMENT_READY", "SUBMITTED", "UNDER_REVIEW", "APPROVED", "REJECTED"}
  /\ k = Len(evidence[m])
  /\ AsAssessed(m, sourceFirst)
  /\ Saved(m, [row[m] EXCEPT !.draft = [on |-> k, sourceFirst |-> sourceFirst]])
  /\ UNCHANGED <<evidence, digest, agents, faults>>

\* The TRANSITIONS table.
Sources(action) ==
  CASE action = "discover" -> {"DRAFT", "REJECTED"}
    [] action = "assess"   -> {"INVENTORY_READY", "REJECTED"}
    [] action = "submit"   -> {"ASSESSMENT_READY"}
    [] action = "review"   -> {"SUBMITTED"}
    [] action = "approve"  -> {"UNDER_REVIEW"}
    [] action = "reject"   -> {"SUBMITTED", "UNDER_REVIEW"}
    [] action = "cancel"   -> {"DRAFT", "REJECTED", "DISCOVERY_PENDING", "DISCOVERING",
                               "ASSESSMENT_READY", "SUBMITTED"}
    [] action = "delete"   -> Status \ {"NONE"}   \* cancel with deleteAssessment

Goal(action) ==
  CASE action = "discover" -> "SOURCE_ENROLLMENT_PENDING"
    [] action = "assess"   -> "DISCOVERY_PENDING"
    [] action = "submit"   -> "SUBMITTED"
    [] action = "review"   -> "UNDER_REVIEW"
    [] action = "approve"  -> "APPROVED"
    [] action = "reject"   -> "REJECTED"
    [] action \in {"cancel", "delete"} -> "CANCELLED"

Action == {"discover", "assess", "submit", "review", "approve", "reject", "cancel", "delete"}

Registered(t) == t \in Target \ Planned

\* The part of Service.change that every action goes through.
Changes(m, u, action) ==
  /\ Open(m)
  /\ row[m].status \in Sources(action)
  /\ action \in {"review", "approve", "reject"} => u # Creator[m]
  /\ action = "submit" => ~row[m].config.manual \/ Registered(row[m].config.target)
  /\ Saved(m, [row[m] EXCEPT !.status = Goal(action), !.deleted = (action = "delete")])
  /\ UNCHANGED <<evidence, digest>>

Change(m, u, action) ==
  /\ Changes(m, u, action)
  /\ action \in {"discover", "assess"} => row[m].config.source # NoSource
  /\ UNCHANGED <<agents, faults>>

\* The newest connector of o gives way to another one.
Replaced(o) ==
  /\ connector[o].number < MaxInstalls[o]
  /\ connector' = [connector EXCEPT ![o] = [number |-> @.number + 1, live |-> TRUE]]
  /\ agent' = [agent EXCEPT ![o] = Idle]

\* discover and assess with a token: create_discovery_connector.
ChangeWithToken(m, u, action) ==
  /\ action \in {"discover", "assess"}
  /\ Changes(m, u, action)
  /\ call[m] = NoCall
  /\ Replaced(m)
  /\ UNCHANGED <<call, faults>>

\* Service.analyze_deployment_sources with refreshCluster: a completed assessment
\* of a registered source is made again, and its planning draft stays.
RefreshEvidence(m) ==
  /\ Exists(m)
  /\ row[m].status = "ASSESSMENT_READY"
  /\ row[m].config.source # NoSource
  /\ Saved(m, [row[m] EXCEPT !.status = "DISCOVERY_PENDING"])
  /\ UNCHANGED <<evidence, digest, agents, faults>>

-----------------------------------------------------------------------------
(* The connectors. *)

\* Mutant: the old connector's row is not locked when it is revoked.
EnrollSourceConnector_Unlocked(s) ==
  /\ Replaced(s)
  /\ UNCHANGED <<tables, digest, call, faults>>

\* create_source_enrollment or install_source_connector, and then the new
\* connector: the one before it is revoked when its row is not locked.
EnrollSourceConnector(s) ==
  /\ call[s] = NoCall
  /\ Replaced(s)
  /\ UNCHANGED <<tables, digest, call, faults>>

\* authenticate_source_connector, authenticate_connector.
Authentic(o) == connector[o].live

\* expires_at passes.
Expire(o) ==
  /\ connector[o].live /\ faults < MaxFaults /\ faults' = faults + 1
  /\ connector' = [connector EXCEPT ![o].live = FALSE]
  /\ UNCHANGED <<tables, digest, agent, call>>

\* source_migration: the least recently updated one of the source.
Waits(s, statuses, m) ==
  /\ row[m].config.source = s
  /\ row[m].status \in statuses
  /\ ~(row[m].status = "DRAFT" /\ row[m].config.manual)

SourceMigration(s, statuses) ==
  LET waiting == {m \in Migration : Waits(s, statuses, m)} IN
  {m \in waiting : \A n \in waiting \ {m} : <<m, n>> \in earlier}

Catalogues == {"SOURCE_ENROLLMENT_PENDING", "INVENTORY_DISCOVERING"}
Inventories == {"DISCOVERY_PENDING", "DISCOVERING"}

\* Mutant: what was handed out is not handed out again.
AssignmentOf_PendingOnly(o) ==
  IF o \in Source THEN SourceMigration(o, {"DRAFT", "SOURCE_ENROLLMENT_PENDING", "DISCOVERY_PENDING"})
                  ELSE {m \in {o} : row[m].status \in Catalogues \cup Inventories}

\* source_assignment and assignment: the migration that connector o is to work
\* on starts its discovery, if it has not.
AssignmentOf(o) ==
  IF o \in Source THEN SourceMigration(o, {"DRAFT"} \cup Catalogues \cup Inventories)
                  ELSE {m \in {o} : row[m].status \in Catalogues \cup Inventories}

Assignment(o) ==
  /\ Authentic(o) /\ call[o] = NoCall /\ agent[o] = Idle
  /\ \E m \in AssignmentOf(o) :
       LET type == IF row[m].status \in Inventories THEN "inventory" ELSE "catalogue"
           goal == IF type = "inventory" THEN "DISCOVERING" ELSE "INVENTORY_DISCOVERING" IN
       /\ IF row[m].status = goal THEN UNCHANGED <<row, versions, earlier>>
                                  ELSE Saved(m, Reported(row[m], goal))
       /\ agent' = [agent EXCEPT ![o] = [type |-> type, version |-> row'[m].version]]
  /\ UNCHANGED <<evidence, digest, connector, call, faults>>

Discovers(type) == IF type = "inventory" THEN "DISCOVERING" ELSE "INVENTORY_DISCOVERING"

\* The agent (run_once) reads source s and posts its report.  The handler
\* authenticates the connector, locks its row, and finds the migration: for a
\* source connector without a lock.  When the agent did not wait for the answer,
\* it may have been given the same assignment again before.
Report(o, s) ==
  /\ Authentic(o) /\ call[o] = NoCall /\ agent[o] # Idle
  /\ o \in Source => s = o
  /\ call' = [call EXCEPT ![o] =
       [for |-> IF o \in Source THEN SourceMigration(o, {Discovers(agent[o].type)}) ELSE {o},
        by |-> connector[o], type |-> agent[o].type, version |-> agent[o].version,
        digest |-> digest[s]]]
  /\ \/ agent' = [agent EXCEPT ![o] = Idle] /\ UNCHANGED faults
     \/ UNCHANGED agent /\ faults < MaxFaults /\ faults' = faults + 1
  /\ UNCHANGED <<tables, digest, connector>>

\* The report never arrives, is refused with the connector, or the agent restarts.
Lose(o) ==
  /\ agent[o] # Idle
  /\ agent' = [agent EXCEPT ![o] = Idle]
  /\ IF connector[o].live THEN faults < MaxFaults /\ faults' = faults + 1
                          ELSE UNCHANGED faults
  /\ UNCHANGED <<tables, digest, connector, call>>

\* resolve_target_runtime finds the target, or there is none to assess.
TargetResolved(c) ==
  (c.manual /\ ~Registered(c.target)) \/ Registered(c.target)

\* Mutant: what the search found is not checked again under the row lock.
Accepted_AsFound(m, r) ==
  r.type = "inventory" =>
    /\ TargetResolved(row[m].config)
    /\ \A k \in DOMAIN evidence[m] : evidence[m][k].digest # r.digest

\* submit_catalogue, submit_source_inventory: the checks under the row lock, and
\* UNIQUE(migration_id, inventory_digest).
Accepted(m, r) ==
  /\ row[m].status = Discovers(r.type)
  /\ row[m].version = r.version
  /\ r.type = "inventory" =>
       /\ TargetResolved(row[m].config)
       /\ \A k \in DOMAIN evidence[m] : evidence[m][k].digest # r.digest

\* mark_connector_submission: a migration connector has done its work.
Marked(o) ==
  connector' = IF o \in Source THEN connector ELSE [connector EXCEPT ![o].live = FALSE]

Ended(o) == call' = [call EXCEPT ![o] = NoCall]

SubmitCatalogue(o) ==
  /\ \E m \in call[o].for :
       /\ call[o].type = "catalogue" /\ Accepted(m, call[o])
       /\ Saved(m, Reported(row[m], "INVENTORY_READY"))
  /\ Marked(o) /\ Ended(o)
  /\ UNCHANGED <<evidence, digest, agent, faults>>

\* Two versions in one transaction: ASSESSING and ASSESSMENT_READY.
SubmitSourceInventory(o) ==
  /\ \E m \in call[o].for :
       LET r == call[o] IN
       /\ r.type = "inventory" /\ Accepted(m, r)
       /\ evidence' = [evidence EXCEPT ![m] = Append(@,
                                               [digest |-> r.digest, version |-> r.version])]
       /\ row' = [row EXCEPT ![m] = [Reported(row[m], "ASSESSMENT_READY")
                                       EXCEPT !.version = row[m].version + 2]]
       /\ versions' = [versions EXCEPT ![m] = Append(Append(@, row[m].config), row[m].config)]
       /\ Latest(m)
  /\ Marked(o) /\ Ended(o)
  /\ UNCHANGED <<digest, agent, faults>>

\* 4xx, or an exception and a rollback: the row stays as it is.
Refused(o) ==
  /\ call[o] # NoCall
  /\ Ended(o)
  /\ \/ /\ \A m \in call[o].for : ~Accepted(m, call[o])
        /\ UNCHANGED faults
     \/ faults < MaxFaults /\ faults' = faults + 1
  /\ UNCHANGED <<tables, digest, connector, agent>>

\* The workloads of a source change.
Drift(s) ==
  /\ digest[s] < MaxDrift
  /\ digest' = [digest EXCEPT ![s] = @ + 1]
  /\ UNCHANGED <<tables, agents, faults>>

-----------------------------------------------------------------------------

Handle(o) == SubmitCatalogue(o) \/ SubmitSourceInventory(o) \/ Refused(o)

Next ==
  \/ \E m \in Migration :
       \/ \E c \in Requested[m] : Create(m, c) \/ Update(m, c)
       \/ \E u \in User, a \in Action : Change(m, u, a) \/ ChangeWithToken(m, u, a)
       \/ RefreshEvidence(m)
       \/ \E t \in Target : SelectTarget(m, t)
       \/ \E k \in 1 .. Len(evidence[m]), b \in BOOLEAN : SavePlanningDraft(m, k, b)
  \/ \E o \in Origin :
       \/ Assignment(o) \/ Lose(o) \/ Handle(o) \/ Expire(o)
       \/ \E s \in Source : Report(o, s)
  \/ \E s \in Source : EnrollSourceConnector(s) \/ Drift(s)

Spec == Init /\ [][Next]_vars

\* The agent of a source polls for ever (run_forever), and the invocation that
\* handles what it posts ends.
PollFairness(s) == WF_vars(Assignment(s)) /\ WF_vars(Report(s, s)) /\ WF_vars(Handle(s))

Fairness == \A s \in Source : PollFairness(s)

FairSpec == Spec /\ Fairness

-----------------------------------------------------------------------------

\* What a reviewer sees was assessed as it stands: source, discovery mode and
\* scope are those of the version the newest assessment looked at, and so is
\* the target, unless a source-first draft let a target be chosen afterwards.
ReviewedAsAssessed ==
  \A m \in Migration :
    row[m].status \in {"ASSESSMENT_READY", "SUBMITTED", "UNDER_REVIEW", "APPROVED"} =>
      AsAssessed(m, row[m].draft.sourceFirst)

\* A planning draft rests on the newest assessment, at whatever point of a
\* second discovery: no draft outlives the evidence its findings and resources
\* were taken from.
DraftOnLatest ==
  \A m \in Migration : row[m].draft.on # 0 => row[m].draft.on = Len(evidence[m])

\* A report moves a migration only for a connector that was valid when it
\* arrived and that no other one has replaced since.
RevokedReportNothing ==
  [][\A o \in Origin : SubmitCatalogue(o) \/ SubmitSourceInventory(o) =>
       call[o].by.live /\ connector[o].number = call[o].by.number]_vars

\* The migration waits for the connector of its source.
Awaits(m) ==
  /\ row[m].config.source # NoSource
  /\ Waits(row[m].config.source, {"DRAFT"} \cup Catalogues \cup Inventories, m)

\* The reports for a discovery can only be refused.
Hopeless(m) ==
  LET c == row[m].config IN
  /\ row[m].status = "DISCOVERING"
  /\ \/ ~TargetResolved(c)
     \/ c.source # NoSource /\ \E k \in DOMAIN evidence[m] : evidence[m][k].digest = digest[c.source]

\* m has got on, or the connector of its source, or a discovery there, is to be
\* seen to by somebody.
GotOn(m) ==
  LET s == row[m].config.source IN
  \/ ~Awaits(m)
  \/ ~connector[s].live
  \/ \E n \in Migration : row[n].config.source = s /\ Hopeless(n)

\* With a valid connector every migration that waits for its source gets on,
\* whatever is lost or repeated, unless a discovery of the same source is stuck.
ProceedsAtLast(m) == Awaits(m) ~> GotOn(m)
DiscoveriesProceed == \A m \in Migration : ProceedsAtLast(m)

\* The guards of the steps that are scheduled fairly: each can be taken when they
\* hold, and among the migrations that wait one was updated first.
MigrationGuardsSuffice ==
  \A s \in Source :
    /\ call[s] # NoCall => ENABLED <<Handle(s)>>_vars
    /\ connector[s].live /\ call[s] = NoCall =>
         /\ agent[s] # Idle => ENABLED <<Report(s, s)>>_vars
         /\ agent[s] = Idle /\ (\E m \in Migration : row[m].config.source = s /\ Awaits(m))
              => ENABLED <<Assignment(s)>>_vars

\* From some time on migrations, connectors and sources stay as they are, and
\* nothing fails: with finitely many calls of users, changes of sources and faults
\* this comes to pass.
ChangesCease == <>[][UNCHANGED <<row, connector, digest, faults>>]_vars

\* docs/migration-delivery-plan.md: stale configuration requires reassessment,
\* even if a source inventory digest still matches.
ReassessmentEnds ==
  \A m \in Migration :
    row[m].status = "DISCOVERING" /\ TargetResolved(row[m].config) ~>
      \/ row[m].status # "DISCOVERING"
      \/ row[m].config.source = NoSource
      \/ ~connector[row[m].config.source].live

=============================================================================
