---------------------------- MODULE ClusterRequests ----------------------------
(***************************************************************************)
(* Cluster requests under an environment profile that changes meanwhile    *)
(* (cluster_management/service.py with environment_management/service.py). *)
(* A request pins the approved version it was made under.  Every operation *)
(* is a READ COMMITTED transaction made of the steps at which it may have  *)
(* to wait for a row lock:                                                 *)
(*   - one on the profile takes FOR UPDATE of the profile, then, if it     *)
(*     calls validate_parent, of the customer;                             *)
(*   - one on a cluster takes FOR UPDATE of the cluster, then FOR SHARE of *)
(*     the profile and the customer; between that and its COMMIT it may    *)
(*     call GitHub and start a build, which takes seconds.                 *)
(* A transition of the customer needs one lock only, and so is one step.   *)
(*                                                                         *)
(* One GitHub organization; the authorization page and its one-time state  *)
(* are left out.  Node groups, what plans contain and how builds end are   *)
(* the subject of ClusterProvisioning.                                     *)
(***************************************************************************)
EXTENDS EnvironmentLifecycle

CONSTANTS Cluster,
          EnvironmentCall, ClusterCall    \* concurrent invocations of the two Lambdas

VARIABLES clusters,           \* [Cluster -> the row of clusters]
          connected,          \* github_app_connections: the organization is ACTIVE
          environmentCalls,   \* [EnvironmentCall -> the transaction it runs]
          clusterCalls        \* [ClusterCall -> the transaction it runs]

vars == <<parent, env, versions, clusters, connected, environmentCalls, clusterCalls>>

Requested == {"DRAFT", "SUBMITTED", "UNDER_REVIEW", "APPROVED", "REJECTED"}
Planned == {"PLAN_RUNNING", "PLAN_READY", "APPLYING", "BOOTSTRAPPING", "BOOTSTRAP_FAILED", "FAILED"}

ClusterRow == [status: Requested \cup Planned \cup {"NONE"}, pin: Nat,
               author: User \cup {NoUser}, submitter: User \cup {NoUser}]
NoCluster == [status |-> "NONE", pin |-> 0, author |-> NoUser, submitter |-> NoUser]

ClusterOperation == {"create", "submit", "review", "approve", "reject", "complete", "plan", "apply"}

\* "parent": the profile is locked, the customer not yet; "commit": all locks
\* are held.  row is the profile as the transaction read it.
Idle == [pc |-> "idle"]
EnvironmentTransaction ==
  [pc: {"parent", "commit"}, op: Operation \cup {"create", "update"},
   user: User, config: Config, row: Row]

\* "baseline": the cluster is locked, the profile not yet.  linked is what
\* active_github_connection answered.
ClusterTransaction ==
  [pc: {"baseline", "commit"}, op: ClusterOperation, user: User, cluster: Cluster,
   row: ClusterRow, linked: BOOLEAN]

Init ==
  /\ EnvironmentInit
  /\ clusters = [c \in Cluster |-> NoCluster]
  /\ connected = FALSE
  /\ environmentCalls = [e \in EnvironmentCall |-> Idle]
  /\ clusterCalls = [k \in ClusterCall |-> Idle]

-----------------------------------------------------------------------------
(* Row locks, held to the end of the transaction. *)

UpdatesProfile(e) ==
  environmentCalls[e].pc \in {"parent", "commit"} /\ environmentCalls[e].op # "create"
UpdatesParent(e) ==
  environmentCalls[e].pc = "commit" /\ AsksParent(environmentCalls[e].op)
UpdatesCluster(k, c) ==
  /\ clusterCalls[k].pc \in {"baseline", "commit"}
  /\ clusterCalls[k].cluster = c

\* Mutant: the profile is read without FOR SHARE.
SharesBaseline_Never(k) == FALSE

\* GitHub's answer to a cluster not APPROVED is recorded without the profile.
LooksUp(op, row) == op = "complete" => row.status = "APPROVED"
SharesBaseline(k) ==
  /\ clusterCalls[k].pc = "commit"
  /\ LooksUp(clusterCalls[k].op, clusterCalls[k].row)

ProfileFree == /\ \A e \in EnvironmentCall : ~UpdatesProfile(e)
               /\ \A k \in ClusterCall : ~SharesBaseline(k)
ParentFree  == /\ \A e \in EnvironmentCall : ~UpdatesParent(e)
               /\ \A k \in ClusterCall : ~SharesBaseline(k)
ProfileShareable == \A e \in EnvironmentCall : ~UpdatesProfile(e) /\ ~UpdatesParent(e)
ClusterFree(c) == \A k \in ClusterCall : ~UpdatesCluster(k, c)

-----------------------------------------------------------------------------
(* Transactions on the profile. *)

RunEnvironment(e, call) ==
  /\ environmentCalls' = [environmentCalls EXCEPT ![e] = call]
  /\ UNCHANGED <<parent, clusters, connected, clusterCalls>>

\* Service.create reads no profile; Service.change locks it and decides.
Decides(op, user) ==
  CASE op = "create" -> user \in Engineers
    [] op = "update" -> Editable(env, user)
    [] OTHER -> Permits(env, op, user)

BeginEnvironment(e, op, user, config) ==
  /\ environmentCalls[e] = Idle
  /\ op # "create" => ProfileFree
  /\ Decides(op, user)
  /\ op \in Operation => config = env.config      \* which only creation and edits replace
  /\ RunEnvironment(e, [pc |-> IF AsksParent(op) THEN "parent" ELSE "commit",
                        op |-> op, user |-> user, config |-> config, row |-> env])
  /\ UNCHANGED <<env, versions>>

\* Mutant: the customer is read without FOR UPDATE, in an earlier snapshot.
LockParent_Unchecked(e) ==
  /\ environmentCalls[e].pc = "parent"
  /\ ParentFree
  /\ RunEnvironment(e, [environmentCalls[e] EXCEPT !.pc = "commit"])
  /\ UNCHANGED <<env, versions>>

\* validate_parent.
LockParent(e) ==
  /\ environmentCalls[e].pc = "parent"
  /\ ParentFree
  /\ ParentAllows(environmentCalls[e].op, parent)
  /\ RunEnvironment(e, [environmentCalls[e] EXCEPT !.pc = "commit"])
  /\ UNCHANGED <<env, versions>>

WrittenProfile(call) ==
  CASE call.op = "create" -> Created(call.user, call.config)
    [] call.op = "update" -> Updated(call.row, call.user, call.config)
    [] OTHER -> Transitioned(call.row, call.op, call.user)

\* A second creation makes another profile, which is not modelled.
CommitEnvironment(e) ==
  /\ environmentCalls[e].pc = "commit"
  /\ environmentCalls[e].op = "create" => env.status = "NONE"
  /\ Save(WrittenProfile(environmentCalls[e]))
  /\ RunEnvironment(e, Idle)

\* Any error, a deadlock the database breaks included.
AbortEnvironment(e) ==
  /\ environmentCalls[e] # Idle
  /\ RunEnvironment(e, Idle)
  /\ UNCHANGED <<env, versions>>

-----------------------------------------------------------------------------
(* Transactions on a cluster. *)

RunCluster(k, call) ==
  /\ clusterCalls' = [clusterCalls EXCEPT ![k] = call]
  /\ UNCHANGED <<parent, env, versions, environmentCalls>>

\* TRANSITIONS, and the statuses plan and apply expect.
ClusterSources(op) ==
  CASE op = "create" -> {"NONE"}
    [] op = "submit" -> {"DRAFT", "REJECTED"}
    [] op = "review" -> {"SUBMITTED"}
    [] op \in {"approve", "reject"} -> {"SUBMITTED", "UNDER_REVIEW"}
    [] op = "complete" -> (Requested \cup Planned)
    [] op = "plan"   -> {"FAILED", "PLAN_READY"}
    [] op = "apply"  -> {"PLAN_READY"}

ClusterPermits(row, op, user) ==
  /\ user \in IF op \in {"create", "submit"} THEN Engineers ELSE Architects
  /\ row.status \in ClusterSources(op)
  /\ op \in {"review", "approve", "reject"} => user \notin {row.author, row.submitter}

BeginCluster(k, c, op, user) ==
  /\ clusterCalls[k] = Idle
  /\ ClusterFree(c)
  /\ ClusterPermits(clusters[c], op, user)
  /\ RunCluster(k, [pc |-> "baseline", op |-> op, user |-> user, cluster |-> c,
                    row |-> clusters[c], linked |-> FALSE])
  /\ UNCHANGED <<clusters, connected>>

\* active_environment_snapshot, for a request that pins version pin.  A profile
\* with no approved_status stands as its row does.
Entitled(pin) ==
  /\ (IF env.standing = "NONE" THEN env.status ELSE env.standing) = "ACTIVE"
  /\ parent = "ACTIVE"
  /\ env.approved # 0 /\ pin = env.approved

\* Which look-up an operation makes: plan and apply take the pinned snapshot
\* whatever became of the profile (pinned_environment_snapshot).
NeedsEntitlement(op, row) == op \notin {"plan", "apply"} /\ LooksUp(op, row)

\* Mutant: the current version is pinned.
Pinned_Latest(call) ==
  IF call.op = "create" THEN [call.row EXCEPT !.pin = env.version] ELSE call.row

\* The row create writes pins the approved version.
Pinned(call) == IF call.op = "create" THEN [call.row EXCEPT !.pin = env.approved] ELSE call.row

\* Mutant: approval looks the pinned version up like plan does.
CheckBaseline_Pinned(k) ==
  LET call == clusterCalls[k] IN
  /\ call.pc = "baseline"
  /\ LooksUp(call.op, call.row) => ProfileShareable
  /\ call.op = "create" => Entitled(env.approved)
  /\ RunCluster(k, [call EXCEPT !.pc = "commit", !.row = Pinned(call), !.linked = connected])
  /\ UNCHANGED <<clusters, connected>>

CheckBaseline(k) ==
  LET call == clusterCalls[k] IN
  /\ call.pc = "baseline"
  /\ LooksUp(call.op, call.row) => ProfileShareable
  /\ NeedsEntitlement(call.op, call.row) =>
       Entitled(IF call.op = "create" THEN env.approved ELSE call.row.pin)
  /\ RunCluster(k, [call EXCEPT !.pc = "commit", !.row = Pinned(call), !.linked = connected])
  /\ UNCHANGED <<clusters, connected>>

\* An approval with the organization connected, and the connection of an
\* approved cluster, start the first plan at once.
WrittenCluster(call) ==
  CASE call.op = "create"  -> [call.row EXCEPT !.status = "DRAFT", !.author = call.user]
    [] call.op = "submit"  -> [call.row EXCEPT !.status = "SUBMITTED", !.submitter = call.user]
    [] call.op = "review"  -> [call.row EXCEPT !.status = "UNDER_REVIEW"]
    [] call.op = "reject"  -> [call.row EXCEPT !.status = "REJECTED"]
    [] call.op = "approve" ->
         [call.row EXCEPT !.status = IF call.linked THEN "PLAN_RUNNING" ELSE "APPROVED"]
    [] call.op = "complete" ->
         [call.row EXCEPT !.status = IF @ = "APPROVED" THEN "PLAN_RUNNING" ELSE @]
    [] call.op = "plan"    -> [call.row EXCEPT !.status = "PLAN_RUNNING"]
    [] call.op = "apply"   -> [call.row EXCEPT !.status = "APPLYING"]

CommitCluster(k) ==
  LET call == clusterCalls[k] IN
  /\ call.pc = "commit"
  /\ clusters' = [clusters EXCEPT ![call.cluster] = WrittenCluster(call)]
  /\ connected' = (connected \/ call.op = "complete")
  /\ RunCluster(k, Idle)

AbortCluster(k) ==
  /\ clusterCalls[k] # Idle
  /\ RunCluster(k, Idle)
  /\ UNCHANGED <<clusters, connected>>

\* status_handler records the end of the build, under the cluster's lock.
BuildEnds(c) ==
  /\ ClusterFree(c)
  /\ \/ clusters[c].status = "PLAN_RUNNING"
        /\ \E s \in {"PLAN_READY", "FAILED"} : clusters' = [clusters EXCEPT ![c].status = s]
     \/ clusters[c].status = "APPLYING"
        /\ \E s \in {"BOOTSTRAPPING", "BOOTSTRAP_FAILED", "FAILED"} :
             clusters' = [clusters EXCEPT ![c].status = s]
  /\ UNCHANGED <<parent, env, versions, connected, environmentCalls, clusterCalls>>

-----------------------------------------------------------------------------

CustomerMoves ==
  /\ ParentFree
  /\ ParentMoves
  /\ UNCHANGED <<clusters, connected, environmentCalls, clusterCalls>>

Next ==
  \/ CustomerMoves
  \/ \E e \in EnvironmentCall :
       \/ \E op \in Operation \cup {"create", "update"}, user \in User, config \in Config :
            BeginEnvironment(e, op, user, config)
       \/ LockParent(e) \/ CommitEnvironment(e) \/ AbortEnvironment(e)
  \/ \E k \in ClusterCall :
       \/ \E c \in Cluster, op \in ClusterOperation, user \in User : BeginCluster(k, c, op, user)
       \/ CheckBaseline(k) \/ CommitCluster(k) \/ AbortCluster(k)
  \/ \E c \in Cluster : BuildEnds(c)

Spec == Init /\ [][Next]_vars

-----------------------------------------------------------------------------

TypeOK ==
  /\ EnvironmentTypeOK
  /\ clusters \in [Cluster -> ClusterRow]
  /\ connected \in BOOLEAN
  /\ environmentCalls \in [EnvironmentCall -> EnvironmentTransaction \cup {Idle}]
  /\ clusterCalls \in [ClusterCall -> ClusterTransaction \cup {Idle}]

\* The transactions on the profile, which read the row, wait for the customer
\* and write the row they read, implement the indivisible operations: at its
\* COMMIT each one still finds the profile and the customer it decided on.
ImplementsEnvironment == EnvironmentSpec

\* Whatever is requested, planned or applied pins a snapshot that was reviewed
\* by somebody independent and is exactly what was submitted.
PinsReviewed ==
  \A c \in Cluster : clusters[c].status # "NONE" => Reviewed(versions, clusters[c].pin)

\* No cluster is planned for the first time, by an approval or by the GitHub
\* connection, once the profile or its customer is withdrawn, or has another
\* baseline: not even if that commits while GitHub is called and the build
\* started (FOR SHARE in active_environment_snapshot).
FirstPlanEntitled ==
  [][\A c \in Cluster :
       clusters[c].status \in Requested /\ clusters'[c].status = "PLAN_RUNNING"
         => Entitled(clusters[c].pin)]_vars

\* A request that has not been planned when its baseline is superseded is
\* frozen: it is never planned, and neither rejected nor submitted again, since
\* the baseline never returns (approved_version only grows) and every operation
\* that could move it insists on the current one.
SupersededFrozen ==
  [][/\ env'.approved >= env.approved
     /\ \A c \in Cluster :
          clusters[c].status \in Requested /\ clusters[c].pin # env.approved
            => clusters'[c].status = clusters[c].status]_vars

\* "Plan and apply re-check that the customer and environment are still ACTIVE
\* and that the pinned version remains approved" (docs/cluster-management.md):
\* an apply begins only while the profile grants what it pinned.  Violated.
AppliesRecheck ==
  [][\A c \in Cluster :
       clusters[c].status = "PLAN_READY" /\ clusters'[c].status = "APPLYING"
         => Entitled(clusters[c].pin)]_vars

=============================================================================
