------------------------- MODULE EnvironmentLifecycle -------------------------
(***************************************************************************)
(* An environment profile (environment_management/service.py): drafted,    *)
(* reviewed and activated like a customer, but revisable.  Revising keeps  *)
(* the approved baseline in force, under which clusters are requested,     *)
(* while its successor is edited and reviewed in the same row.             *)
(*                                                                         *)
(* Every operation is one step on the current row.  ClusterRequests, where *)
(* it is a transaction that locks the profile and then its customer, is    *)
(* shown to implement this.  versions is environment_versions; the status  *)
(* history, the reviews, the audit log and the outbox are appended to with *)
(* it and say no more.  Reasons, names and types are request validation.   *)
(***************************************************************************)
EXTENDS Naturals

CONSTANTS User, NoUser,
          Engineers,      \* the users with the role CLOUD_ENGINEER
          Architects,     \* the users with the role PLATFORM_ARCHITECT
          Config,         \* configurations a draft can have
          Complete,       \* the ones that pass validate(submitting=True)
          MaxVersion      \* bound on the changes of the profile

ASSUME EnvironmentAssumption ==
  /\ NoUser \notin User
  /\ Engineers \subseteq User /\ Architects \subseteq User
  /\ Complete \subseteq Config /\ Config # {}
  /\ MaxVersion \in Nat

VARIABLES parent,     \* the status of the customer
          env,        \* the row of environments
          versions    \* the rows of environment_versions, each the row it snapshots

envVars == <<parent, env, versions>>

Status == {"DRAFT", "SUBMITTED", "UNDER_REVIEW", "APPROVED", "REJECTED",
           "ACTIVE", "SUSPENDED", "DEACTIVATED"}
Standing == {"NONE", "ACTIVE", "SUSPENDED", "DEACTIVATED"}

\* approved, pending and standing are approved_version, pending_approved_version
\* and approved_status; NULL is 0, 0 and "NONE".
Row == [status: Status \cup {"NONE"}, version: Nat, config: Config,
        approved: Nat, pending: Nat, standing: Standing,
        author: User \cup {NoUser}, submitter: User \cup {NoUser}, editor: User \cup {NoUser}]

NoRow == [status |-> "NONE", version |-> 0, config |-> CHOOSE c \in Config : TRUE,
          approved |-> 0, pending |-> 0, standing |-> "NONE",
          author |-> NoUser, submitter |-> NoUser, editor |-> NoUser]

Operation == {"revise", "submit", "resubmit", "review", "approve", "reject",
              "activate", "suspend", "reactivate", "deactivate"}

-----------------------------------------------------------------------------
(* The TRANSITIONS table and the guards of Service.change. *)

\* Mutant: a suspended profile can be revised.
Sources_ReviseSuspended(op) ==
  CASE op = "revise"   -> {"ACTIVE", "SUSPENDED"}
    [] op = "submit"   -> {"DRAFT", "REJECTED"}
    [] op = "resubmit" -> {"REJECTED"}
    [] op = "review"   -> {"SUBMITTED"}
    [] op \in {"approve", "reject"}     -> {"SUBMITTED", "UNDER_REVIEW"}
    [] op = "activate" -> {"APPROVED"}
    [] op \in {"suspend", "deactivate"} -> {"ACTIVE"}
    [] op = "reactivate" -> {"SUSPENDED"}

Sources(op) ==
  CASE op = "revise"   -> {"ACTIVE"}
    [] op = "submit"   -> {"DRAFT", "REJECTED"}
    [] op = "resubmit" -> {"REJECTED"}
    [] op = "review"   -> {"SUBMITTED"}
    [] op \in {"approve", "reject"}     -> {"SUBMITTED", "UNDER_REVIEW"}
    [] op = "activate" -> {"APPROVED"}
    [] op \in {"suspend", "deactivate"} -> {"ACTIVE"}
    [] op = "reactivate" -> {"SUSPENDED"}

Target(op) ==
  CASE op = "revise"  -> "DRAFT"
    [] op \in {"submit", "resubmit"} -> "SUBMITTED"
    [] op = "review"  -> "UNDER_REVIEW"
    [] op = "approve" -> "APPROVED"
    [] op = "reject"  -> "REJECTED"
    [] op \in {"activate", "reactivate"} -> "ACTIVE"
    [] op = "suspend" -> "SUSPENDED"
    [] op = "deactivate" -> "DEACTIVATED"

Submits(op) == op \in {"submit", "resubmit"}
Allowed(op) == IF op = "revise" \/ Submits(op) THEN Engineers ELSE Architects

\* The operations that validate the configuration as a complete one.
Validates(op) == Submits(op) \/ op \in {"approve", "activate", "reactivate"}

\* validate_parent.
AsksParent(op) == op \in {"create", "update"} \/ Validates(op)
ParentAllows(op, status) ==
  IF op = "update" THEN status # "DEACTIVATED" ELSE AsksParent(op) => status = "ACTIVE"

Independent(row, op, user) ==
  op \in {"review", "approve", "reject"} => user \notin {row.author, row.submitter}

Permits(row, op, user) ==
  /\ user \in Allowed(op)
  /\ row.status \in Sources(op)
  /\ Independent(row, op, user)
  /\ Validates(op) => row.config \in Complete
  /\ op = "activate" => row.pending # 0

Editable(row, user) == user \in Engineers /\ row.status \in {"DRAFT", "REJECTED"}

-----------------------------------------------------------------------------
(* What the operations write. *)

Created(user, config) ==
  [NoRow EXCEPT !.status = "DRAFT", !.version = 1, !.config = config,
                !.author = user, !.editor = user]

Updated(row, user, config) ==
  [row EXCEPT !.config = config, !.version = row.version + 1, !.editor = user]

\* Mutant: the approved snapshot is taken to be the version under review.
Decided_OffByOne(row, op) ==
  CASE op = "approve"  -> [row EXCEPT !.pending = row.version]
    [] op = "activate" -> [row EXCEPT !.approved = row.pending, !.pending = 0,
                                      !.standing = "ACTIVE"]
    [] op \in {"suspend", "reactivate", "deactivate"} -> [row EXCEPT !.standing = Target(op)]
    [] OTHER -> row

\* The baseline: approval names the snapshot it is about to write, activation
\* puts it in force.
Decided(row, op) ==
  CASE op = "approve"  -> [row EXCEPT !.pending = row.version + 1]
    [] op = "activate" -> [row EXCEPT !.approved = row.pending, !.pending = 0,
                                      !.standing = "ACTIVE"]
    [] op \in {"suspend", "reactivate", "deactivate"} -> [row EXCEPT !.standing = Target(op)]
    [] OTHER -> row

Transitioned(row, op, user) ==
  [Decided(row, op) EXCEPT !.status = Target(op), !.version = row.version + 1,
                           !.editor = user,
                           !.submitter = IF Submits(op) THEN user ELSE row.submitter]

\* Repository.save and record; environment_versions has the key (environment, version).
Save(row) ==
  /\ row.version <= MaxVersion
  /\ \A v \in versions : v.version # row.version
  /\ env' = row
  /\ versions' = versions \cup {row}

-----------------------------------------------------------------------------

\* Profiles are created for active customers.
EnvironmentInit ==
  /\ parent = "ACTIVE"
  /\ env = NoRow
  /\ versions = {}

Create(user, config) ==
  /\ env.status = "NONE"
  /\ user \in Engineers
  /\ ParentAllows("create", parent)
  /\ Save(Created(user, config))
  /\ UNCHANGED parent

Update(user, config) ==
  /\ Editable(env, user)
  /\ ParentAllows("update", parent)
  /\ Save(Updated(env, user, config))
  /\ UNCHANGED parent

Transit(op, user) ==
  /\ Permits(env, op, user)
  /\ ParentAllows(op, parent)
  /\ Save(Transitioned(env, op, user))
  /\ UNCHANGED parent

\* Customer Management's transitions of an active customer.
ParentMoves ==
  /\ \/ parent = "ACTIVE" /\ parent' \in {"SUSPENDED", "DEACTIVATED"}
     \/ parent = "SUSPENDED" /\ parent' = "ACTIVE"
  /\ UNCHANGED <<env, versions>>

EnvironmentNext ==
  \/ ParentMoves
  \/ \E user \in User :
       \/ \E config \in Config : Create(user, config) \/ Update(user, config)
       \/ \E op \in Operation : Transit(op, user)

EnvironmentSpec == EnvironmentInit /\ [][EnvironmentNext]_envVars

-----------------------------------------------------------------------------

EnvironmentTypeOK ==
  /\ parent \in {"ACTIVE", "SUSPENDED", "DEACTIVATED"}
  /\ env \in Row
  /\ versions \subseteq Row

\* Snapshot n is an approved one, of a complete configuration, decided by
\* somebody who neither created the profile nor submitted it, and exactly what
\* was submitted: between the submission and the approval the profile was
\* reviewed and nothing else.
Reviewed(snapshots, n) ==
  \E v, s \in snapshots :
    /\ v.version = n /\ v.status = "APPROVED" /\ v.config \in Complete
    /\ v.editor \notin {v.author, v.submitter}
    /\ s.version < n /\ s.status = "SUBMITTED"
    /\ s.config = v.config /\ s.editor = v.submitter
    /\ \A w \in snapshots : s.version < w.version /\ w.version < n => w.status = "UNDER_REVIEW"

\* The baseline clusters are given has been reviewed, through any number of
\* revisions, rejections and edits in between (approve and activate, which run
\* in different transactions and pass the version on in pending_approved_version).
BaselineReviewed == env.approved # 0 => Reviewed(versions, env.approved)

\* A profile shown as active, suspended or deactivated shows its baseline: the
\* configuration in the row is that of the approved snapshot.
ProfileIsBaseline ==
  env.status \in {"ACTIVE", "SUSPENDED", "DEACTIVATED"} =>
    \E v \in versions : v.version = env.approved /\ v.config = env.config

\* The baseline is sound: what is in force was reviewed, and what a profile shows
\* is what is in force (the approval, the activation and the edits around them).
BaselineSound == BaselineReviewed /\ ProfileIsBaseline

\* A withdrawn profile stays withdrawn until it is reactivated: no revision
\* that is begun before or after brings its baseline back (approved_status,
\* which cluster requests look at, against status, which the workflow does).
WithdrawnStaysWithdrawn ==
  env.standing \in {"SUSPENDED", "DEACTIVATED"} => env.status = env.standing

=============================================================================
