--------------------------- MODULE CustomerWorkflow ---------------------------
(***************************************************************************)
(* The governance rules of Customer Management, as pure operators: the     *)
(* TRANSITIONS table of workflow.py, the guards check_transition,          *)
(* check_edit and check_version, and what CustomerService.create, update   *)
(* and transition write for a row that passes them.                        *)
(*                                                                         *)
(* A request is the validated HTTP call: who calls, which operation, on    *)
(* which customer, with which If-Match version and which body.  Free text  *)
(* is abstracted: of a body only the name, the provider set, whether a     *)
(* PRIMARY contact is given and whether a reason is given matter here.     *)
(***************************************************************************)
EXTENDS Naturals

CONSTANTS User,          \* the token subjects
          Roles,         \* [User -> SUBSET Role], the roles claim of each subject
          CanCreate,     \* subjects holding the customer_create entitlement
          Customer,      \* the identifiers uuid4() may still hand out, or has
          Name,          \* customer names, compared by customers_live_name_uq
          Provider,      \* the active rows of customer_management.cloud_providers
          NoUser,        \* a NULL user column
          Requests       \* the calls clients make, see RequestType

Role == {"CLOUD_ENGINEER", "PLATFORM_ARCHITECT"}

ASSUME RolesAssumption ==
  /\ Roles \in [User -> SUBSET Role]
  /\ CanCreate \subseteq User
  /\ NoUser \notin User
  /\ Name # {}

\* STATUSES, and "NONE" for an identifier that has no row yet.
Status == {"DRAFT", "SUBMITTED", "UNDER_REVIEW", "APPROVED", "REJECTED",
           "ACTIVE", "SUSPENDED", "DEACTIVATED"}

Transition == {"submit", "resubmit", "review/start", "approve", "reject",
               "activate", "suspend", "reactivate", "deactivate"}
Operation  == Transition \cup {"create", "update", "cloud-providers"}

Row == [status: Status \cup {"NONE"}, version: Nat, cycle: Nat,
        createdBy: User \cup {NoUser}, submittedBy: User \cup {NoUser},
        name: Name, providers: SUBSET Provider, primary: BOOLEAN]

\* "key" is the Idempotency-Key header (a string, "" when absent); "customer"
\* is ignored by create.
RequestType ==
  [op: Operation, actor: User, customer: Customer, expected: Nat, key: STRING,
   name: Name, providers: SUBSET Provider, primary: BOOLEAN, reason: BOOLEAN]

ASSUME RequestsAssumption == Requests \subseteq RequestType

NoRow == [status |-> "NONE", version |-> 0, cycle |-> 0, createdBy |-> NoUser,
          submittedBy |-> NoUser, name |-> CHOOSE n \in Name : TRUE,
          providers |-> {}, primary |-> FALSE]

-----------------------------------------------------------------------------
(* The TRANSITIONS table. *)

Sources(op) ==
  CASE op = "submit"       -> {"DRAFT", "REJECTED"}
    [] op = "resubmit"     -> {"REJECTED"}
    [] op = "review/start" -> {"SUBMITTED"}
    [] op \in {"approve", "reject"}       -> {"UNDER_REVIEW"}
    [] op = "activate"     -> {"APPROVED"}
    [] op \in {"suspend", "deactivate"}   -> {"ACTIVE"}
    [] op = "reactivate"   -> {"SUSPENDED"}

Target(op) ==
  CASE op \in {"submit", "resubmit"}      -> "SUBMITTED"
    [] op = "review/start" -> "UNDER_REVIEW"
    [] op = "approve"      -> "APPROVED"
    [] op = "reject"       -> "REJECTED"
    [] op \in {"activate", "reactivate"}  -> "ACTIVE"
    [] op = "suspend"      -> "SUSPENDED"
    [] op = "deactivate"   -> "DEACTIVATED"

RoleOf(op) == IF op \in Transition \ {"submit", "resubmit"}
              THEN "PLATFORM_ARCHITECT" ELSE "CLOUD_ENGINEER"

Submits(op)  == op \in {"submit", "resubmit"}
Reviews(op)  == op \in {"review/start", "approve", "reject"}
Edits(op)    == op \in {"update", "cloud-providers"}

-----------------------------------------------------------------------------
(* The guards.  Each is evaluated on the row the transaction has locked.   *)

CheckRole(req) == RoleOf(req.op) \in Roles[req.actor]

\* Mutant: If-Match is not compared.
CheckVersion_Ignored(row, req) == TRUE

CheckVersion(row, req) == row.version = req.expected

\* Mutant: only the creator is barred.
CheckIndependence_CreatorOnly(row, req) ==
  Reviews(req.op) => req.actor # row.createdBy

\* Neither the creator nor the current submitter may review, approve or reject.
CheckIndependence(row, req) ==
  Reviews(req.op) => req.actor \notin {row.createdBy, row.submittedBy}

CheckReason(req) == req.op \in {"reject", "suspend", "deactivate"} => req.reason

\* What submit, resubmit and activate require of the onboarding information.
CheckComplete(row, req) ==
  Submits(req.op) \/ req.op = "activate" => row.providers # {} /\ row.primary

CheckTransition(row, req) ==
  /\ CheckRole(req)
  /\ row.status \in Sources(req.op)
  /\ CheckIndependence(row, req)
  /\ CheckReason(req)
  /\ CheckVersion(row, req)
  /\ CheckComplete(row, req)

\* Mutant: a submitted customer can still be edited.
CheckEdit_WhileSubmitted(row, req) ==
  /\ CheckRole(req)
  /\ row.status \in {"DRAFT", "REJECTED", "SUBMITTED"}
  /\ CheckVersion(row, req)

CheckEdit(row, req) ==
  /\ CheckRole(req)
  /\ row.status \in {"DRAFT", "REJECTED"}
  /\ CheckVersion(row, req)

Check(row, req) ==
  IF Edits(req.op) THEN CheckEdit(row, req) ELSE CheckTransition(row, req)

-----------------------------------------------------------------------------
(* The writes. *)

CreatedRow(req) ==
  [status |-> "DRAFT", version |-> 1, cycle |-> 0, createdBy |-> req.actor,
   submittedBy |-> NoUser, name |-> req.name, providers |-> req.providers,
   primary |-> req.primary]

UpdatedRow(row, req) ==
  IF req.op = "cloud-providers"
  THEN [row EXCEPT !.version = @ + 1, !.providers = req.providers]
  ELSE [row EXCEPT !.version = @ + 1, !.name = req.name, !.primary = req.primary]

\* Mutant: resubmitting does not replace the submitter.
TransitionedRow_OldSubmitter(row, req) ==
  [row EXCEPT !.version = @ + 1,
              !.status = Target(req.op),
              !.submittedBy = IF req.op = "submit" THEN req.actor ELSE @,
              !.cycle = IF Submits(req.op) THEN @ + 1 ELSE @]

TransitionedRow(row, req) ==
  [row EXCEPT !.version = @ + 1,
              !.status = Target(req.op),
              !.submittedBy = IF Submits(req.op) THEN req.actor ELSE @,
              !.cycle = IF Submits(req.op) THEN @ + 1 ELSE @]

WrittenRow(row, req) ==
  IF Edits(req.op) THEN UpdatedRow(row, req) ELSE TransitionedRow(row, req)

\* The review row of review/start, approve and reject.
ReviewOf(c, row, req) ==
  [customer |-> c, cycle |-> row.cycle, reviewer |-> req.actor,
   status |-> Target(req.op)]

\* Mutant: the old values are read after the row was updated.
RecordOf_OldIsNew(c, old, new, req) ==
  [customer |-> c, old |-> new.status, status |-> new.status,
   version |-> new.version, by |-> req.actor, op |-> req.op]

\* The audit entry; the outbox event of the same change carries the same
\* customer, version, status and actor.
RecordOf(c, old, new, req) ==
  [customer |-> c, old |-> old.status, status |-> new.status,
   version |-> new.version, by |-> req.actor, op |-> req.op]

\* customers_live_name_uq: one live row per name.
NameFree(rows, c, name) ==
  \A d \in Customer \ {c} :
    rows[d].name = name => rows[d].status \in {"NONE", "DEACTIVATED"}

=============================================================================
