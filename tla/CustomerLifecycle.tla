--------------------------- MODULE CustomerLifecycle ---------------------------
(***************************************************************************)
(* What Customer Management promises: every accepted request changes one   *)
(* customer in one indivisible step, on the customer's current row, and    *)
(* leaves its audit entry and review row with it.  CustomerApi, where      *)
(* requests are database transactions that overlap, is shown to implement  *)
(* this specification.                                                     *)
(*                                                                         *)
(* audit stands for the three append-only records of a change: the         *)
(* customer_audit_log row, the event_outbox row (same version and status)  *)
(* and, when the status moves, the customer_status_history row.            *)
(***************************************************************************)
EXTENDS CustomerWorkflow, FiniteSets

VARIABLES rows,     \* [Customer -> Row], customer_management.customers
          audit,    \* set of audit entries, see RecordOf
          reviews   \* set of customer_reviews rows

vars == <<rows, audit, reviews>>

Init ==
  /\ rows = [c \in Customer |-> NoRow]
  /\ audit = {}
  /\ reviews = {}

\* CustomerService.create; c is the fresh identifier uuid4() returns.
Create(c, req) ==
  /\ req.op = "create"
  /\ CheckRole(req)
  /\ req.actor \in CanCreate
  /\ rows[c].status = "NONE"
  /\ NameFree(rows, c, req.name)
  /\ rows' = [rows EXCEPT ![c] = CreatedRow(req)]
  /\ audit' = audit \cup {RecordOf(c, NoRow, CreatedRow(req), req)}
  /\ UNCHANGED reviews

\* CustomerService.update, for PUT of the details and of the provider set.
Update(c, req) ==
  /\ Edits(req.op)
  /\ c = req.customer
  /\ CheckEdit(rows[c], req)
  /\ req.op = "update" => NameFree(rows, c, req.name)
  /\ rows' = [rows EXCEPT ![c] = UpdatedRow(rows[c], req)]
  /\ audit' = audit \cup {RecordOf(c, rows[c], UpdatedRow(rows[c], req), req)}
  /\ UNCHANGED reviews

\* UNIQUE(customer_id, review_cycle, review_status): the insert of a review
\* row fails when the cycle already has one of this status.
ReviewInsertable(review) ==
  \A r \in reviews : <<r.customer, r.cycle, r.status>>
                       # <<review.customer, review.cycle, review.status>>

\* CustomerService.transition.
Transit(c, req) ==
  /\ req.op \in Transition
  /\ c = req.customer
  /\ CheckTransition(rows[c], req)
  /\ Reviews(req.op) => ReviewInsertable(ReviewOf(c, rows[c], req))
  /\ rows' = [rows EXCEPT ![c] = TransitionedRow(rows[c], req)]
  /\ audit' = audit \cup {RecordOf(c, rows[c], TransitionedRow(rows[c], req), req)}
  /\ reviews' = IF Reviews(req.op)
                THEN reviews \cup {ReviewOf(c, rows[c], req)} ELSE reviews

Next == \E c \in Customer, req \in Requests :
          Create(c, req) \/ Update(c, req) \/ Transit(c, req)

Spec == Init /\ [][Next]_vars

-----------------------------------------------------------------------------

AuditOf(c) == {e \in audit : e.customer = c}

\* Types of every variable.
TypeOK ==
  /\ rows \in [Customer -> Row]
  /\ audit \subseteq [customer: Customer, old: Status \cup {"NONE"}, status: Status,
                      version: Nat \ {0}, by: User, op: Operation]
  /\ reviews \subseteq [customer: Customer, cycle: Nat, reviewer: User,
                        status: {"UNDER_REVIEW", "APPROVED", "REJECTED"}]

\* The audit log and the outbox number the changes of a customer 1, 2, ...,
\* version with no gap and no version twice: what lets a consumer order the
\* events of a customer by customerVersion (record() in service.py).
VersionsContiguous ==
  \A c \in Customer :
    /\ {e.version : e \in AuditOf(c)} = 1 .. rows[c].version
    /\ \A e, f \in AuditOf(c) : e.version = f.version => e = f

\* Read by version, the audit entries of a customer form one chain: each one
\* starts in the status the one before it ended in, and the last one ends in
\* the customer's present status (record() in service.py).
AuditChain ==
  \A c \in Customer :
    \A e \in AuditOf(c) :
      /\ e.version = 1 => e.old = "NONE"
      /\ \A f \in AuditOf(c) : f.version = e.version + 1 => f.old = e.status
      /\ e.version = rows[c].version => e.status = rows[c].status

\* A customer that was approved has, for its current review cycle, both a
\* review-start and an approval on record, each by somebody who is neither its
\* creator nor the one whose submission opened the cycle; nothing that happens
\* after the approval rewrites who that was (check_transition, repo.review).
ApprovedIndependently ==
  \A c \in Customer :
    rows[c].status \in {"APPROVED", "ACTIVE", "SUSPENDED", "DEACTIVATED"} =>
      \A s \in {"UNDER_REVIEW", "APPROVED"} :
        \E r \in reviews :
          /\ r.customer = c /\ r.cycle = rows[c].cycle /\ r.status = s
          /\ r.reviewer \notin {rows[c].createdBy, rows[c].submittedBy}

\* Every review ever recorded was made by somebody other than the creator and
\* other than the one whose submission opened that cycle, however many times
\* submitted_by has been overwritten since (check_transition).  The submission
\* that opened cycle k is the k-th one of the audit log.
EveryReviewIndependent ==
  \A r \in reviews :
    \E e \in AuditOf(r.customer) :
      /\ Submits(e.op)
      /\ Cardinality({f \in AuditOf(r.customer) :
                        Submits(f.op) /\ f.version <= e.version}) = r.cycle
      /\ r.reviewer \notin {e.by, rows[r.customer].createdBy}

\* From submission on, a customer keeps a provider and a PRIMARY contact: no
\* edit can undo what submit validated (check_edit, transition).
GovernedComplete ==
  \A c \in Customer :
    rows[c].status \notin {"NONE", "DRAFT", "REJECTED"} =>
      rows[c].providers # {} /\ rows[c].primary

=============================================================================
