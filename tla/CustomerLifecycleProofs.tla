------------------------ MODULE CustomerLifecycleProofs ------------------------
(***************************************************************************)
(* Proofs about CustomerLifecycle, for every set of users, customers,      *)
(* names, providers and requests.                                          *)
(***************************************************************************)
EXTENDS CustomerLifecycle, FiniteSetTheorems, TLAPS

USE RolesAssumption, RequestsAssumption

-----------------------------------------------------------------------------
(* The rows that CustomerWorkflow makes. *)

\* The row an identifier has before it is handed out is a well-typed row.
LEMMA NoRowType == NoRow \in Row
BY DEF NoRow, Row, Status

\* The rows the operations write are well typed.
LEMMA WrittenTypes ==
  ASSUME NEW row \in Row, NEW req \in Requests
  PROVE  /\ CreatedRow(req) \in Row
         /\ UpdatedRow(row, req) \in Row
         /\ req.op \in Transition => TransitionedRow(row, req) \in Row
<1>1. /\ req \in RequestType
      /\ req.actor \in User /\ req.name \in Name /\ req.providers \in SUBSET Provider
      /\ req.primary \in BOOLEAN
  BY DEF RequestType
<1>2. /\ row.status \in Status \cup {"NONE"} /\ row.version + 1 \in Nat
      /\ row.cycle \in Nat /\ row.cycle + 1 \in Nat
  BY DEF Row
<1>3. CreatedRow(req) \in Row
  BY <1>1 DEF CreatedRow, Row, Status
<1>4. UpdatedRow(row, req) \in Row
  <2>1. CASE req.op = "cloud-providers"
    BY <1>1, <1>2, <2>1 DEF UpdatedRow, Row
  <2>2. CASE req.op # "cloud-providers"
    BY <1>1, <1>2, <2>2 DEF UpdatedRow, Row
  <2>. QED
    BY <2>1, <2>2
<1>5. ASSUME req.op \in Transition PROVE TransitionedRow(row, req) \in Row
  <2>1. Target(req.op) \in Status
    BY <1>5 DEF Target, Status, Transition
  <2>2. CASE Submits(req.op)
    BY <1>1, <1>2, <2>1, <2>2 DEF TransitionedRow, Row
  <2>3. CASE ~Submits(req.op)
    BY <1>1, <1>2, <2>1, <2>3 DEF TransitionedRow, Row
  <2>. QED
    BY <2>2, <2>3
<1>. QED
  BY <1>3, <1>4, <1>5

\* A change that passes its checks leaves the row typed, live and at the next
\* version.
LEMMA CheckedWrite ==
  ASSUME NEW row \in Row, NEW req \in Requests, req.op # "create", Check(row, req)
  PROVE  /\ WrittenRow(row, req) \in Row
         /\ WrittenRow(row, req).status # "NONE"
<1>1. req \in RequestType
  OBVIOUS
<1>2. CASE Edits(req.op)
  <2>1. UpdatedRow(row, req) \in Row
    BY WrittenTypes
  <2>2. UpdatedRow(row, req).status = row.status
    BY DEF UpdatedRow, Row
  <2>3. row.status \in {"DRAFT", "REJECTED"}
    BY <1>2 DEF Check, CheckEdit
  <2>. QED
    BY <1>2, <2>1, <2>2, <2>3 DEF WrittenRow
<1>3. CASE ~Edits(req.op)
  <2>1. req.op \in Transition
    BY <1>1, <1>3 DEF RequestType, Operation, Edits
  <2>2. TransitionedRow(row, req) \in Row
    BY <2>1, WrittenTypes
  <2>3. TransitionedRow(row, req).status = Target(req.op)
    BY DEF TransitionedRow, Row
  <2>4. Target(req.op) # "NONE"
    BY <2>1 DEF Target, Transition
  <2>. QED
    BY <1>3, <2>2, <2>3, <2>4 DEF WrittenRow
<1>. QED
  BY <1>2, <1>3

-----------------------------------------------------------------------------
(* What the steps have in common. *)

\* A change of customer c by req: one row, one audit entry, the next version.
Changes(c, req, new) ==
  /\ rows' = [rows EXCEPT ![c] = new]
  /\ audit' = audit \cup {RecordOf(c, rows[c], new, req)}
  /\ new \in Row
  /\ new.version = rows[c].version + 1
  /\ new.status # "NONE"

\* Exactly the identifiers without a row are at version 0.
FreshUnversioned ==
  \A c \in Customer : rows[c].status = "NONE" \/ rows[c].version = 0 => rows[c] = NoRow

\* Every step of the specification is such a change.
LEMMA StepChanges ==
  ASSUME TypeOK, FreshUnversioned, NEW c \in Customer, NEW req \in Requests,
         Create(c, req) \/ Update(c, req) \/ Transit(c, req)
  PROVE  \E new \in Row : Changes(c, req, new)
<1>1. rows[c] \in Row
  BY DEF TypeOK
<1>2. req \in RequestType
  OBVIOUS
<1>3. CASE Create(c, req)
  <2>1. rows[c] = NoRow
    BY <1>3 DEF Create, FreshUnversioned
  <2>2. /\ CreatedRow(req).version = 1 /\ CreatedRow(req).status = "DRAFT"
        /\ NoRow.version = 0
    BY DEF CreatedRow, NoRow
  <2>3. CreatedRow(req) \in Row
    BY <1>1, WrittenTypes
  <2>4. Changes(c, req, CreatedRow(req))
    BY <1>3, <2>1, <2>2, <2>3 DEF Create, Changes
  <2>. QED
    BY <2>3, <2>4
<1>4. CASE Update(c, req)
  <2>1. rows[c].status \in {"DRAFT", "REJECTED"}
    BY <1>4 DEF Update, CheckEdit
  <2>2. /\ UpdatedRow(rows[c], req).version = rows[c].version + 1
        /\ UpdatedRow(rows[c], req).status = rows[c].status
    BY <1>1 DEF UpdatedRow, Row
  <2>3. UpdatedRow(rows[c], req) \in Row
    BY <1>1, WrittenTypes
  <2>4. Changes(c, req, UpdatedRow(rows[c], req))
    BY <1>4, <2>1, <2>2, <2>3 DEF Update, Changes
  <2>. QED
    BY <2>3, <2>4
<1>5. CASE Transit(c, req)
  <2>1. req.op \in Transition
    BY <1>5 DEF Transit
  <2>2. /\ TransitionedRow(rows[c], req).version = rows[c].version + 1
        /\ TransitionedRow(rows[c], req).status = Target(req.op)
    BY <1>1 DEF TransitionedRow, Row
  <2>3. Target(req.op) # "NONE"
    BY <2>1 DEF Target, Transition
  <2>4. TransitionedRow(rows[c], req) \in Row
    BY <1>1, <2>1, WrittenTypes
  <2>5. Changes(c, req, TransitionedRow(rows[c], req))
    BY <1>5, <2>2, <2>3, <2>4 DEF Transit, Changes
  <2>. QED
    BY <2>4, <2>5
<1>. QED
  BY <1>3, <1>4, <1>5

-----------------------------------------------------------------------------
(* Type correctness. *)

\* The audit entry of a change and the review row of a decision are well typed.
LEMMA RecordTypes ==
  ASSUME TypeOK, NEW c \in Customer, NEW req \in Requests, NEW new \in Row,
         Changes(c, req, new)
  PROVE  /\ rows' \in [Customer -> Row]
         /\ audit' \subseteq [customer: Customer, old: Status \cup {"NONE"}, status: Status,
                              version: Nat \ {0}, by: User, op: Operation]
<1>1. req \in RequestType /\ rows[c] \in Row
  BY DEF TypeOK
<1>2. new.status \in Status /\ new.version \in Nat \ {0} /\ rows[c].status \in Status \cup {"NONE"}
  BY <1>1 DEF Changes, Row
<1>3. RecordOf(c, rows[c], new, req)
        \in [customer: Customer, old: Status \cup {"NONE"}, status: Status,
             version: Nat \ {0}, by: User, op: Operation]
  BY <1>1, <1>2 DEF RecordOf, RequestType
<1>. QED
  BY <1>3 DEF TypeOK, Changes

\* TypeOK with FreshUnversioned is inductive.
LEMMA TypeStep == TypeOK /\ FreshUnversioned /\ [Next]_vars => (TypeOK /\ FreshUnversioned)'
<1>. SUFFICES ASSUME TypeOK, FreshUnversioned, [Next]_vars
              PROVE  (TypeOK /\ FreshUnversioned)'
  OBVIOUS
<1>1. CASE UNCHANGED vars
  BY <1>1 DEF vars, TypeOK, FreshUnversioned
<1>2. CASE Next
  <2>1. PICK c \in Customer, req \in Requests :
               Create(c, req) \/ Update(c, req) \/ Transit(c, req)
    BY <1>2 DEF Next
  <2>2. PICK new \in Row : Changes(c, req, new)
    BY <2>1, StepChanges
  <2>3. FreshUnversioned'
    <3>1. rows[c].version \in Nat
      BY DEF TypeOK, Row
    <3>. QED
      BY <2>2, <3>1 DEF FreshUnversioned, Changes, TypeOK
  <2>4. reviews' \subseteq [customer: Customer, cycle: Nat, reviewer: User,
                            status: {"UNDER_REVIEW", "APPROVED", "REJECTED"}]
    <3>1. CASE Reviews(req.op) /\ Transit(c, req)
      <4>1. req \in RequestType /\ rows[c] \in Row
        BY DEF TypeOK
      <4>2. ReviewOf(c, rows[c], req) \in [customer: Customer, cycle: Nat, reviewer: User,
                            status: {"UNDER_REVIEW", "APPROVED", "REJECTED"}]
        BY <3>1, <4>1 DEF ReviewOf, RequestType, Row, Reviews, Target
      <4>. QED
        BY <3>1, <4>2 DEF Transit, TypeOK
    <3>2. CASE ~(Reviews(req.op) /\ Transit(c, req))
      BY <2>1, <3>2 DEF Create, Update, Transit, TypeOK
    <3>. QED
      BY <3>1, <3>2
  <2>. QED
    BY <2>2, <2>3, <2>4, RecordTypes DEF TypeOK
<1>. QED
  BY <1>1, <1>2

\* The tables of Customer Management stay well typed.
THEOREM TypeCorrect == Spec => []TypeOK
<1>1. Init => TypeOK /\ FreshUnversioned
  BY NoRowType DEF Init, TypeOK, FreshUnversioned
<1>. QED
  BY <1>1, TypeStep, PTL DEF Spec

-----------------------------------------------------------------------------
(* The invariants proved below are inductive relative to this one.         *)

Typed == TypeOK /\ FreshUnversioned

LEMMA TypedAlways == Spec => []Typed
<1>1. Init => Typed
  BY NoRowType DEF Init, TypeOK, FreshUnversioned, Typed
<1>. QED
  BY <1>1, TypeStep, PTL DEF Spec, Typed

-----------------------------------------------------------------------------
(* The audit log. *)

LEMMA VersionsStep ==
  Typed /\ VersionsContiguous /\ [Next]_vars => VersionsContiguous'
<1>. SUFFICES ASSUME TypeOK, FreshUnversioned, VersionsContiguous, [Next]_vars
              PROVE  VersionsContiguous'
  BY DEF Typed
<1>1. CASE UNCHANGED vars
  BY <1>1 DEF vars, VersionsContiguous, AuditOf
<1>2. CASE Next
  <2>1. PICK c \in Customer, req \in Requests :
               Create(c, req) \/ Update(c, req) \/ Transit(c, req)
    BY <1>2 DEF Next
  <2>2. PICK new \in Row : Changes(c, req, new)
    BY <2>1, StepChanges
  <2>. DEFINE e == RecordOf(c, rows[c], new, req)
  <2>3. /\ e.customer = c /\ e.version = rows[c].version + 1
        /\ rows[c].version \in Nat
    BY <2>2 DEF Changes, RecordOf, TypeOK, Row
  <2>4. ASSUME NEW d \in Customer
        PROVE  /\ {f.version : f \in AuditOf(d)'} = 1 .. rows'[d].version
               /\ \A f, g \in AuditOf(d)' : f.version = g.version => f = g
    <3>1. CASE d # c
      <4>1. AuditOf(d)' = AuditOf(d) /\ rows'[d] = rows[d]
        BY <2>2, <2>3, <3>1 DEF Changes, AuditOf, TypeOK
      <4>. QED
        BY <4>1 DEF VersionsContiguous
    <3>2. CASE d = c
      <4>1. AuditOf(c)' = AuditOf(c) \cup {e} /\ rows'[c].version = rows[c].version + 1
        BY <2>2, <2>3 DEF Changes, AuditOf, TypeOK
      <4>2. \A f \in AuditOf(c) : f.version \in 1 .. rows[c].version
        BY DEF VersionsContiguous
      <4>3. {f.version : f \in AuditOf(c)'}
              = {f.version : f \in AuditOf(c)} \cup {rows[c].version + 1}
        BY <2>3, <4>1
      <4>4. {f.version : f \in AuditOf(c)} = 1 .. rows[c].version
        BY DEF VersionsContiguous
      <4>5. 1 .. (rows[c].version + 1) = (1 .. rows[c].version) \cup {rows[c].version + 1}
        BY <2>3
      <4>6. \A f, g \in AuditOf(c)' : f.version = g.version => f = g
        BY <2>3, <4>1, <4>2 DEF VersionsContiguous
      <4>. QED
        BY <3>2, <4>1, <4>3, <4>4, <4>5, <4>6
    <3>. QED
      BY <3>1, <3>2
  <2>. QED
    BY <2>4 DEF VersionsContiguous
<1>. QED
  BY <1>1, <1>2

\* Audit entries and outbox events of a customer are numbered 1, 2, ...,
\* version, each number once.
THEOREM AuditNumbered == Spec => []VersionsContiguous
<1>1. Init => VersionsContiguous
  BY DEF Init, VersionsContiguous, AuditOf, NoRow
<1>. QED
  BY <1>1, TypedAlways, VersionsStep, PTL DEF Spec

LEMMA ChainStep ==
  Typed /\ VersionsContiguous /\ AuditChain /\ [Next]_vars => AuditChain'
<1>. SUFFICES ASSUME TypeOK, FreshUnversioned, VersionsContiguous, AuditChain, [Next]_vars
              PROVE  AuditChain'
  BY DEF Typed
<1>1. CASE UNCHANGED vars
  BY <1>1 DEF vars, AuditChain, AuditOf
<1>2. CASE Next
  <2>1. PICK c \in Customer, req \in Requests :
               Create(c, req) \/ Update(c, req) \/ Transit(c, req)
    BY <1>2 DEF Next
  <2>2. PICK new \in Row : Changes(c, req, new)
    BY <2>1, StepChanges
  <2>. DEFINE e == RecordOf(c, rows[c], new, req)
  <2>3. /\ e.customer = c /\ e.version = rows[c].version + 1
        /\ e.old = rows[c].status /\ e.status = new.status
        /\ rows[c].version \in Nat /\ rows[c] \in Row
    BY <2>2 DEF Changes, RecordOf, TypeOK, Row
  <2>4. ASSUME NEW d \in Customer, NEW f \in AuditOf(d)'
        PROVE  /\ f.version = 1 => f.old = "NONE"
               /\ \A g \in AuditOf(d)' : g.version = f.version + 1 => g.old = f.status
               /\ f.version = rows'[d].version => f.status = rows'[d].status
    <3>1. CASE d # c
      <4>1. AuditOf(d)' = AuditOf(d) /\ rows'[d] = rows[d]
        BY <2>2, <2>3, <3>1 DEF Changes, AuditOf, TypeOK
      <4>. QED
        BY <4>1 DEF AuditChain
    <3>2. CASE d = c
      <4>1. AuditOf(c)' = AuditOf(c) \cup {e} /\ rows'[c] = new
        BY <2>2, <2>3 DEF Changes, AuditOf, TypeOK
      <4>2. \A g \in AuditOf(c) : g.version \in 1 .. rows[c].version
        BY DEF VersionsContiguous
      <4>3. rows[c].version = 0 => rows[c].status = "NONE"
        <5>1. NoRow.status = "NONE"
          BY DEF NoRow
        <5>. QED
          BY <5>1 DEF FreshUnversioned
      <4>. QED
        BY <2>2, <2>3, <3>2, <4>1, <4>2, <4>3 DEF AuditChain, Changes
    <3>. QED
      BY <3>1, <3>2
  <2>. QED
    BY <2>4 DEF AuditChain
<1>. QED
  BY <1>1, <1>2

\* The audit entries of a customer chain into its status history and end in
\* its present status.
THEOREM AuditChained == Spec => []AuditChain
<1>1. Init => VersionsContiguous /\ AuditChain
  BY DEF Init, VersionsContiguous, AuditChain, AuditOf, NoRow
<1>. QED
  BY <1>1, TypedAlways, VersionsStep, ChainStep, PTL DEF Spec

-----------------------------------------------------------------------------
(* Governance. *)

LEMMA CompleteStep == Typed /\ GovernedComplete /\ [Next]_vars => GovernedComplete'
<1>. SUFFICES ASSUME TypeOK, GovernedComplete, [Next]_vars
              PROVE  GovernedComplete'
  BY DEF Typed
<1>1. CASE UNCHANGED vars
  BY <1>1 DEF vars, GovernedComplete
<1>2. CASE Next
  <2>1. PICK c \in Customer, req \in Requests :
               Create(c, req) \/ Update(c, req) \/ Transit(c, req)
    BY <1>2 DEF Next
  <2>2. rows \in [Customer -> Row]
    BY DEF TypeOK
  <2>3. CASE Create(c, req)
    BY <2>2, <2>3 DEF Create, CreatedRow, GovernedComplete
  <2>4. CASE Update(c, req)
    <3>1. UpdatedRow(rows[c], req).status = rows[c].status
      BY <2>2 DEF UpdatedRow, Row
    <3>2. rows'[c].status \in {"DRAFT", "REJECTED"}
      BY <2>2, <2>4, <3>1 DEF Update, CheckEdit
    <3>. QED
      BY <2>2, <2>4, <3>2 DEF Update, GovernedComplete
  <2>5. CASE Transit(c, req)
    <3>1. /\ TransitionedRow(rows[c], req).providers = rows[c].providers
          /\ TransitionedRow(rows[c], req).primary = rows[c].primary
          /\ TransitionedRow(rows[c], req).status = Target(req.op)
      BY <2>2 DEF TransitionedRow, Row
    <3>2. CASE Submits(req.op)
      BY <2>2, <2>5, <3>1, <3>2
      DEF Transit, CheckTransition, CheckComplete, GovernedComplete
    <3>3. CASE ~Submits(req.op)
      <4>1. rows[c].status \notin {"NONE", "DRAFT", "REJECTED"}
        BY <2>5, <3>3 DEF Transit, CheckTransition, Sources, Transition, Submits
      <4>. QED
        BY <2>2, <2>5, <3>1, <4>1 DEF Transit, GovernedComplete
    <3>. QED
      BY <3>2, <3>3
  <2>. QED
    BY <2>1, <2>3, <2>4, <2>5
<1>. QED
  BY <1>1, <1>2

\* What submit validated cannot be edited away later.
THEOREM GovernedStayComplete == Spec => []GovernedComplete
<1>1. Init => GovernedComplete
  BY DEF Init, GovernedComplete, NoRow
<1>. QED
  BY <1>1, TypedAlways, CompleteStep, PTL DEF Spec

\* The review of customer c, in its current cycle, with this outcome, made by
\* neither its creator nor its submitter.
Independently(c, s) ==
  \E r \in reviews :
    /\ r.customer = c /\ r.cycle = rows[c].cycle /\ r.status = s
    /\ r.reviewer \notin {rows[c].createdBy, rows[c].submittedBy}

\* ApprovedIndependently needs to know what is on record while the review is
\* still open.
ReviewProgress ==
  \A c \in Customer :
    rows[c].status = "UNDER_REVIEW" => Independently(c, "UNDER_REVIEW")

LEMMA ApprovalStep ==
  Typed /\ ReviewProgress /\ ApprovedIndependently /\ [Next]_vars
  => (ReviewProgress /\ ApprovedIndependently)'
<1>. SUFFICES ASSUME TypeOK, ReviewProgress, ApprovedIndependently, [Next]_vars
              PROVE  (ReviewProgress /\ ApprovedIndependently)'
  BY DEF Typed
<1>. DEFINE Done == {"APPROVED", "ACTIVE", "SUSPENDED", "DEACTIVATED"}
            Good(c) == /\ rows[c].status = "UNDER_REVIEW" => Independently(c, "UNDER_REVIEW")
                       /\ rows[c].status \in Done => /\ Independently(c, "UNDER_REVIEW")
                                                     /\ Independently(c, "APPROVED")
<1>1. CASE UNCHANGED vars
  BY <1>1 DEF vars, ReviewProgress, ApprovedIndependently, Independently
<1>2. CASE Next
  <2>1. PICK c \in Customer, req \in Requests :
               Create(c, req) \/ Update(c, req) \/ Transit(c, req)
    BY <1>2 DEF Next
  <2>2. rows \in [Customer -> Row]
    BY DEF TypeOK
  <2>3. \A d \in Customer : Good(d)
    BY DEF ReviewProgress, ApprovedIndependently, Independently
  <2>4. ASSUME NEW d \in Customer PROVE Good(d)'
    <3>1. reviews \subseteq reviews'
      BY <2>1 DEF Create, Update, Transit
    <3>2. CASE d # c
      <4>1. rows'[d] = rows[d]
        BY <2>1, <2>2, <3>2 DEF Create, Update, Transit
      <4>. QED
        BY <2>3, <3>1, <4>1 DEF Independently
    <3>3. CASE d = c /\ Create(c, req)
      BY <2>2, <3>3 DEF Create, CreatedRow
    <3>4. CASE d = c /\ Update(c, req)
      <4>1. UpdatedRow(rows[c], req).status = rows[c].status
        BY <2>2 DEF UpdatedRow, Row
      <4>. QED
        BY <2>2, <3>4, <4>1 DEF Update, CheckEdit
    <3>5. CASE d = c /\ Transit(c, req) /\ Submits(req.op)
      <4>1. TransitionedRow(rows[c], req).status = "SUBMITTED"
        BY <2>2, <3>5 DEF TransitionedRow, Row, Target, Submits
      <4>. QED
        BY <2>2, <3>5, <4>1 DEF Transit
    <3>6. CASE d = c /\ Transit(c, req) /\ ~Submits(req.op)
      <4>1. /\ TransitionedRow(rows[c], req).status = Target(req.op)
            /\ TransitionedRow(rows[c], req).cycle = rows[c].cycle
            /\ TransitionedRow(rows[c], req).createdBy = rows[c].createdBy
            /\ TransitionedRow(rows[c], req).submittedBy = rows[c].submittedBy
        BY <2>2, <3>6 DEF TransitionedRow, Row
      <4>2. /\ rows'[c].status = Target(req.op)
            /\ rows'[c].cycle = rows[c].cycle
            /\ rows'[c].createdBy = rows[c].createdBy
            /\ rows'[c].submittedBy = rows[c].submittedBy
        BY <2>2, <3>6, <4>1 DEF Transit
      <4>3. \A s : Independently(c, s) => Independently(c, s)'
        BY <3>1, <4>2 DEF Independently
      <4>4. ASSUME Reviews(req.op) PROVE Independently(c, Target(req.op))'
        <5>1. ReviewOf(c, rows[c], req) \in reviews'
          BY <3>6, <4>4 DEF Transit
        <5>2. req.actor \notin {rows[c].createdBy, rows[c].submittedBy}
          BY <3>6, <4>4 DEF Transit, CheckTransition, CheckIndependence
        <5>. QED
          BY <4>2, <5>1, <5>2 DEF Independently, ReviewOf
      <4>5. rows[c].status \in Sources(req.op) /\ req.op \in Transition
        BY <3>6 DEF Transit, CheckTransition
      <4>6. CASE req.op = "review/start"
        BY <3>6, <4>2, <4>4, <4>6 DEF Target, Reviews
      <4>7. CASE req.op = "approve"
        <5>1. rows[c].status = "UNDER_REVIEW"
          BY <4>5, <4>7 DEF Sources
        <5>. QED
          BY <2>3, <3>6, <4>2, <4>3, <4>4, <4>7, <5>1 DEF Target, Reviews
      <4>8. CASE req.op = "reject"
        BY <3>6, <4>2, <4>8 DEF Target
      <4>9. CASE req.op \notin {"review/start", "approve", "reject"}
        <5>1. rows[c].status \in Done /\ Target(req.op) \in Done
          BY <3>6, <4>5, <4>9 DEF Sources, Target, Transition, Submits
        <5>. QED
          BY <2>3, <3>6, <4>2, <4>3, <5>1
      <4>. QED
        BY <4>6, <4>7, <4>8, <4>9
    <3>. QED
      BY <2>1, <3>2, <3>3, <3>4, <3>5, <3>6
  <2>. QED
    BY <2>4 DEF ReviewProgress, ApprovedIndependently, Independently
<1>. QED
  BY <1>1, <1>2

\* An approved customer was reviewed and approved, in its current cycle, by
\* architects other than its creator and its submitter.
THEOREM ApprovalIndependent == Spec => []ApprovedIndependently
<1>1. Init => ReviewProgress /\ ApprovedIndependently
  BY DEF Init, ReviewProgress, ApprovedIndependently, NoRow
<1>. QED
  BY <1>1, TypedAlways, ApprovalStep, PTL DEF Spec

-----------------------------------------------------------------------------
(* Review cycles. *)

\* The submissions of customer c in the audit log, and those up to a version.
SubmissionsOf(c) == {f \in AuditOf(c) : Submits(f.op)}
SubmissionsUpTo(c, v) == {f \in AuditOf(c) : Submits(f.op) /\ f.version <= v}

\* The cycle of a customer counts its submissions; the last one is its submitter's.
CycleCounted ==
  \A c \in Customer :
    /\ IsFiniteSet(SubmissionsOf(c)) /\ Cardinality(SubmissionsOf(c)) = rows[c].cycle
    /\ rows[c].status \notin {"NONE", "DRAFT"} =>
         \E e \in SubmissionsOf(c) :
           /\ e.by = rows[c].submittedBy
           /\ \A f \in SubmissionsOf(c) : f.version <= e.version

\* What a change does to the cycle, the submitter and the creator.
LEMMA CycleChanges ==
  ASSUME TypeOK, FreshUnversioned, NEW c \in Customer, NEW req \in Requests,
         Create(c, req) \/ Update(c, req) \/ Transit(c, req)
  PROVE  /\ Submits(req.op) => /\ rows'[c].cycle = rows[c].cycle + 1
                               /\ rows'[c].submittedBy = req.actor
         /\ ~Submits(req.op) => /\ rows'[c].cycle = rows[c].cycle
                                /\ rows'[c].submittedBy = rows[c].submittedBy
                                /\ rows'[c].status \notin {"NONE", "DRAFT"} =>
                                     rows[c].status \notin {"NONE", "DRAFT"}
         /\ rows[c].status # "NONE" => rows'[c].createdBy = rows[c].createdBy
<1>1. rows[c] \in Row /\ rows \in [Customer -> Row]
  BY DEF TypeOK
<1>2. CASE Create(c, req)
  <2>1. rows[c] = NoRow /\ rows'[c] = CreatedRow(req) /\ ~Submits(req.op)
    BY <1>1, <1>2 DEF Create, FreshUnversioned, Submits
  <2>. QED
    BY <2>1 DEF CreatedRow, NoRow
<1>3. CASE Update(c, req)
  <2>1. rows'[c] = UpdatedRow(rows[c], req) /\ ~Submits(req.op)
    BY <1>1, <1>3 DEF Update, Submits, Edits
  <2>2. /\ rows'[c].cycle = rows[c].cycle /\ rows'[c].submittedBy = rows[c].submittedBy
        /\ rows'[c].status = rows[c].status /\ rows'[c].createdBy = rows[c].createdBy
    BY <1>1, <2>1 DEF UpdatedRow, Row
  <2>. QED
    BY <2>1, <2>2
<1>4. CASE Transit(c, req)
  <2>1. rows'[c] = TransitionedRow(rows[c], req)
    BY <1>1, <1>4 DEF Transit
  <2>2. /\ rows'[c].cycle = IF Submits(req.op) THEN rows[c].cycle + 1 ELSE rows[c].cycle
        /\ rows'[c].submittedBy = IF Submits(req.op) THEN req.actor ELSE rows[c].submittedBy
        /\ rows'[c].createdBy = rows[c].createdBy
    BY <1>1, <2>1 DEF TransitionedRow, Row
  <2>3. ~Submits(req.op) => rows[c].status \notin {"NONE", "DRAFT"}
    BY <1>4 DEF Transit, CheckTransition, Sources, Transition, Submits
  <2>. QED
    BY <2>2, <2>3
<1>. QED
  BY <1>2, <1>3, <1>4

\* The audit entry of a change comes after all others of its customer, and is
\* the only one that is added.
LEMMA AuditGrows ==
  ASSUME TypeOK, FreshUnversioned, VersionsContiguous, NEW c \in Customer, NEW req \in Requests,
         Create(c, req) \/ Update(c, req) \/ Transit(c, req)
  PROVE  /\ \A d \in Customer \ {c} : AuditOf(d)' = AuditOf(d) /\ rows'[d] = rows[d]
         /\ \A d \in Customer : \A f \in AuditOf(d) : f.version \in 1 .. rows[d].version
         /\ rows[c].version \in Nat
         /\ \E e : /\ e.by = req.actor /\ e.op = req.op /\ e.version = rows[c].version + 1
                   /\ AuditOf(c)' = AuditOf(c) \cup {e}
<1>1. PICK new \in Row : Changes(c, req, new)
  BY StepChanges
<1>2. rows[c].version \in Nat /\ rows \in [Customer -> Row]
  BY DEF TypeOK, Row
<1>. DEFINE e == RecordOf(c, rows[c], new, req)
<1>3. /\ e.customer = c /\ e.by = req.actor /\ e.op = req.op
      /\ e.version = rows[c].version + 1
  BY <1>1 DEF RecordOf, Changes
<1>4. AuditOf(c)' = AuditOf(c) \cup {e}
  BY <1>1, <1>3 DEF Changes, AuditOf
<1>5. \A d \in Customer \ {c} : AuditOf(d)' = AuditOf(d) /\ rows'[d] = rows[d]
  BY <1>1, <1>2, <1>3 DEF Changes, AuditOf
<1>6. \A d \in Customer : \A f \in AuditOf(d) : f.version \in 1 .. rows[d].version
  BY DEF VersionsContiguous
<1>. QED
  BY <1>2, <1>3, <1>4, <1>5, <1>6

LEMMA CycleStep ==
  Typed /\ VersionsContiguous /\ CycleCounted /\ [Next]_vars => CycleCounted'
<1>. SUFFICES ASSUME TypeOK, FreshUnversioned, VersionsContiguous, CycleCounted, [Next]_vars
              PROVE  CycleCounted'
  BY DEF Typed
<1>1. CASE UNCHANGED vars
  BY <1>1 DEF vars, CycleCounted, SubmissionsOf, AuditOf
<1>2. CASE Next
  <2>1. PICK c \in Customer, req \in Requests :
               Create(c, req) \/ Update(c, req) \/ Transit(c, req)
    BY <1>2 DEF Next
  <2>2. PICK e : /\ e.by = req.actor /\ e.op = req.op /\ e.version = rows[c].version + 1
                 /\ AuditOf(c)' = AuditOf(c) \cup {e}
    BY <2>1, AuditGrows
  <2>3. /\ \A d \in Customer \ {c} : AuditOf(d)' = AuditOf(d) /\ rows'[d] = rows[d]
        /\ \A f \in AuditOf(c) : f.version \in 1 .. rows[c].version
        /\ rows[c].version \in Nat
    BY <2>1, AuditGrows
  <2>. SUFFICES ASSUME NEW d \in Customer
                PROVE  /\ IsFiniteSet(SubmissionsOf(d)')
                       /\ Cardinality(SubmissionsOf(d)') = rows'[d].cycle
                       /\ rows'[d].status \notin {"NONE", "DRAFT"} =>
                            \E x \in SubmissionsOf(d)' :
                              /\ x.by = rows'[d].submittedBy
                              /\ \A f \in SubmissionsOf(d)' : f.version <= x.version
    BY DEF CycleCounted
  <2>4. CASE d # c
    <3>1. SubmissionsOf(d)' = SubmissionsOf(d) /\ rows'[d] = rows[d]
      BY <2>3, <2>4 DEF SubmissionsOf
    <3>. QED
      BY <3>1 DEF CycleCounted
  <2>5. CASE d = c /\ ~Submits(req.op)
    <3>1. SubmissionsOf(c)' = SubmissionsOf(c)
      BY <2>2, <2>5 DEF SubmissionsOf
    <3>2. /\ rows'[c].cycle = rows[c].cycle /\ rows'[c].submittedBy = rows[c].submittedBy
          /\ rows'[c].status \notin {"NONE", "DRAFT"} => rows[c].status \notin {"NONE", "DRAFT"}
      BY <2>1, <2>5, CycleChanges
    <3>. QED
      BY <2>5, <3>1, <3>2 DEF CycleCounted
  <2>6. CASE d = c /\ Submits(req.op)
    <3>1. SubmissionsOf(c)' = SubmissionsOf(c) \cup {e}
      BY <2>2, <2>6 DEF SubmissionsOf
    <3>2. \A f \in SubmissionsOf(c) : f.version \in Nat /\ f.version < e.version
      BY <2>2, <2>3 DEF SubmissionsOf
    <3>3. rows'[c].cycle = rows[c].cycle + 1 /\ rows'[c].submittedBy = e.by
      BY <2>1, <2>2, <2>6, CycleChanges
    <3>4. e \notin SubmissionsOf(c) /\ e.version <= e.version
      <4>1. e.version \in Nat
        BY <2>2, <2>3
      <4>. QED
        BY <3>2, <4>1
    <3>5. IsFiniteSet(SubmissionsOf(c)) /\ Cardinality(SubmissionsOf(c)) = rows[c].cycle
      BY DEF CycleCounted
    <3>6. /\ IsFiniteSet(SubmissionsOf(c) \cup {e})
          /\ Cardinality(SubmissionsOf(c) \cup {e}) = rows[c].cycle + 1
      BY <3>4, <3>5, FS_AddElement
    <3>7. /\ e \in SubmissionsOf(c)' /\ \A f \in SubmissionsOf(c)' : f.version <= e.version
      BY <2>2, <2>3, <3>1, <3>2, <3>4
    <3>. QED
      BY <2>6, <3>1, <3>3, <3>6, <3>7
  <2>. QED
    BY <2>4, <2>5, <2>6
<1>. QED
  BY <1>1, <1>2

LEMMA ReviewStep ==
  Typed /\ VersionsContiguous /\ CycleCounted /\ EveryReviewIndependent /\ [Next]_vars
  => EveryReviewIndependent'
<1>. SUFFICES ASSUME TypeOK, FreshUnversioned, VersionsContiguous, CycleCounted,
                     EveryReviewIndependent, [Next]_vars
              PROVE  EveryReviewIndependent'
  BY DEF Typed
<1>1. CASE UNCHANGED vars
  BY <1>1 DEF vars, EveryReviewIndependent, AuditOf
<1>2. CASE Next
  <2>1. PICK c \in Customer, req \in Requests :
               Create(c, req) \/ Update(c, req) \/ Transit(c, req)
    BY <1>2 DEF Next
  <2>2. PICK x : /\ x.version = rows[c].version + 1 /\ AuditOf(c)' = AuditOf(c) \cup {x}
    BY <2>1, AuditGrows
  <2>3. /\ \A d \in Customer \ {c} : AuditOf(d)' = AuditOf(d) /\ rows'[d] = rows[d]
        /\ \A d \in Customer : \A f \in AuditOf(d) : f.version \in 1 .. rows[d].version
        /\ rows[c].version \in Nat
    BY <2>1, AuditGrows
  <2>4. ASSUME NEW d \in Customer, NEW e \in AuditOf(d)
        PROVE  /\ e \in AuditOf(d)' /\ rows'[d].createdBy = rows[d].createdBy
               /\ SubmissionsUpTo(d, e.version)' = SubmissionsUpTo(d, e.version)
    <3>1. CASE d # c
      <4>1. AuditOf(d)' = AuditOf(d) /\ rows'[d] = rows[d]
        BY <2>3, <3>1
      <4>2. SubmissionsUpTo(d, e.version)' = SubmissionsUpTo(d, e.version)
        BY <4>1 DEF SubmissionsUpTo
      <4>. QED
        BY <4>1, <4>2
    <3>2. CASE d = c
      <4>1. e.version \in Nat /\ e.version \in 1 .. rows[c].version
        BY <2>3, <2>4, <3>2
      <4>2. ~(x.version <= e.version) /\ rows[c].version # 0
        BY <2>2, <2>3, <4>1
      <4>3. rows[c].status # "NONE"
        <5>1. NoRow.version = 0
          BY DEF NoRow
        <5>. QED
          BY <4>2, <5>1 DEF FreshUnversioned
      <4>4. SubmissionsUpTo(c, e.version)' = SubmissionsUpTo(c, e.version)
        BY <2>2, <4>2 DEF SubmissionsUpTo
      <4>5. rows'[c].createdBy = rows[c].createdBy
        BY <2>1, <4>3, CycleChanges
      <4>. QED
        BY <2>2, <2>4, <3>2, <4>4, <4>5
    <3>. QED
      BY <3>1, <3>2
  <2>. SUFFICES ASSUME NEW r \in reviews'
                PROVE  \E e \in AuditOf(r.customer)' :
                         /\ Submits(e.op)
                         /\ Cardinality(SubmissionsUpTo(r.customer, e.version)') = r.cycle
                         /\ r.reviewer \notin {e.by, rows'[r.customer].createdBy}
    BY DEF EveryReviewIndependent, SubmissionsUpTo
  <2>5. CASE r \in reviews
    <3>1. r.customer \in Customer
      BY <2>5 DEF TypeOK
    <3>2. PICK e \in AuditOf(r.customer) :
            /\ Submits(e.op)
            /\ Cardinality(SubmissionsUpTo(r.customer, e.version)) = r.cycle
            /\ r.reviewer \notin {e.by, rows[r.customer].createdBy}
      BY <2>5 DEF EveryReviewIndependent, SubmissionsUpTo
    <3>. QED
      BY <2>4, <3>1, <3>2
  <2>6. CASE r \notin reviews
    <3>1. Transit(c, req) /\ Reviews(req.op) /\ r = ReviewOf(c, rows[c], req)
      BY <2>1, <2>6 DEF Create, Update, Transit
    <3>2. /\ r.customer = c /\ r.cycle = rows[c].cycle
          /\ r.reviewer \notin {rows[c].createdBy, rows[c].submittedBy}
      BY <3>1 DEF ReviewOf, Transit, CheckTransition, CheckIndependence
    <3>3. rows[c].status \notin {"NONE", "DRAFT"}
      BY <3>1 DEF Transit, CheckTransition, Sources, Reviews
    <3>4. PICK e \in SubmissionsOf(c) :
            /\ e.by = rows[c].submittedBy
            /\ \A f \in SubmissionsOf(c) : f.version <= e.version
      BY <3>3 DEF CycleCounted
    <3>5. SubmissionsUpTo(c, e.version) = SubmissionsOf(c)
      BY <3>4 DEF SubmissionsUpTo, SubmissionsOf
    <3>6. Cardinality(SubmissionsUpTo(c, e.version)) = rows[c].cycle
      BY <3>5 DEF CycleCounted
    <3>7. e \in AuditOf(c) /\ Submits(e.op)
      BY <3>4 DEF SubmissionsOf
    <3>. QED
      BY <2>4, <3>2, <3>4, <3>6, <3>7
  <2>. QED
    BY <2>5, <2>6
<1>. QED
  BY <1>1, <1>2

\* Every review on record was made by somebody other than the creator and than
\* the one whose submission opened its cycle.
THEOREM ReviewsIndependent == Spec => []EveryReviewIndependent
<1>1. Init => VersionsContiguous /\ CycleCounted /\ EveryReviewIndependent
  <2>. SUFFICES ASSUME Init  PROVE VersionsContiguous /\ CycleCounted /\ EveryReviewIndependent
    OBVIOUS
  <2>1. \A c \in Customer : AuditOf(c) = {} /\ SubmissionsOf(c) = {} /\ rows[c] = NoRow
    BY DEF Init, AuditOf, SubmissionsOf
  <2>2. NoRow.version = 0 /\ NoRow.cycle = 0 /\ NoRow.status = "NONE"
    BY DEF NoRow
  <2>3. CycleCounted
    BY <2>1, <2>2, FS_EmptySet DEF CycleCounted
  <2>4. VersionsContiguous
    BY <2>1, <2>2 DEF VersionsContiguous
  <2>. QED
    BY <2>3, <2>4 DEF Init, EveryReviewIndependent
<1>. QED
  BY <1>1, TypedAlways, VersionsStep, CycleStep, ReviewStep, PTL DEF Spec

=============================================================================
