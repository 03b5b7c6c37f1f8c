--------------------------- MODULE CustomerApiProofs ---------------------------
(***************************************************************************)
(* CustomerApi implements CustomerLifecycle, for any number of concurrent  *)
(* invocations and any set of requests.  The argument: a transaction that  *)
(* is about to write holds the row lock alone, so the row it read is the   *)
(* row it overwrites, and its commit is one step of the lifecycle.  What   *)
(* CustomerLifecycleProofs proves of the lifecycle then holds of the       *)
(* transactions, too.                                                      *)
(***************************************************************************)
EXTENDS CustomerApi, TLAPS

USE RolesAssumption, RequestsAssumption

-----------------------------------------------------------------------------
(* CustomerLifecycleProofs is about another instance of the same rules. *)

\* The same lifecycle as Life, with its theorems.
Proved == INSTANCE CustomerLifecycleProofs

\* The rules are the same in the module of the proofs, too.
LEMMA SameRulesProved ==
  /\ Proved!Transition = Transition
  /\ Proved!NoRow = NoRow
  /\ Proved!Row = Row
  /\ \A op : /\ Proved!Reviews(op) <=> Reviews(op)
             /\ Proved!Edits(op) <=> Edits(op)
  /\ \A req : /\ Proved!CheckRole(req) <=> CheckRole(req)
              /\ Proved!CreatedRow(req) = CreatedRow(req)
  /\ \A row, req : /\ Proved!CheckEdit(row, req) <=> CheckEdit(row, req)
                   /\ Proved!CheckTransition(row, req) <=> CheckTransition(row, req)
                   /\ Proved!UpdatedRow(row, req) = UpdatedRow(row, req)
                   /\ Proved!TransitionedRow(row, req) = TransitionedRow(row, req)
  /\ \A c, row, req : Proved!ReviewOf(c, row, req) = ReviewOf(c, row, req)
  /\ \A c, old, new, req : Proved!RecordOf(c, old, new, req) = RecordOf(c, old, new, req)
  /\ \A c, name : Proved!NameFree(rows, c, name) <=> NameFree(rows, c, name)
BY DEF Proved!Transition, Transition, Proved!NoRow, NoRow, Proved!Row, Row, Proved!Status, Status,
       Proved!Reviews, Reviews, Proved!Edits, Edits, Proved!CheckRole, CheckRole, Proved!RoleOf, RoleOf,
       Proved!CreatedRow, CreatedRow, Proved!CheckEdit, CheckEdit, Proved!CheckVersion, CheckVersion,
       Proved!CheckTransition, CheckTransition, Proved!CheckIndependence, CheckIndependence,
       Proved!CheckReason, CheckReason, Proved!CheckComplete, CheckComplete, Proved!Submits, Submits,
       Proved!Sources, Sources, Proved!Target, Target, Proved!UpdatedRow, UpdatedRow,
       Proved!TransitionedRow, TransitionedRow, Proved!ReviewOf, ReviewOf,
       Proved!RecordOf, RecordOf, Proved!NameFree, NameFree

\* The assumptions its theorems rest on hold.
LEMMA SameAssumptions ==
  /\ Requests \subseteq Proved!RequestType
  /\ Roles \in [User -> SUBSET Proved!Role]
  /\ CanCreate \subseteq User
  /\ NoUser \notin User
  /\ Name # {}
BY DEF RequestType, Proved!RequestType, Role, Proved!Role, Operation, Proved!Operation,
       Transition, Proved!Transition

\* A row that is created is well typed.
LEMMA CreatedTypes ==
  /\ NoRow \in Row
  /\ \A req \in Requests : CreatedRow(req) \in Row
BY SameAssumptions, SameRulesProved, Proved!NoRowType, Proved!WrittenTypes

\* A change that passes its checks leaves the row typed and live.
LEMMA CheckedWrite ==
  ASSUME NEW row \in Row, NEW req \in Requests, req.op # "create", Check(row, req)
  PROVE  /\ WrittenRow(row, req) \in Row
         /\ WrittenRow(row, req).status # "NONE"
<1>1. Proved!Check(row, req) /\ row \in Proved!Row
  BY SameRulesProved DEF Check, Proved!Check
<1>2. Proved!WrittenRow(row, req) = WrittenRow(row, req)
  BY SameRulesProved DEF WrittenRow, Proved!WrittenRow
<1>. QED
  BY <1>1, <1>2, SameAssumptions, SameRulesProved, Proved!CheckedWrite

-----------------------------------------------------------------------------
(* The invariant. *)

\* What an invocation under way has passed: the handler's checks.
Admitted(w) ==
  exec[w] # Idle =>
    /\ exec[w].req \in Requests
    /\ CheckRole(exec[w].req)
    /\ IF exec[w].req.op = "create" THEN exec[w].req.actor \in CanCreate
                                    ELSE rows[exec[w].req.customer].status # "NONE"

\* Two invocations never hold one row.
RowExclusive ==
  \A v, w \in Worker, c \in Customer : HoldsRow(v, c) /\ HoldsRow(w, c) => v = w

\* exec is a function of the workers, rows one of the customers.
Shape ==
  /\ exec = [w \in Worker |-> exec[w]]
  /\ rows \in [Customer -> Row]

LockInv ==
  /\ Shape
  /\ \A w \in Worker : Admitted(w)
  /\ RowExclusive
  /\ SnapshotCurrent

-----------------------------------------------------------------------------
(* Steps of one invocation that touch no table. *)

\* Invocation w moves to pc, under the conditions that keep the invariant.
LEMMA RunStep ==
  ASSUME LockInv, NEW w \in Worker, NEW pc, NEW req \in Requests, NEW snap,
         Run(w, pc, req, snap), UNCHANGED rows,
         CheckRole(req),
         IF req.op = "create" THEN req.actor \in CanCreate
                              ELSE rows[req.customer].status # "NONE",
         pc = "write" /\ req.op # "create" =>
           /\ snap = rows[req.customer]
           /\ \A v \in Worker \ {w} : ~HoldsRow(v, req.customer)
  PROVE  LockInv'
<1>1. /\ exec' = [v \in Worker |-> exec'[v]]
      /\ exec'[w] = [pc |-> pc, req |-> req, snap |-> snap]
      /\ \A v \in Worker \ {w} : exec'[v] = exec[v]
  BY DEF LockInv, Shape, Run
<1>2. Shape'
  BY <1>1 DEF LockInv, Shape
<1>3. \A v \in Worker : Admitted(v)'
  BY <1>1 DEF LockInv, Admitted
<1>4. RowExclusive'
  BY <1>1 DEF LockInv, RowExclusive, HoldsRow
<1>5. SnapshotCurrent'
  BY <1>1 DEF LockInv, SnapshotCurrent
<1>. QED
  BY <1>2, <1>3, <1>4, <1>5 DEF LockInv

\* Invocation w returns, having changed no row that another one relies on.
LEMMA ReturnStep ==
  ASSUME LockInv, NEW w \in Worker, exec' = [exec EXCEPT ![w] = Idle],
         rows' \in [Customer -> Row],
         \A v \in Worker \ {w} :
           exec[v] # Idle /\ exec[v].req.op # "create" =>
             /\ rows'[exec[v].req.customer].status # "NONE"
             /\ exec[v].pc = "write" =>
                  rows'[exec[v].req.customer] = rows[exec[v].req.customer]
  PROVE  LockInv'
<1>1. /\ exec' = [v \in Worker |-> exec'[v]]
      /\ exec'[w] = Idle
      /\ \A v \in Worker \ {w} : exec'[v] = exec[v]
  BY DEF LockInv, Shape
<1>2. Idle.pc = "idle"
  BY DEF Idle
<1>3. Shape'
  BY <1>1 DEF Shape
<1>4. \A v \in Worker : Admitted(v)'
  BY <1>1 DEF LockInv, Admitted
<1>5. RowExclusive'
  BY <1>1, <1>2 DEF LockInv, RowExclusive, HoldsRow
<1>6. SnapshotCurrent'
  BY <1>1, <1>2 DEF LockInv, SnapshotCurrent, Idle
<1>. QED
  BY <1>3, <1>4, <1>5, <1>6 DEF LockInv

-----------------------------------------------------------------------------
(* The rules of CustomerWorkflow are the same rules in both modules: what    *)
(* Life!Op abbreviates is what Op does.                                      *)

LEMMA SameRules ==
  /\ Life!Transition = Transition
  /\ Life!NoRow = NoRow
  /\ Life!Row = Row
  /\ \A op : /\ Life!Reviews(op) <=> Reviews(op)
             /\ Life!Edits(op) <=> Edits(op)
  /\ \A req : /\ Life!CheckRole(req) <=> CheckRole(req)
              /\ Life!CreatedRow(req) = CreatedRow(req)
  /\ \A row, req : /\ Life!CheckEdit(row, req) <=> CheckEdit(row, req)
                   /\ Life!CheckTransition(row, req) <=> CheckTransition(row, req)
                   /\ Life!UpdatedRow(row, req) = UpdatedRow(row, req)
                   /\ Life!TransitionedRow(row, req) = TransitionedRow(row, req)
  /\ \A c, row, req : Life!ReviewOf(c, row, req) = ReviewOf(c, row, req)
  /\ \A c, old, new, req : Life!RecordOf(c, old, new, req) = RecordOf(c, old, new, req)
  /\ \A c, name : Life!NameFree(rows, c, name) <=> NameFree(rows, c, name)
BY DEF Life!Transition, Transition, Life!NoRow, NoRow, Life!Row, Row, Life!Status, Status,
       Life!Reviews, Reviews, Life!Edits, Edits, Life!CheckRole, CheckRole, Life!RoleOf, RoleOf,
       Life!CreatedRow, CreatedRow, Life!CheckEdit, CheckEdit, Life!CheckVersion, CheckVersion,
       Life!CheckTransition, CheckTransition, Life!CheckIndependence, CheckIndependence,
       Life!CheckReason, CheckReason, Life!CheckComplete, CheckComplete, Life!Submits, Submits,
       Life!Sources, Sources, Life!Target, Target, Life!UpdatedRow, UpdatedRow,
       Life!TransitionedRow, TransitionedRow, Life!ReviewOf, ReviewOf,
       Life!RecordOf, RecordOf, Life!NameFree, NameFree

-----------------------------------------------------------------------------
(* The commits, which are the steps of the lifecycle. *)

LEMMA CreateStep ==
  ASSUME LockInv, NEW w \in Worker, NEW c \in Customer, CommitCreate(w, c)
  PROVE  LockInv' /\ Life!Create(c, exec[w].req) /\ exec[w].req \in Requests
<1>. DEFINE req == exec[w].req
<1>1. exec[w] # Idle
  BY DEF CommitCreate, Idle
<1>2. req \in Requests /\ CheckRole(req) /\ req.op = "create" /\ req.actor \in CanCreate
  BY <1>1 DEF LockInv, Admitted, CommitCreate
<1>3. Life!Create(c, req)
  BY <1>2, SameRules DEF CommitCreate, Life!Create
<1>4. exec' = [exec EXCEPT ![w] = Idle] /\ rows' = [rows EXCEPT ![c] = CreatedRow(req)]
  BY DEF CommitCreate, Answer
<1>5. CreatedRow(req) \in Row
  BY <1>2, CreatedTypes
<1>6. rows' \in [Customer -> Row]
  BY <1>4, <1>5 DEF LockInv, Shape
<1>7. ASSUME NEW v \in Worker \ {w}, exec[v] # Idle, exec[v].req.op # "create"
      PROVE  rows'[exec[v].req.customer] = rows[exec[v].req.customer]
  <2>1. rows[exec[v].req.customer].status # "NONE"
    BY <1>7 DEF LockInv, Admitted
  <2>2. rows[c].status = "NONE"
    BY DEF CommitCreate
  <2>. QED
    BY <1>4, <2>1, <2>2
<1>9. ASSUME NEW v \in Worker \ {w}, exec[v] # Idle, exec[v].req.op # "create"
      PROVE  /\ rows'[exec[v].req.customer].status # "NONE"
             /\ exec[v].pc = "write" =>
                  rows'[exec[v].req.customer] = rows[exec[v].req.customer]
  <2>1. rows[exec[v].req.customer].status # "NONE"
    BY <1>9 DEF LockInv, Admitted
  <2>. QED
    BY ONLY <1>7, <1>9, <2>1
<1>10. exec' = [exec EXCEPT ![w] = Idle]
  BY <1>4
<1>8. LockInv'
  BY ONLY LockInv, w \in Worker, <1>6, <1>9, <1>10, ReturnStep
<1>. QED
  BY <1>2, <1>3, <1>8

LEMMA ChangeStep ==
  ASSUME LockInv, NEW w \in Worker, CommitChange(w)
  PROVE  /\ LockInv'
         /\ exec[w].req \in Requests
         /\ exec[w].req.customer \in Customer
         /\ \/ Life!Update(exec[w].req.customer, exec[w].req)
            \/ Life!Transit(exec[w].req.customer, exec[w].req)
<1>. DEFINE req == exec[w].req
            c   == req.customer
<1>1. exec[w] # Idle /\ exec[w].pc = "write" /\ req.op # "create"
  BY DEF CommitChange, Idle
<1>2. req \in Requests /\ CheckRole(req)
  BY <1>1 DEF LockInv, Admitted
<1>3. req \in RequestType /\ c \in Customer
  BY <1>2 DEF RequestType
<1>4. exec[w].snap = rows[c] /\ rows[c] \in Row
  BY <1>1, <1>3 DEF LockInv, SnapshotCurrent, Shape
<1>5. Check(rows[c], req)
  BY <1>4 DEF CommitChange
<1>6. /\ exec' = [exec EXCEPT ![w] = Idle]
      /\ rows' = [rows EXCEPT ![c] = WrittenRow(rows[c], req)]
  BY <1>4 DEF CommitChange, Answer
<1>7. Life!Update(c, req) \/ Life!Transit(c, req)
  <2>1. CASE Edits(req.op)
    <3>1. ~Reviews(req.op)
      BY <2>1 DEF Edits, Reviews
    <3>. QED
      BY <1>4, <1>5, <1>6, <2>1, <3>1, SameRules DEF CommitChange, Check, WrittenRow, Life!Update
  <2>2. CASE ~Edits(req.op)
    <3>1. req.op \in Transition /\ req.op # "update"
      BY <1>1, <1>3, <2>2 DEF RequestType, Operation, Edits
    <3>. QED
      BY <1>4, <1>5, <1>6, <2>2, <3>1, SameRules DEF CommitChange, Check, WrittenRow, Life!Transit
  <2>. QED
    BY <2>1, <2>2
<1>8. /\ WrittenRow(rows[c], req) \in Row
      /\ WrittenRow(rows[c], req).status # "NONE"
  BY <1>1, <1>2, <1>4, <1>5, CheckedWrite
<1>9. rows' \in [Customer -> Row]
  BY <1>6, <1>8 DEF LockInv, Shape
<1>10. ASSUME NEW v \in Worker \ {w}, exec[v] # Idle, exec[v].req.op # "create"
       PROVE  /\ rows'[exec[v].req.customer].status # "NONE"
              /\ exec[v].pc = "write" =>
                   rows'[exec[v].req.customer] = rows[exec[v].req.customer]
  <2>1. rows[exec[v].req.customer].status # "NONE" /\ exec[v].req \in RequestType
    BY <1>10 DEF LockInv, Admitted
  <2>2. exec[v].req.customer \in Customer
    BY <2>1 DEF RequestType
  <2>3. HoldsRow(w, c)
    BY <1>1 DEF HoldsRow
  <2>4. exec[v].pc = "write" => exec[v].req.customer # c
    BY <1>3, <1>10, <2>3 DEF LockInv, RowExclusive, HoldsRow
  <2>5. rows \in [Customer -> Row]
    BY DEF LockInv, Shape
  <2>. QED
    BY <1>6, <1>8, <2>1, <2>2, <2>4, <2>5
<1>11. LockInv'
  BY <1>6, <1>9, <1>10, ReturnStep
<1>. QED
  BY <1>2, <1>3, <1>7, <1>11

-----------------------------------------------------------------------------
(* Every step keeps the invariant and maps to the lifecycle. *)

LEMMA InvInit == Init => LockInv
<1>1. Idle.pc = "idle"
  BY DEF Idle
<1>. QED
  BY <1>1, CreatedTypes, SameRules
  DEF Init, Life!Init, LockInv, Shape, Admitted, RowExclusive, HoldsRow, SnapshotCurrent

LEMMA Step ==
  ASSUME LockInv, [Next]_vars
  PROVE  LockInv' /\ [Life!Next]_<<rows, audit, reviews>>
<1>1. CASE UNCHANGED vars
  BY <1>1 DEF vars, LockInv, Shape, Admitted, RowExclusive, HoldsRow, SnapshotCurrent
<1>2. ASSUME NEW w \in Worker, NEW req \in Requests, Begin(w, req)
      PROVE  LockInv' /\ UNCHANGED <<rows, audit, reviews>>
  <2>1. UNCHANGED <<rows, audit, reviews>>
    BY <1>2 DEF Begin, tables
  <2>2. (IF Keyed(req) THEN "key" ELSE AfterKey(req)) = "write" => req.op = "create"
    BY DEF AfterKey
  <2>. QED
    BY <1>2, <2>1, <2>2, RunStep DEF Begin
<1>3. ASSUME NEW w \in Worker, KeyMiss(w)
      PROVE  LockInv' /\ UNCHANGED <<rows, audit, reviews>>
  <2>1. UNCHANGED <<rows, audit, reviews>> /\ exec[w] # Idle
    BY <1>3 DEF KeyMiss, KeyLocked, tables, Idle
  <2>2. AfterKey(exec[w].req) = "write" => exec[w].req.op = "create"
    BY DEF AfterKey
  <2>3. Admitted(w)
    BY DEF LockInv
  <2>. QED
    BY <1>3, <2>1, <2>2, <2>3, RunStep DEF KeyMiss, Admitted
<1>4. ASSUME NEW w \in Worker, LockRow(w)
      PROVE  LockInv' /\ UNCHANGED <<rows, audit, reviews>>
  <2>1. UNCHANGED <<rows, audit, reviews>> /\ exec[w] # Idle
    BY <1>4 DEF LockRow, tables, Idle
  <2>2. Admitted(w)
    BY DEF LockInv
  <2>. QED
    BY <1>4, <2>1, <2>2, RunStep DEF LockRow, Admitted
<1>5. ASSUME NEW w \in Worker, KeyReplay(w) \/ Abort(w)
      PROVE  LockInv' /\ UNCHANGED <<rows, audit, reviews>>
  <2>1. UNCHANGED <<rows, audit, reviews>> /\ exec' = [exec EXCEPT ![w] = Idle]
    BY <1>5 DEF KeyReplay, Abort, tables
  <2>. QED
    BY <2>1, ReturnStep DEF LockInv, Shape, Admitted
<1>6. ASSUME NEW w \in Worker, NEW c \in Customer, CommitCreate(w, c)
      PROVE  LockInv' /\ Life!Next
  BY <1>6, CreateStep DEF Life!Next
<1>7. ASSUME NEW w \in Worker, CommitChange(w)
      PROVE  LockInv' /\ Life!Next
  BY <1>7, ChangeStep DEF Life!Next
<1>. QED
  BY <1>1, <1>2, <1>3, <1>4, <1>5, <1>6, <1>7 DEF Next, vars

\* The row an invocation decides on is still current when it commits.
THEOREM DecisionsOnCurrentRows == Spec => []SnapshotCurrent
<1>1. LockInv /\ [Next]_vars => LockInv'
  BY Step
<1>2. LockInv => SnapshotCurrent
  BY DEF LockInv
<1>. QED
  BY InvInit, <1>1, <1>2, PTL DEF Spec

\* Overlapping, retried and aborted invocations behave as one-at-a-time
\* requests do.
THEOREM Implementation == Spec => ImplementsLifecycle
<1>1. LockInv /\ [Next]_vars => LockInv'
  BY Step
<1>2. LockInv /\ [Next]_vars => [Life!Next]_(Life!vars)
  BY Step DEF Life!vars
<1>3. Init => Life!Init
  BY DEF Init
<1>. QED
  BY InvInit, <1>1, <1>2, <1>3, PTL DEF Spec, ImplementsLifecycle, Life!Spec

-----------------------------------------------------------------------------
(* What is proved of the lifecycle holds of the transactions that implement it. *)

\* Life and Proved are one specification.
LEMMA SameLifecycle == Life!Spec => Proved!Spec
<1>1. Life!Init => Proved!Init
  BY SameRules, SameRulesProved DEF Life!Init, Proved!Init
<1>2. ASSUME NEW c \in Customer, NEW req \in Requests
      PROVE  /\ Life!Create(c, req) => Proved!Create(c, req)
             /\ Life!Update(c, req) => Proved!Update(c, req)
             /\ Life!Transit(c, req) => Proved!Transit(c, req)
  <2>1. Life!Create(c, req) => Proved!Create(c, req)
    BY SameRules, SameRulesProved DEF Life!Create, Proved!Create
  <2>2. Life!Update(c, req) => Proved!Update(c, req)
    BY SameRules, SameRulesProved DEF Life!Update, Proved!Update
  <2>3. Life!Transit(c, req) => Proved!Transit(c, req)
    BY SameRules, SameRulesProved DEF Life!Transit, Proved!Transit, Life!ReviewInsertable,
       Proved!ReviewInsertable
  <2>. QED
    BY <2>1, <2>2, <2>3
<1>3. [Life!Next]_(Life!vars) => [Proved!Next]_(Proved!vars)
  BY <1>2 DEF Life!Next, Proved!Next, Life!vars, Proved!vars
<1>. QED
  BY <1>1, <1>3, PTL DEF Life!Spec, Proved!Spec

\* Committed changes are numbered 1..version, each number once.
THEOREM AuditNumbered == Spec => []VersionsContiguous
<1>1. Proved!VersionsContiguous => VersionsContiguous
  BY DEF VersionsContiguous, Life!VersionsContiguous, Proved!VersionsContiguous,
         Proved!AuditOf, Life!AuditOf
<1>2. Proved!Spec => []Proved!VersionsContiguous
  BY SameAssumptions, Proved!AuditNumbered
<1>. QED
  BY <1>1, <1>2, SameLifecycle, Implementation, PTL DEF ImplementsLifecycle

\* Whatever overlaps, the entries of the audit log join end to end.
THEOREM AuditChained == Spec => []AuditChain
<1>1. Proved!AuditChain => AuditChain
  BY DEF AuditChain, Life!AuditChain, Proved!AuditChain, Proved!AuditOf, Life!AuditOf
<1>2. Proved!Spec => []Proved!AuditChain
  BY SameAssumptions, Proved!AuditChained
<1>. QED
  BY <1>1, <1>2, SameLifecycle, Implementation, PTL DEF ImplementsLifecycle

\* No edit, overlapping or repeated, undoes what a submission validated.
THEOREM GovernedStayComplete == Spec => []GovernedComplete
<1>1. Proved!GovernedComplete => GovernedComplete
  BY DEF GovernedComplete, Life!GovernedComplete, Proved!GovernedComplete
<1>2. Proved!Spec => []Proved!GovernedComplete
  BY SameAssumptions, Proved!GovernedStayComplete
<1>. QED
  BY <1>1, <1>2, SameLifecycle, Implementation, PTL DEF ImplementsLifecycle

\* An approved customer was reviewed and approved, in its present cycle, by
\* others than its creator and submitter.
THEOREM ApprovalIndependent == Spec => []ApprovedIndependently
<1>1. Proved!ApprovedIndependently => ApprovedIndependently
  BY DEF ApprovedIndependently, Life!ApprovedIndependently, Proved!ApprovedIndependently
<1>2. Proved!Spec => []Proved!ApprovedIndependently
  BY SameAssumptions, Proved!ApprovalIndependent
<1>. QED
  BY <1>1, <1>2, SameLifecycle, Implementation, PTL DEF ImplementsLifecycle

\* Whatever overlaps, every review on record was made by somebody other than the
\* creator and than the one whose submission opened its cycle.
THEOREM ReviewsIndependent == Spec => []EveryReviewIndependent
<1>1. Proved!EveryReviewIndependent => EveryReviewIndependent
  <2>1. \A S : Proved!Cardinality(S) = Life!Cardinality(S)
    BY DEF Proved!Cardinality, Life!Cardinality
  <2>. QED
    BY <2>1
    DEF EveryReviewIndependent, Life!EveryReviewIndependent, Proved!EveryReviewIndependent,
        Proved!AuditOf, Life!AuditOf, Proved!Submits, Life!Submits
<1>2. Proved!Spec => []Proved!EveryReviewIndependent
  BY SameAssumptions, Proved!ReviewsIndependent
<1>. QED
  BY <1>1, <1>2, SameLifecycle, Implementation, PTL DEF ImplementsLifecycle

-----------------------------------------------------------------------------
(* Idempotency: what a client is answered. *)

\* The audit entry e is of the change that this response answers.
Backs(e, response, actor, op) ==
  /\ e.customer = response.customer /\ e.version = response.version
  /\ e.status = response.status /\ e.by = actor /\ e.op = op

\* A stored response is of a committed change by the scope's actor and operation.
StoredBacked ==
  \A k \in idempotency : \E e \in audit : Backs(e, k.response, k.scope[1], k.scope[2])

\* PRIMARY KEY (actor_id, operation, key).
OneRowPerScope == \A k, l \in idempotency : k.scope = l.scope => k = l

\* Only calls with a key wait for one.
WaitsWithKey == \A w \in Worker : exec[w].pc = "key" => Keyed(exec[w].req)

\* An answer to a call with a key is the stored one.
AnsweredAsStored ==
  \A a \in replies :
    Keyed(a.req) => \E k \in idempotency : k.scope = Scope(a.req) /\ k.response = a.response

\* The answer to a change without a key is of the version after the one the
\* client sent.
AnsweredNextVersion ==
  \A a \in replies :
    ~Keyed(a.req) /\ a.req.op # "create" =>
      \E e \in audit :
        /\ e.customer \in Customer
        /\ e.customer = a.req.customer /\ e.version = a.req.expected + 1
        /\ a.response = [customer |-> e.customer, version |-> e.version, status |-> e.status]

ReplyInv ==
  /\ RepliesBacked
  /\ StoredBacked
  /\ OneRowPerScope
  /\ WaitsWithKey
  /\ AnsweredAsStored
  /\ AnsweredNextVersion

\* A step that writes no response: the log only grows.
LEMMA SilentStep ==
  ASSUME ReplyInv, UNCHANGED <<idempotency, replies>>, audit \subseteq audit', WaitsWithKey'
  PROVE  ReplyInv'
BY DEF ReplyInv, RepliesBacked, StoredBacked, Backs, OneRowPerScope, AnsweredAsStored,
       AnsweredNextVersion

\* Invocation w returns, or waits only with a key.
LEMMA KeyWait ==
  ASSUME LockInv, ReplyInv, NEW w \in Worker, NEW i, exec' = [exec EXCEPT ![w] = i],
         i.pc = "key" => Keyed(i.req)
  PROVE  WaitsWithKey'
BY DEF LockInv, Shape, ReplyInv, WaitsWithKey

\* Committing a change and its answer.
LEMMA AnswerStep ==
  ASSUME LockInv, ReplyInv, NEW w \in Worker, NEW c \in Customer, NEW row, NEW e,
         Answer(w, c, row), audit' = audit \cup {e},
         Backs(e, Response(c, row), exec[w].req.actor, exec[w].req.op),
         exec[w].req.op # "create" =>
           c = exec[w].req.customer /\ row.version = exec[w].req.expected + 1
  PROVE  ReplyInv'
<1>. DEFINE req == exec[w].req
            response == Response(c, row)
            key == [scope |-> Scope(req), fingerprint |-> Fingerprint(req), response |-> response]
            reply == [req |-> req, response |-> response]
<1>1. /\ replies' = replies \cup {reply}
      /\ IF Keyed(req) THEN idempotency' = idempotency \cup {key} /\ Cached(req) = {}
                       ELSE idempotency' = idempotency
      /\ exec' = [exec EXCEPT ![w] = Idle]
  BY DEF Answer
<1>2. /\ key.scope = Scope(req) /\ key.response = response
      /\ key.scope[1] = req.actor /\ key.scope[2] = req.op
      /\ reply.req = req /\ reply.response = response
  BY DEF Scope
<1>3. Backs(e, response, req.actor, req.op) /\ audit \subseteq audit' /\ e \in audit'
  OBVIOUS
<1>4. idempotency \subseteq idempotency' /\ idempotency' \subseteq idempotency \cup {key}
  BY <1>1
<1>5. RepliesBacked'
  BY <1>1, <1>2, <1>3 DEF ReplyInv, RepliesBacked, Backs
<1>6. StoredBacked'
  BY <1>2, <1>3, <1>4 DEF ReplyInv, StoredBacked
<1>7. OneRowPerScope'
  BY <1>1, <1>2 DEF ReplyInv, OneRowPerScope, Cached
<1>8. WaitsWithKey'
  BY <1>1, KeyWait DEF Idle
<1>9. AnsweredAsStored'
  <2>1. Keyed(req) => key \in idempotency'
    BY <1>1
  <2>. QED
    BY <1>1, <1>2, <1>4, <2>1 DEF ReplyInv, AnsweredAsStored
<1>10. AnsweredNextVersion'
  <2>1. response = [customer |-> e.customer, version |-> e.version, status |-> e.status]
    BY <1>3 DEF Backs, Response
  <2>2. /\ e.customer \in Customer
        /\ req.op # "create" => e.customer = req.customer /\ e.version = req.expected + 1
    BY <1>3 DEF Backs, Response
  <2>. QED
    BY <1>1, <1>2, <1>3, <2>1, <2>2 DEF ReplyInv, AnsweredNextVersion
<1>. QED
  BY <1>5, <1>6, <1>7, <1>8, <1>9, <1>10 DEF ReplyInv

\* A replay answers with what is stored.
LEMMA ReplayStep ==
  ASSUME LockInv, ReplyInv, NEW w \in Worker, KeyReplay(w)
  PROVE  ReplyInv'
<1>. DEFINE req == exec[w].req
<1>1. PICK k \in idempotency :
        /\ k.scope = Scope(req)
        /\ replies' = replies \cup {[req |-> req, response |-> k.response]}
  BY DEF KeyReplay, Cached
<1>2. /\ exec' = [exec EXCEPT ![w] = Idle]
      /\ UNCHANGED <<rows, audit, reviews, idempotency>>
      /\ Keyed(req)
  BY DEF KeyReplay, KeyLocked, ReplyInv, WaitsWithKey
<1>3. k.scope[1] = req.actor /\ k.scope[2] = req.op
  BY <1>1 DEF Scope
<1>4. RepliesBacked'
  BY <1>1, <1>2, <1>3 DEF ReplyInv, RepliesBacked, StoredBacked, Backs
<1>5. WaitsWithKey'
  BY <1>2, KeyWait DEF Idle
<1>6. AnsweredAsStored' /\ AnsweredNextVersion'
  BY <1>1, <1>2 DEF ReplyInv, AnsweredAsStored, AnsweredNextVersion
<1>. QED
  BY <1>2, <1>4, <1>5, <1>6 DEF ReplyInv, StoredBacked, OneRowPerScope

\* A change is checked against the version the client sent.
LEMMA NextVersion ==
  ASSUME NEW row \in Row, NEW req \in Requests, Check(row, req)
  PROVE  WrittenRow(row, req).version = req.expected + 1
BY DEF Check, CheckEdit, CheckTransition, CheckVersion, WrittenRow, UpdatedRow, TransitionedRow, Row

LEMMA ReplyNext ==
  ASSUME LockInv, ReplyInv, [Next]_vars
  PROVE  ReplyInv'
<1>1. CASE UNCHANGED vars
  BY <1>1, SilentStep DEF vars, ReplyInv, WaitsWithKey
<1>2. ASSUME NEW w \in Worker, NEW req \in Requests, Begin(w, req)
      PROVE  ReplyInv'
  <2>. DEFINE pc == IF Keyed(req) THEN "key" ELSE AfterKey(req)
              i  == [pc |-> pc, req |-> req, snap |-> NoRow]
  <2>1. WaitsWithKey'
    <3>1. exec' = [exec EXCEPT ![w] = i]
      BY <1>2 DEF Begin, Run
    <3>2. i.pc = "key" => Keyed(i.req)
      BY DEF AfterKey
    <3>. QED
      BY ONLY LockInv, ReplyInv, w \in Worker, <3>1, <3>2, KeyWait
  <2>. QED
    BY <1>2, <2>1, SilentStep DEF Begin, tables
<1>3. ASSUME NEW w \in Worker, KeyMiss(w) \/ LockRow(w)
      PROVE  ReplyInv'
  <2>1. WaitsWithKey'
    BY <1>3, KeyWait DEF KeyMiss, LockRow, Run, AfterKey
  <2>. QED
    BY <1>3, <2>1, SilentStep DEF KeyMiss, LockRow, tables
<1>4. ASSUME NEW w \in Worker, Abort(w)
      PROVE  ReplyInv'
  <2>1. WaitsWithKey'
    BY <1>4, KeyWait DEF Abort, Idle
  <2>. QED
    BY <1>4, <2>1, SilentStep DEF Abort, tables
<1>5. ASSUME NEW w \in Worker, KeyReplay(w)
      PROVE  ReplyInv'
  BY <1>5, ReplayStep
<1>6. ASSUME NEW w \in Worker, NEW c \in Customer, CommitCreate(w, c)
      PROVE  ReplyInv'
  <2>. DEFINE req == exec[w].req
              e   == RecordOf(c, NoRow, CreatedRow(req), req)
  <2>1. Backs(e, Response(c, CreatedRow(req)), req.actor, req.op)
    BY DEF Backs, RecordOf, Response
  <2>2. Answer(w, c, CreatedRow(req)) /\ audit' = audit \cup {e} /\ req.op = "create"
    BY <1>6 DEF CommitCreate
  <2>. QED
    BY <2>1, <2>2, AnswerStep
<1>7. ASSUME NEW w \in Worker, CommitChange(w)
      PROVE  ReplyInv'
  <2>. DEFINE req == exec[w].req
              c   == req.customer
              old == exec[w].snap
              new == WrittenRow(old, req)
              e   == RecordOf(c, old, new, req)
  <2>1. req \in Requests /\ c \in Customer /\ old \in Row
    <3>1. c \in Customer /\ req \in Requests
      BY <1>7, ChangeStep
    <3>2. old = rows[c]
      BY <1>7 DEF CommitChange, LockInv, SnapshotCurrent
    <3>. QED
      BY <3>1, <3>2 DEF LockInv, Shape
  <2>2. Backs(e, Response(c, new), req.actor, req.op)
    BY DEF Backs, RecordOf, Response
  <2>3. Answer(w, c, new) /\ audit' = audit \cup {e} /\ Check(old, req)
    BY <1>7 DEF CommitChange
  <2>4. new.version = req.expected + 1
    BY <2>1, <2>3, NextVersion
  <2>. HIDE DEF req, c, old, new, e
  <2>. QED
    BY <2>1, <2>2, <2>3, <2>4, AnswerStep DEF req, c
<1>. QED
  BY <1>1, <1>2, <1>3, <1>4, <1>5, <1>6, <1>7 DEF Next

LEMMA RepliesInvariant == Spec => []ReplyInv
<1>1. Init => ReplyInv
  BY DEF Init, Life!Init, Idle, ReplyInv, RepliesBacked, StoredBacked, OneRowPerScope, WaitsWithKey,
         AnsweredAsStored, AnsweredNextVersion
<1>2. LockInv /\ [Next]_vars => LockInv'
  BY Step
<1>3. LockInv /\ ReplyInv /\ [Next]_vars => ReplyInv'
  BY ReplyNext
<1>. QED
  BY InvInit, <1>1, <1>2, <1>3, PTL DEF Spec

\* Every success response, fresh or replayed, stands for a committed change.
THEOREM SuccessIsCommitted == Spec => []RepliesBacked
<1>1. ReplyInv => RepliesBacked
  BY DEF ReplyInv
<1>. QED
  BY <1>1, RepliesInvariant, PTL

\* However often a call is sent and however its executions overlap, all its
\* success responses are one.
THEOREM CallsHaveOneOutcome == Spec => []OneOutcome
<1>1. ReplyInv /\ VersionsContiguous => OneOutcome
  <2>. SUFFICES ASSUME ReplyInv, VersionsContiguous, NEW a \in replies, NEW b \in replies,
                       SameCall(a.req, b.req), Keyed(a.req) \/ a.req.op # "create"
                PROVE  a.response = b.response
    BY DEF OneOutcome
  <2>1. CASE Keyed(a.req)
    BY <2>1 DEF SameCall, ReplyInv, AnsweredAsStored, OneRowPerScope
  <2>2. CASE ~Keyed(a.req)
    <3>1. a.req = b.req /\ a.req.op # "create"
      BY <2>2 DEF SameCall
    <3>2. PICK e \in audit :
            /\ e.customer \in Customer
            /\ e.customer = a.req.customer /\ e.version = a.req.expected + 1
            /\ a.response = [customer |-> e.customer, version |-> e.version, status |-> e.status]
      BY <2>2, <3>1 DEF ReplyInv, AnsweredNextVersion
    <3>3. PICK f \in audit :
            /\ f.customer = a.req.customer /\ f.version = a.req.expected + 1
            /\ b.response = [customer |-> f.customer, version |-> f.version, status |-> f.status]
      BY <2>2, <3>1 DEF ReplyInv, AnsweredNextVersion
    <3>4. e = f
      BY <3>2, <3>3 DEF VersionsContiguous, Life!VersionsContiguous, Life!AuditOf
    <3>. QED
      BY <3>2, <3>3, <3>4
  <2>. QED
    BY <2>1, <2>2
<1>. QED
  BY <1>1, RepliesInvariant, AuditNumbered, PTL

=============================================================================
