------------------------------ MODULE CustomerApi ------------------------------
(***************************************************************************)
(* The Customer Management Lambda: each invocation serves one call in one  *)
(* READ COMMITTED transaction (handler.execute, shared/database.py).  A    *)
(* client that got no answer sends the same call again, possibly while the *)
(* first invocation still runs, so any call of Requests may be served any  *)
(* number of times, by any number of invocations at once.                  *)
(*                                                                         *)
(* PostgreSQL is modelled by what the code relies on: a transaction-level  *)
(* advisory lock per idempotency scope, the row lock of FOR UPDATE, reads  *)
(* that see what is committed when they run, writes that appear at commit  *)
(* and are gone after a rollback.                                          *)
(***************************************************************************)
EXTENDS CustomerWorkflow

CONSTANT Worker   \* concurrent invocations

VARIABLES rows, audit, reviews,   \* as in CustomerLifecycle
          idempotency,            \* set of platform.idempotency rows
          exec,                   \* [Worker -> the invocation it runs]
          replies                 \* the success responses produced so far

tables == <<rows, audit, reviews, idempotency, replies>>
vars == <<rows, audit, reviews, idempotency, exec, replies>>

Life == INSTANCE CustomerLifecycle WITH rows <- rows, audit <- audit, reviews <- reviews

\* pc "key": before the advisory lock; "row": before the FOR UPDATE read;
\* "write": holding every lock it needs, with the row it has read in snap.
Idle == [pc |-> "idle"]

Invocation == [pc: {"key", "row", "write"}, req: Requests, snap: Row]

\* (actor_id, operation, key); the operation is the method and path, which
\* names the customer except for a creation.
Scope(req) == <<req.actor, req.op, IF req.op = "create" THEN NoUser ELSE req.customer, req.key>>

\* The SHA-256 over the validated body and the If-Match version.
Fingerprint(req) == <<req.expected, req.name, req.providers, req.primary, req.reason>>

Keyed(req) == req.key # ""

\* The body of a success response: the customer as the call left it.
Response(c, row) == [customer |-> c, version |-> row.version, status |-> row.status]

Run(w, pc, req, snap) ==
  exec' = [exec EXCEPT ![w] = [pc |-> pc, req |-> req, snap |-> snap]]

HoldsKey(w, req) ==
  /\ exec[w].pc \in {"row", "write"}
  /\ Keyed(exec[w].req)
  /\ Scope(exec[w].req) = Scope(req)

\* Mutant: the row is read without FOR UPDATE.
HoldsRow_Never(w, c) == FALSE

HoldsRow(w, c) ==
  /\ exec[w].pc = "write"
  /\ exec[w].req.op # "create"
  /\ exec[w].req.customer = c

\* A creation reads no row; every other operation locks one first.
AfterKey(req) == IF req.op = "create" THEN "write" ELSE "row"

-----------------------------------------------------------------------------

Init ==
  /\ Life!Init
  /\ idempotency = {}
  /\ exec = [w \in Worker |-> Idle]
  /\ replies = {}

\* The handler's checks before any lock: role, entitlement, and the unlocked
\* repository.get of the customer.
Begin(w, req) ==
  /\ exec[w] = Idle
  /\ CheckRole(req)
  /\ IF req.op = "create" THEN req.actor \in CanCreate
                          ELSE rows[req.customer].status # "NONE"
  /\ Run(w, IF Keyed(req) THEN "key" ELSE AfterKey(req), req, NoRow)
  /\ UNCHANGED tables

\* idempotency_get: lock the scope, then look the key up.
KeyLocked(w) ==
  /\ exec[w].pc = "key"
  /\ \A v \in Worker \ {w} : ~HoldsKey(v, exec[w].req)

Cached(req) == {e \in idempotency : e.scope = Scope(req)}

KeyMiss(w) ==
  /\ KeyLocked(w)
  /\ Cached(exec[w].req) = {}
  /\ Run(w, AfterKey(exec[w].req), exec[w].req, NoRow)
  /\ UNCHANGED tables

\* A key met again: the stored response if the request is the same one
\* (and IDEMPOTENCY_CONFLICT, an Abort, if it is not).
KeyReplay(w) ==
  /\ KeyLocked(w)
  /\ \E e \in Cached(exec[w].req) :
       /\ e.fingerprint = Fingerprint(exec[w].req)
       /\ replies' = replies \cup {[req |-> exec[w].req, response |-> e.response]}
  /\ exec' = [exec EXCEPT ![w] = Idle]
  /\ UNCHANGED <<rows, audit, reviews, idempotency>>

\* repository.get(lock=True).
LockRow(w) ==
  /\ exec[w].pc = "row"
  /\ \A v \in Worker \ {w} : ~HoldsRow(v, exec[w].req.customer)
  /\ Run(w, "write", exec[w].req, rows[exec[w].req.customer])
  /\ UNCHANGED tables

\* What every successful operation does last: idempotency_put when there is a
\* key, COMMIT, respond.
Answer(w, c, row) ==
  LET req == exec[w].req IN
  /\ Keyed(req) => Cached(req) = {}   \* PRIMARY KEY (actor_id, operation, key)
  /\ idempotency' = IF Keyed(req)
       THEN idempotency \cup {[scope |-> Scope(req), fingerprint |-> Fingerprint(req),
                               response |-> Response(c, row)]}
       ELSE idempotency
  /\ replies' = replies \cup {[req |-> req, response |-> Response(c, row)]}
  /\ exec' = [exec EXCEPT ![w] = Idle]

CommitCreate(w, c) ==
  LET req == exec[w].req IN
  /\ exec[w].pc = "write"
  /\ req.op = "create"
  /\ rows[c].status = "NONE"
  /\ NameFree(rows, c, req.name)
  /\ rows' = [rows EXCEPT ![c] = CreatedRow(req)]
  /\ audit' = audit \cup {RecordOf(c, NoRow, CreatedRow(req), req)}
  /\ UNCHANGED reviews
  /\ Answer(w, c, CreatedRow(req))

\* update and transition, computed from the row the invocation has read.
CommitChange(w) ==
  LET req == exec[w].req
      c   == req.customer
      old == exec[w].snap
      new == WrittenRow(old, req) IN
  /\ exec[w].pc = "write"
  /\ req.op # "create"
  /\ Check(old, req)
  /\ req.op = "update" => NameFree(rows, c, req.name)
  /\ Reviews(req.op) => Life!ReviewInsertable(ReviewOf(c, old, req))
  /\ rows' = [rows EXCEPT ![c] = new]
  /\ audit' = audit \cup {RecordOf(c, old, new, req)}
  /\ reviews' = IF Reviews(req.op) THEN reviews \cup {ReviewOf(c, old, req)} ELSE reviews
  /\ Answer(w, c, new)

\* Mutant: the idempotency row is written outside the transaction, before the
\* change it stands for.
Abort_KeyStays(w) ==
  /\ exec[w] # Idle
  /\ exec' = [exec EXCEPT ![w] = Idle]
  /\ idempotency' =
       IF exec[w].pc = "write" /\ Keyed(exec[w].req) /\ exec[w].req.op # "create"
       THEN idempotency \cup
              {[scope |-> Scope(exec[w].req), fingerprint |-> Fingerprint(exec[w].req),
                response |-> Response(exec[w].req.customer,
                                      WrittenRow(exec[w].snap, exec[w].req))]}
       ELSE idempotency
  /\ UNCHANGED <<rows, audit, reviews, replies>>

\* A check that fails, a unique index, lock_timeout, statement_timeout, access
\* revoked, a crash or the end of the Lambda: the transaction rolls back.
Abort(w) ==
  /\ exec[w] # Idle
  /\ exec' = [exec EXCEPT ![w] = Idle]
  /\ UNCHANGED tables

Next ==
  \E w \in Worker :
    \/ \E req \in Requests : Begin(w, req)
    \/ KeyMiss(w) \/ KeyReplay(w) \/ LockRow(w)
    \/ \E c \in Customer : CommitCreate(w, c)
    \/ CommitChange(w) \/ Abort(w)

Spec == Init /\ [][Next]_vars

-----------------------------------------------------------------------------

\* Two calls the service is told are one: equal unkeyed calls, or calls with
\* the same key in the same scope.
SameCall(r, s) == IF Keyed(r) THEN Keyed(s) /\ Scope(r) = Scope(s) ELSE r = s

\* However often a call is sent and however its executions overlap, every
\* success response it gets is the same one: a retry neither applies the
\* change twice nor reports another result.  Exempt is a creation without a
\* key, which only the live-name index holds back (idempotency_get,
\* check_version).
OneOutcome ==
  \A a, b \in replies :
    SameCall(a.req, b.req) /\ (Keyed(a.req) \/ a.req.op # "create")
    => a.response = b.response

\* A success response, fresh or replayed, is backed by the audit entry of a
\* change that was committed: an aborted transaction leaves no trace that a
\* later retry could take for a result.
RepliesBacked ==
  \A a \in replies :
    \E e \in audit :
      /\ e.customer = a.response.customer /\ e.version = a.response.version
      /\ e.status = a.response.status     /\ e.by = a.req.actor
      /\ e.op = a.req.op

\* Whoever decides on a row decides on the committed one: the row read under
\* the lock is still current when the transaction commits.
SnapshotCurrent ==
  \A w \in Worker :
    exec[w].pc = "write" /\ exec[w].req.op # "create" =>
      exec[w].snap = rows[exec[w].req.customer]

\* Overlapping transactions have the effect of one-at-a-time requests.
ImplementsLifecycle == Life!Spec

\* What CustomerLifecycle promises, of the committed rows of the transactions:
\* versions are numbered without a gap and without a repetition (record),
VersionsContiguous == Life!VersionsContiguous

\* the entries of the audit log join end to end (record),
AuditChain == Life!AuditChain

\* nobody approves what they created or submitted (check_transition),
ApprovedIndependently == Life!ApprovedIndependently

\* in any review cycle, however often it was submitted again (repo.review),
EveryReviewIndependent == Life!EveryReviewIndependent

\* and no edit undoes what a submission validated (check_edit).
GovernedComplete == Life!GovernedComplete

=============================================================================
