----------------------- MODULE WorkspaceCollectionProofs -----------------------
(* Theorems about WorkspaceCollection, for every set of jobs, workspaces and    *)
(* workers, every length of a lease and every number of requests.               *)
EXTENDS WorkspaceCollection, TLAPS

--------------------------------------------------------------------------------
(* The inductive invariant *)

\* What a version of a row says, n leases after it was inserted.
RowOK(row, n) ==
  /\ row.status = "SUCCEEDED" <=> row.object # 0
  /\ row.object # 0 => row.object = n
  /\ row.status = "RUNNING" => row.token = n /\ n # 0
  /\ row.status = "QUEUED" => row.attempts = 0

RowsOK ==
  \A j \in Job :
    /\ RowOK(job[j], issued[j])
    /\ RowOK(jobDraft[j], issued[j])
    /\ job[j].status = "SUCCEEDED" => jobDraft[j] = job[j]

\* Only a transaction that is open holds locks.
Locking ==
  /\ \A j \in Job :
       /\ jobLock[j] = NoOne => jobDraft[j] = job[j]
       /\ jobLock[j] # NoOne => pc[jobLock[j]] \in {"queueing", "claiming", "settling"}
  /\ \A s \in Workspace :
       workspaceLock[s] # NoOne =>
         pc[workspaceLock[s]] \in {"queueing", "claiming", "settling"}

IsOpen(row) == row.status \in Open

\* A transaction that opened or ended a job has settled its workspace, and holds
\* its lock, or has still to do so; and what it settled stays true.
Settling ==
  /\ \A s \in Workspace : workspaceLock[s] # NoOne =>
       (workspaceDraft[s] = "COLLECTING" <=>
          \E j \in JobsOf(s) : IsOpen(Seen(workspaceLock[s], j)))
  /\ \A j \in Job :
       (jobLock[j] # NoOne /\ ~(IsOpen(jobDraft[j]) <=> IsOpen(job[j]))) =>
         \/ WorkspaceOf[j] \in unsettled[jobLock[j]]
         \/ workspaceLock[WorkspaceOf[j]] = jobLock[j]
  /\ \A s \in Workspace : workspaceLock[s] = Requester => queue = {}
  /\ \A j \in queue : WorkspaceOf[j] \in unsettled[Requester]

Inv == TypeOK /\ RowsOK /\ Locking /\ Settling /\ StatusTruthful
--------------------------------------------------------------------------------
(* Types *)

Statuses == {"PLANNED", "COLLECTING", "PARTIAL"}

\* The end of a transaction keeps the types of what it writes and releases.
LEMMA ReleaseTypes ==
  ASSUME TypeOK, NEW a \in Actor, Release(a)
  PROVE  /\ jobLock' \in [Job -> Actor \cup {NoOne}]
         /\ workspaceLock' \in [Workspace -> Actor \cup {NoOne}]
         /\ unsettled' \in [Actor -> SUBSET Workspace]
  BY DEF Release, TypeOK

LEMMA CommitTypes ==
  ASSUME TypeOK, NEW a \in Actor, CommitStatuses(a)
  PROVE  /\ Committed(a) \in [Job -> Row]
         /\ workspace' \in [Workspace -> Statuses]
         /\ workspaceDraft' \in [Workspace -> Statuses]
  BY DEF CommitStatuses, Committed, Seen, TypeOK, Statuses

LEMMA RollbackTypes ==
  ASSUME TypeOK, NEW a \in Actor, Rollback(a)
  PROVE  /\ jobDraft' \in [Job -> Row]
         /\ workspaceDraft' \in [Workspace -> Statuses]
         /\ jobLock' \in [Job -> Actor \cup {NoOne}]
         /\ workspaceLock' \in [Workspace -> Actor \cup {NoOne}]
         /\ unsettled' \in [Actor -> SUBSET Workspace]
  BY ReleaseTypes DEF Rollback, TypeOK, Statuses

\* The rows the code writes are rows: a job that is given was QUEUED, with no
\* attempt made, or has attempts left.
LEMMA WrittenRows ==
  ASSUME TypeOK, RowsOK
  PROVE  /\ \A j \in Job : Queued(job[j]) \in Row
         /\ \A w \in Worker : Finished(w) \in Row
         /\ \A w \in Worker : \A j \in Candidates(w) : Taken(j) \in Row
<1>1. \A j \in Job : Queued(job[j]) \in Row
  BY DEF TypeOK, Queued, Row, MaxAttempts
<1>2. \A w \in Worker : Finished(w) \in Row
  BY DEF TypeOK, Finished, Row, MaxAttempts
<1>3. ASSUME NEW w \in Worker, NEW j \in Candidates(w) PROVE Taken(j) \in Row
  <2>1. j \in Job
    BY DEF Candidates
  <2>2. job[j].attempts \in 0 .. MaxAttempts - 1
    BY <2>1 DEF TypeOK, Row, RowsOK, RowOK, Candidates, Claimable, MaxAttempts
  <2>. QED
    BY <2>1, <2>2 DEF TypeOK, Row, Taken, MaxAttempts
<1>. QED
  BY <1>1, <1>2, <1>3

LEMMA TypeStep == TypeOK /\ RowsOK /\ [Next]_vars => TypeOK'
<1> SUFFICES ASSUME TypeOK, RowsOK, [Next]_vars PROVE TypeOK'
  OBVIOUS
<1> USE WorkspaceOfAssumption, BoundAssumption, ActorAssumption DEF TypeOK, Actor
<1>1. ASSUME NEW s \in Workspace, NEW kind \in Kind, Request(s, kind) PROVE TypeOK'
  BY <1>1 DEF Request, locks, JobsOf
<1>2. ASSUME NEW j \in Job, QueueJob(j) PROVE TypeOK'
  BY <1>2, WrittenRows DEF QueueJob
<1>3. ASSUME NEW j \in Job, Tick(j) PROVE TypeOK'
  BY <1>3 DEF Tick, locks
<1>4. ASSUME NEW a \in Actor, NEW s \in Workspace, Settle(a, s) PROVE TypeOK'
  BY <1>4 DEF Settle, SettledStatus
<1>5. CASE CommitRequest
  BY <1>5, ReleaseTypes, CommitTypes DEF CommitRequest, Statuses
<1>6. CASE AbortRequest
  BY <1>6, RollbackTypes DEF AbortRequest, Rollback, Statuses
<1>7. ASSUME NEW w \in Worker, BeginClaim(w) PROVE TypeOK'
  BY <1>7 DEF BeginClaim, Exhausted, Row
<1>8. ASSUME NEW w \in Worker, NEW j \in Job, ClaimJob(w, j) PROVE TypeOK'
  <2>1. Taken(j) \in Row /\ w \in Actor
    BY <1>8, WrittenRows DEF ClaimJob
  <2>2. job' \in [Job -> Row] /\ jobDraft' \in [Job -> Row]
    BY <1>8, <2>1, CommitTypes DEF ClaimJob
  <2>3. issued' \in [Job -> Nat] /\ timeLeft' \in [Job -> 0 .. LeaseTime]
    BY <1>8 DEF ClaimJob
  <2>4. held' \in [Worker -> [job : Job, token : Nat]]
    BY <1>8 DEF ClaimJob
  <2>. QED
    BY <1>8, <2>1, <2>2, <2>3, <2>4, ReleaseTypes, CommitTypes DEF ClaimJob, Statuses
<1>9. ASSUME NEW w \in Worker, ClaimNothing(w) PROVE TypeOK'
  BY <1>9, ReleaseTypes, CommitTypes DEF ClaimNothing, Statuses
<1>10. ASSUME NEW w \in Worker, Renew(w) PROVE TypeOK'
  BY <1>10 DEF Renew, locks
<1>11. ASSUME NEW w \in Worker, BeginFinish(w) PROVE TypeOK'
  BY <1>11 DEF BeginFinish, locks
<1>12. ASSUME NEW w \in Worker, FinishJob(w) PROVE TypeOK'
  BY <1>12, WrittenRows DEF FinishJob
<1>13. ASSUME NEW w \in Worker, FinishRejected(w) PROVE TypeOK'
  BY <1>13 DEF FinishRejected, locks
<1>14. ASSUME NEW w \in Worker, CommitFinish(w) PROVE TypeOK'
  <2>1. pc' \in [Actor -> {"idle", "queueing", "claiming", "collecting", "publishing",
                           "failing", "settling"}]
    BY <1>14 DEF CommitFinish, AfterException
  <2>2. live' \in [Worker -> BOOLEAN]
    <3>1. CASE UNCHANGED live
      BY <3>1
    <3>2. CASE AfterException(w)
      BY <3>2 DEF AfterException
    <3>. QED
      BY <1>14, <3>1, <3>2 DEF CommitFinish
  <2>3. pc'[Requester] = pc[Requester]
    BY <1>14 DEF CommitFinish, AfterException
  <2>. QED
    BY <1>14, <2>1, <2>2, <2>3, ReleaseTypes, CommitTypes DEF CommitFinish, Statuses
<1>15. ASSUME NEW w \in Worker, AbortFinish(w) PROVE TypeOK'
  BY <1>15, RollbackTypes DEF AbortFinish, AfterException, Rollback, Statuses
<1>16. ASSUME NEW w \in Worker, Crash(w) PROVE TypeOK'
  BY <1>16, RollbackTypes DEF Crash, Rollback, Statuses
<1>17. CASE UNCHANGED vars
  BY <1>17 DEF vars, locks
<1>. QED
  BY <1>1, <1>2, <1>3, <1>4, <1>5, <1>6, <1>7, <1>8, <1>9, <1>10, <1>11, <1>12, <1>13,
     <1>14, <1>15, <1>16, <1>17 DEF Next

--------------------------------------------------------------------------------
(* Rows *)

\* A row that was SUCCEEDED when its lock was taken is committed unchanged, and
\* no lease is given while the row is locked.
LEMMA CommittedRows ==
  ASSUME RowsOK, NEW a \in Actor, NEW j \in Job
  PROVE  /\ RowOK(Committed(a)[j], issued[j])
         /\ job[j].status = "SUCCEEDED" => Committed(a)[j] = job[j]
         /\ Committed(a)[j] = job[j] \/ Committed(a)[j] = jobDraft[j]
  BY DEF RowsOK, Committed, Seen

LEMMA RowsKept ==
  ASSUME RowsOK, UNCHANGED <<job, jobDraft, issued>>
  PROVE  RowsOK'
  BY DEF RowsOK, RowOK

LEMMA CommitRows ==
  ASSUME RowsOK, Locking, NEW a \in Actor,
         job' = Committed(a), UNCHANGED <<jobDraft, issued>>
  PROVE  RowsOK'
<1>. SUFFICES ASSUME NEW j \in Job
              PROVE  /\ RowOK(job'[j], issued[j])
                     /\ RowOK(jobDraft[j], issued[j])
                     /\ job'[j].status = "SUCCEEDED" => jobDraft[j] = job'[j]
  BY DEF RowsOK, RowOK
<1>1. RowOK(job'[j], issued[j]) /\ RowOK(jobDraft[j], issued[j])
  BY CommittedRows DEF RowsOK
<1>2. job'[j].status = "SUCCEEDED" => jobDraft[j] = job'[j]
  BY CommittedRows DEF RowsOK
<1>. QED
  BY <1>1, <1>2

LEMMA RollbackRows ==
  ASSUME RowsOK, NEW a \in Actor, Rollback(a), UNCHANGED issued
  PROVE  RowsOK'
<1>. SUFFICES ASSUME NEW j \in Job
              PROVE  /\ RowOK(job[j], issued[j])
                     /\ RowOK(jobDraft'[j], issued[j])
                     /\ job[j].status = "SUCCEEDED" => jobDraft'[j] = job[j]
  BY DEF RowsOK, RowOK, Rollback
<1>. QED
  BY DEF RowsOK, Rollback

\* A statement that writes the drafts of rows nobody had locked.
LEMMA DraftRows ==
  ASSUME RowsOK, UNCHANGED <<job, issued>>,
         \A j \in Job : \/ jobDraft'[j] = jobDraft[j]
                        \/ /\ job[j].status # "SUCCEEDED"
                           /\ RowOK(jobDraft'[j], issued[j])
  PROVE  RowsOK'
<1>. SUFFICES ASSUME NEW j \in Job
              PROVE  /\ RowOK(job[j], issued[j])
                     /\ RowOK(jobDraft'[j], issued[j])
                     /\ job[j].status = "SUCCEEDED" => jobDraft'[j] = job[j]
  BY DEF RowsOK, RowOK
<1>. QED
  BY DEF RowsOK

LEMMA RowsStep == TypeOK /\ RowsOK /\ Locking /\ [Next]_vars => RowsOK'
<1> SUFFICES ASSUME TypeOK, RowsOK, Locking, [Next]_vars PROVE RowsOK'
  OBVIOUS
<1>1. ASSUME NEW s \in Workspace, NEW kind \in Kind, Request(s, kind) PROVE RowsOK'
  BY <1>1, RowsKept DEF Request
<1>2. ASSUME NEW j \in Job, QueueJob(j) PROVE RowsOK'
  <2>1. jobDraft' = [jobDraft EXCEPT ![j] = Queued(job[j])] /\ UNCHANGED <<job, issued>>
    BY <1>2 DEF QueueJob
  <2>2. jobDraft[j] = job[j]
    BY <1>2 DEF QueueJob, Locking
  <2>3. CASE job[j].status \in {"ABSENT", "FAILED"}
    <3>1. RowOK(Queued(job[j]), issued[j])
      BY <2>3 DEF RowsOK, RowOK, Queued
    <3>. QED
      BY <2>1, <2>3, <3>1, DraftRows DEF TypeOK
  <2>4. CASE job[j].status \notin {"ABSENT", "FAILED"}
    <3>1. \A k \in Job : jobDraft'[k] = jobDraft[k]
      BY <2>1, <2>2, <2>4 DEF TypeOK, Queued
    <3>. QED
      BY <2>1, <3>1, DraftRows
  <2>. QED
    BY <2>3, <2>4
<1>3. ASSUME NEW j \in Job, Tick(j) PROVE RowsOK'
  BY <1>3, RowsKept DEF Tick
<1>4. ASSUME NEW a \in Actor, NEW s \in Workspace, Settle(a, s) PROVE RowsOK'
  BY <1>4, RowsKept DEF Settle
<1>5. CASE CommitRequest
  BY <1>5, CommitRows DEF CommitRequest, Actor
<1>6. CASE AbortRequest
  BY <1>6, RollbackRows DEF AbortRequest, Actor
<1>7. ASSUME NEW w \in Worker, BeginClaim(w) PROVE RowsOK'
  <2>1. ASSUME NEW j \in Job
        PROVE  \/ jobDraft'[j] = jobDraft[j]
               \/ job[j].status # "SUCCEEDED" /\ RowOK(jobDraft'[j], issued[j])
    BY <1>7 DEF BeginClaim, Exhausted, Expired, RowsOK, RowOK
  <2>. QED
    BY <1>7, <2>1, DraftRows DEF BeginClaim
<1>8. ASSUME NEW w \in Worker, NEW j \in Job, ClaimJob(w, j) PROVE RowsOK'
  <2>1. /\ job' = [Committed(w) EXCEPT ![j] = Taken(j)]
        /\ jobDraft' = [jobDraft EXCEPT ![j] = Taken(j)]
        /\ issued' = [issued EXCEPT ![j] = @ + 1]
    BY <1>8 DEF ClaimJob
  <2>2. job[j].status # "SUCCEEDED" /\ job[j].object = 0
    BY <1>8 DEF ClaimJob, Candidates, Claimable, Expired, RowsOK, RowOK
  <2>3. RowOK(Taken(j), issued[j] + 1) /\ Taken(j).status # "SUCCEEDED"
    BY <2>2 DEF Taken, RowOK, TypeOK
  <2>4. ASSUME NEW k \in Job
        PROVE  /\ RowOK(job'[k], issued'[k])
               /\ RowOK(jobDraft'[k], issued'[k])
               /\ job'[k].status = "SUCCEEDED" => jobDraft'[k] = job'[k]
    <3>1. CASE k = j
      <4>1. job'[k] = Taken(j) /\ jobDraft'[k] = Taken(j) /\ issued'[k] = issued[j] + 1
        BY <2>1, <3>1 DEF TypeOK, Committed
      <4>. QED
        BY <2>3, <4>1
    <3>2. CASE k # j
      <4>1. /\ job'[k] = Committed(w)[k]
            /\ jobDraft'[k] = jobDraft[k] /\ issued'[k] = issued[k]
        BY <2>1, <3>2 DEF TypeOK, Committed
      <4>2. w \in Actor
        BY DEF Actor
      <4>. QED
        BY <4>1, <4>2, CommittedRows DEF RowsOK
    <3>. QED
      BY <3>1, <3>2
  <2>. QED
    BY <2>4 DEF RowsOK, RowOK
<1>9. ASSUME NEW w \in Worker, ClaimNothing(w) PROVE RowsOK'
  BY <1>9, CommitRows DEF ClaimNothing, Actor
<1>10. ASSUME NEW w \in Worker, Renew(w) PROVE RowsOK'
  BY <1>10, RowsKept DEF Renew
<1>11. ASSUME NEW w \in Worker, BeginFinish(w) PROVE RowsOK'
  BY <1>11, RowsKept DEF BeginFinish
<1>12. ASSUME NEW w \in Worker, FinishJob(w) PROVE RowsOK'
  <2>. DEFINE j == held[w].job
  <2>1. j \in Job
    BY DEF TypeOK
  <2>2. /\ job[j].status = "RUNNING" /\ job[j].token = held[w].token
        /\ jobDraft' = [jobDraft EXCEPT ![j] = Finished(w)]
        /\ UNCHANGED <<job, issued>>
    BY <1>12 DEF FinishJob, Accepted
  <2>3. held[w].token = issued[j] /\ issued[j] # 0 /\ job[j].object = 0
    BY <2>1, <2>2 DEF RowsOK, RowOK
  <2>4. RowOK(Finished(w), issued[j])
    BY <2>3 DEF RowOK, Finished
  <2>. QED
    BY <2>1, <2>2, <2>4, DraftRows DEF TypeOK
<1>13. ASSUME NEW w \in Worker, FinishRejected(w) PROVE RowsOK'
  BY <1>13, RowsKept DEF FinishRejected
<1>14. ASSUME NEW w \in Worker, CommitFinish(w) PROVE RowsOK'
  BY <1>14, CommitRows DEF CommitFinish, Actor
<1>15. ASSUME NEW w \in Worker, AbortFinish(w) PROVE RowsOK'
  BY <1>15, RollbackRows DEF AbortFinish, Actor
<1>16. ASSUME NEW w \in Worker, Crash(w) PROVE RowsOK'
  BY <1>16, RollbackRows DEF Crash, Actor
<1>17. CASE UNCHANGED vars
  BY <1>17, RowsKept DEF vars
<1>. QED
  BY <1>1, <1>2, <1>3, <1>4, <1>5, <1>6, <1>7, <1>8, <1>9, <1>10, <1>11, <1>12, <1>13,
     <1>14, <1>15, <1>16, <1>17 DEF Next

--------------------------------------------------------------------------------
(* Locks *)

OpenTransaction == {"queueing", "claiming", "settling"}

LEMMA EndLocking ==
  ASSUME TypeOK, Locking, NEW a \in Actor, Release(a),
         \A b \in Actor \ {a} : pc'[b] = pc[b],
         \A j \in Job : \/ jobDraft'[j] = job'[j]
                        \/ /\ jobLock[j] # a
                           /\ jobDraft'[j] = jobDraft[j]
                           /\ job'[j] = job[j]
  PROVE  Locking'
<1>1. ASSUME NEW j \in Job
      PROVE  /\ jobLock'[j] = NoOne => jobDraft'[j] = job'[j]
             /\ jobLock'[j] # NoOne => pc'[jobLock'[j]] \in OpenTransaction
  BY DEF Release, Locking, TypeOK, OpenTransaction
<1>2. ASSUME NEW s \in Workspace
      PROVE  workspaceLock'[s] # NoOne => pc'[workspaceLock'[s]] \in OpenTransaction
  BY DEF Release, Locking, TypeOK, OpenTransaction
<1>. QED
  BY <1>1, <1>2 DEF Locking, OpenTransaction

\* A statement locks rows that were free for a transaction that stays open.
LEMMA WriteLocking ==
  ASSUME TypeOK, Locking, NEW a \in Actor,
         UNCHANGED <<job, workspaceLock>>,
         pc'[a] \in OpenTransaction,
         \A b \in Actor \ {a} : pc'[b] = pc[b],
         \A j \in Job : \/ jobLock'[j] = a
                        \/ jobLock'[j] = jobLock[j] /\ jobDraft'[j] = jobDraft[j]
  PROVE  Locking'
<1>. USE ActorAssumption DEF Actor
<1>1. ASSUME NEW j \in Job
      PROVE  /\ jobLock'[j] = NoOne => jobDraft'[j] = job'[j]
             /\ jobLock'[j] # NoOne => pc'[jobLock'[j]] \in OpenTransaction
  BY DEF Locking, TypeOK, OpenTransaction
<1>2. ASSUME NEW s \in Workspace
      PROVE  workspaceLock'[s] # NoOne => pc'[workspaceLock'[s]] \in OpenTransaction
  BY DEF Locking, TypeOK, OpenTransaction
<1>. QED
  BY <1>1, <1>2 DEF Locking, OpenTransaction

\* A step outside a transaction.
LEMMA LockingKept ==
  ASSUME TypeOK, Locking, UNCHANGED <<job, jobDraft, locks>>,
         \A b \in Actor : pc[b] \in OpenTransaction => pc'[b] = pc[b]
  PROVE  Locking'
  BY DEF Locking, TypeOK, OpenTransaction, locks

LEMMA LockingStep == TypeOK /\ Locking /\ [Next]_vars => Locking'
<1> SUFFICES ASSUME TypeOK, Locking, [Next]_vars PROVE Locking'
  OBVIOUS
<1>0. Requester \in Actor /\ Worker \subseteq Actor
  BY DEF Actor
<1>a. \A a \in Actor, j \in Job : Committed(a)[j] =
        IF jobLock[j] = a THEN jobDraft[j] ELSE job[j]
  BY DEF Committed, Seen
<1>1. ASSUME NEW s \in Workspace, NEW kind \in Kind, Request(s, kind) PROVE Locking'
  BY <1>1, LockingKept DEF Request, TypeOK, OpenTransaction
<1>2. ASSUME NEW j \in Job, QueueJob(j) PROVE Locking'
  BY <1>0, <1>2, WriteLocking DEF QueueJob, TypeOK, OpenTransaction
<1>3. ASSUME NEW j \in Job, Tick(j) PROVE Locking'
  BY <1>3, LockingKept DEF Tick
<1>4. ASSUME NEW a \in Actor, NEW s \in Workspace, Settle(a, s) PROVE Locking'
  BY <1>4 DEF Settle, Locking, TypeOK
<1>5. CASE CommitRequest
  BY <1>0, <1>a, <1>5, EndLocking DEF CommitRequest, TypeOK
<1>6. CASE AbortRequest
  BY <1>0, <1>6, EndLocking DEF AbortRequest, Rollback, TypeOK
<1>7. ASSUME NEW w \in Worker, BeginClaim(w) PROVE Locking'
  BY <1>0, <1>7, WriteLocking DEF BeginClaim, TypeOK, OpenTransaction
<1>8. ASSUME NEW w \in Worker, NEW j \in Job, ClaimJob(w, j) PROVE Locking'
  <2>1. /\ job' = [Committed(w) EXCEPT ![j] = Taken(j)]
        /\ jobDraft' = [jobDraft EXCEPT ![j] = Taken(j)]
        /\ jobLock[j] = NoOne
    BY <1>8 DEF ClaimJob, Candidates
  <2>2. \A k \in Job : \/ jobDraft'[k] = job'[k]
                       \/ /\ jobLock[k] # w
                          /\ jobDraft'[k] = jobDraft[k]
                          /\ job'[k] = job[k]
    BY <1>0, <1>a, <2>1 DEF TypeOK, Committed
  <2>. QED
    BY <1>0, <1>8, <2>2, EndLocking DEF ClaimJob, TypeOK
<1>9. ASSUME NEW w \in Worker, ClaimNothing(w) PROVE Locking'
  BY <1>0, <1>a, <1>9, EndLocking DEF ClaimNothing, TypeOK
<1>10. ASSUME NEW w \in Worker, Renew(w) PROVE Locking'
  BY <1>10, LockingKept DEF Renew
<1>11. ASSUME NEW w \in Worker, BeginFinish(w) PROVE Locking'
  BY <1>11, LockingKept DEF BeginFinish, TypeOK, OpenTransaction
<1>12. ASSUME NEW w \in Worker, FinishJob(w) PROVE Locking'
  BY <1>0, <1>12, WriteLocking DEF FinishJob, TypeOK, OpenTransaction
<1>13. ASSUME NEW w \in Worker, FinishRejected(w) PROVE Locking'
  BY <1>13, LockingKept DEF FinishRejected, TypeOK, OpenTransaction
<1>14. ASSUME NEW w \in Worker, CommitFinish(w) PROVE Locking'
  <2>1. \A b \in Actor \ {w} : pc'[b] = pc[b]
    BY <1>14 DEF CommitFinish, AfterException, TypeOK
  <2>. QED
    BY <1>0, <1>a, <1>14, <2>1, EndLocking DEF CommitFinish
<1>15. ASSUME NEW w \in Worker, AbortFinish(w) PROVE Locking'
  BY <1>0, <1>15, EndLocking DEF AbortFinish, AfterException, Rollback, TypeOK
<1>16. ASSUME NEW w \in Worker, Crash(w) PROVE Locking'
  BY <1>0, <1>16, EndLocking DEF Crash, Rollback, TypeOK
<1>17. CASE UNCHANGED vars
  BY <1>17, LockingKept DEF vars
<1>. QED
  BY <1>1, <1>2, <1>3, <1>4, <1>5, <1>6, <1>7, <1>8, <1>9, <1>10, <1>11, <1>12, <1>13,
     <1>14, <1>15, <1>16, <1>17 DEF Next

--------------------------------------------------------------------------------
(* Settled workspaces *)

\* A transaction that commits has settled every workspace it opened or ended a
\* job of; nobody else had locked those.
LEMMA CommitSettled ==
  ASSUME TypeOK, Settling, StatusTruthful, NEW a \in Actor,
         unsettled[a] = {}, CommitStatuses(a), Release(a), UNCHANGED queue,
         a = Requester => queue = {},
         \A j \in Job : IsOpen(job'[j]) <=> IsOpen(Seen(a, j)),
         \A j \in Job : jobLock[j] \notin {a, NoOne} => jobDraft'[j] = jobDraft[j]
  PROVE  Settling' /\ StatusTruthful'
<1>. USE WorkspaceOfAssumption, ActorAssumption DEF Actor
<1>1. ASSUME NEW j \in Job, workspaceLock[WorkspaceOf[j]] # a
      PROVE  IsOpen(job'[j]) <=> IsOpen(job[j])
  BY <1>1 DEF Settling, Seen, TypeOK
<1>2. StatusTruthful'
  <2>. SUFFICES ASSUME NEW s \in Workspace
                PROVE  workspace'[s] = "COLLECTING" <=> \E j \in JobsOf(s) : IsOpen(job'[j])
    BY DEF StatusTruthful, IsOpen
  <2>1. CASE workspaceLock[s] = a
    <3>1. workspace'[s] = workspaceDraft[s]
      BY <2>1 DEF CommitStatuses
    <3>2. workspaceDraft[s] = "COLLECTING" <=> \E j \in JobsOf(s) : IsOpen(Seen(a, j))
      BY <2>1 DEF Settling
    <3>. QED
      BY <3>1, <3>2 DEF JobsOf
  <2>2. CASE workspaceLock[s] # a
    <3>1. workspace'[s] = workspace[s]
      BY <2>2 DEF CommitStatuses
    <3>2. \A j \in JobsOf(s) : IsOpen(job'[j]) <=> IsOpen(job[j])
      BY <1>1, <2>2 DEF JobsOf
    <3>3. workspace[s] = "COLLECTING" <=> \E j \in JobsOf(s) : IsOpen(job[j])
      BY DEF StatusTruthful, IsOpen
    <3>. QED
      BY <3>1, <3>2, <3>3
  <2>. QED
    BY <2>1, <2>2
<1>3. ASSUME NEW s \in Workspace, workspaceLock'[s] # NoOne
      PROVE  workspaceDraft'[s] = "COLLECTING" <=>
               \E j \in JobsOf(s) : IsOpen(Seen(workspaceLock[s], j)')
  <2>1. workspaceLock'[s] = workspaceLock[s] /\ workspaceLock[s] # a
    BY <1>3 DEF Release
  <2>2. workspaceDraft'[s] = workspaceDraft[s]
    BY DEF CommitStatuses
  <2>3. ASSUME NEW j \in JobsOf(s)
        PROVE  IsOpen(Seen(workspaceLock[s], j)') <=> IsOpen(Seen(workspaceLock[s], j))
    <3>1. j \in Job /\ WorkspaceOf[j] = s
      BY <2>3 DEF JobsOf
    <3>2. CASE jobLock[j] = workspaceLock[s]
      BY <1>3, <2>1, <3>1, <3>2 DEF Release, Seen
    <3>3. CASE jobLock[j] # workspaceLock[s]
      <4>1. jobLock'[j] # workspaceLock[s]
        BY <1>3, <2>1, <3>1, <3>3 DEF Release
      <4>. QED
        BY <1>1, <2>1, <3>1, <3>3, <4>1 DEF Seen
    <3>. QED
      BY <3>2, <3>3
  <2>. QED
    BY <1>3, <2>1, <2>2, <2>3 DEF Settling
<1>4. ASSUME NEW j \in Job, jobLock'[j] # NoOne, ~(IsOpen(jobDraft'[j]) <=> IsOpen(job'[j]))
      PROVE  \/ WorkspaceOf[j] \in unsettled'[jobLock'[j]]
             \/ workspaceLock'[WorkspaceOf[j]] = jobLock'[j]
  <2>1. jobLock'[j] = jobLock[j] /\ jobLock[j] # a
    BY <1>4 DEF Release
  <2>2. jobDraft'[j] = jobDraft[j] /\ (IsOpen(job'[j]) <=> IsOpen(job[j]))
    BY <1>4, <2>1 DEF Seen
  <2>3. \/ WorkspaceOf[j] \in unsettled[jobLock[j]]
        \/ workspaceLock[WorkspaceOf[j]] = jobLock[j]
    BY <1>4, <2>1, <2>2 DEF Settling
  <2>. QED
    BY <2>1, <2>3 DEF Release, TypeOK
<1>5. \A s \in Workspace : workspaceLock'[s] = Requester => queue' = {}
  BY DEF Settling, Release
<1>6. \A j \in queue' : WorkspaceOf[j] \in unsettled'[Requester]
  BY DEF Settling, Release, TypeOK
<1>. QED
  BY <1>2, <1>3, <1>4, <1>5, <1>6 DEF Settling, Seen, Release, TypeOK

LEMMA RollbackSettled ==
  ASSUME TypeOK, Settling, StatusTruthful, NEW a \in Actor, Rollback(a),
         queue' = IF a = Requester THEN {} ELSE queue
  PROVE  Settling' /\ StatusTruthful'
<1>. USE WorkspaceOfAssumption, ActorAssumption DEF Actor
<1>1. StatusTruthful'
  BY DEF StatusTruthful, Rollback
<1>2. ASSUME NEW s \in Workspace, workspaceLock'[s] # NoOne
      PROVE  workspaceDraft'[s] = "COLLECTING" <=>
               \E j \in JobsOf(s) : IsOpen(Seen(workspaceLock[s], j)')
  <2>1. workspaceLock'[s] = workspaceLock[s] /\ workspaceLock[s] # a
    BY <1>2 DEF Rollback, Release
  <2>2. workspaceDraft'[s] = workspaceDraft[s]
    BY <2>1 DEF Rollback
  <2>3. \A j \in JobsOf(s) : Seen(workspaceLock[s], j)' = Seen(workspaceLock[s], j)
    BY <1>2, <2>1 DEF Rollback, Release, Seen, JobsOf
  <2>. QED
    BY <1>2, <2>1, <2>2, <2>3 DEF Settling
<1>3. ASSUME NEW j \in Job, jobLock'[j] # NoOne, ~(IsOpen(jobDraft'[j]) <=> IsOpen(job'[j]))
      PROVE  \/ WorkspaceOf[j] \in unsettled'[jobLock'[j]]
             \/ workspaceLock'[WorkspaceOf[j]] = jobLock'[j]
  <2>1. jobLock'[j] = jobLock[j] /\ jobLock[j] # a
    BY <1>3 DEF Rollback, Release
  <2>2. jobDraft'[j] = jobDraft[j] /\ job'[j] = job[j]
    BY <2>1 DEF Rollback
  <2>3. \/ WorkspaceOf[j] \in unsettled[jobLock[j]]
        \/ workspaceLock[WorkspaceOf[j]] = jobLock[j]
    BY <1>3, <2>1, <2>2 DEF Settling
  <2>. QED
    BY <2>1, <2>3 DEF Rollback, Release, TypeOK
<1>4. \A s \in Workspace : workspaceLock'[s] = Requester => queue' = {}
  BY DEF Settling, Rollback, Release
<1>5. \A j \in queue' : WorkspaceOf[j] \in unsettled'[Requester]
  BY DEF Settling, Rollback, Release, TypeOK
<1>. QED
  BY <1>1, <1>2, <1>3, <1>4, <1>5 DEF Settling, Seen, Rollback, Release, TypeOK

\* A statement writes free rows; its transaction has not settled anything yet,
\* and will settle the workspaces of the rows.
LEMMA WriteSettled ==
  ASSUME TypeOK, Settling, StatusTruthful, NEW a \in Actor,
         \A s \in Workspace : workspaceLock[s] # a,
         UNCHANGED <<job, workspace, workspaceDraft, workspaceLock>>,
         \A j \in Job : \/ jobLock'[j] = jobLock[j] /\ jobDraft'[j] = jobDraft[j]
                        \/ /\ jobLock[j] = NoOne /\ jobLock'[j] = a
                           /\ WorkspaceOf[j] \in unsettled'[a],
         \A b \in Actor \ {a} : unsettled'[b] = unsettled[b],
         unsettled'[a] = unsettled[a] \/ (a # Requester /\ \A j \in Job : jobLock[j] # a),
         queue' \subseteq queue
  PROVE  Settling' /\ StatusTruthful'
<1>. USE WorkspaceOfAssumption, ActorAssumption DEF Actor
<1>1. StatusTruthful'
  BY DEF StatusTruthful
<1>2. ASSUME NEW s \in Workspace, workspaceLock[s] # NoOne
      PROVE  workspaceDraft[s] = "COLLECTING" <=>
               \E j \in JobsOf(s) : IsOpen(Seen(workspaceLock[s], j)')
  <2>1. \A j \in JobsOf(s) : Seen(workspaceLock[s], j)' = Seen(workspaceLock[s], j)
    BY <1>2 DEF Seen, JobsOf
  <2>. QED
    BY <1>2, <2>1 DEF Settling
<1>3. ASSUME NEW j \in Job, jobLock'[j] # NoOne, ~(IsOpen(jobDraft'[j]) <=> IsOpen(job[j]))
      PROVE  \/ WorkspaceOf[j] \in unsettled'[jobLock'[j]]
             \/ workspaceLock[WorkspaceOf[j]] = jobLock'[j]
  <2>1. CASE jobLock[j] = NoOne /\ jobLock'[j] = a /\ WorkspaceOf[j] \in unsettled'[a]
    BY <2>1
  <2>2. CASE jobLock'[j] = jobLock[j] /\ jobDraft'[j] = jobDraft[j]
    <3>1. \/ WorkspaceOf[j] \in unsettled[jobLock[j]]
          \/ workspaceLock[WorkspaceOf[j]] = jobLock[j]
      BY <1>3, <2>2 DEF Settling
    <3>2. unsettled'[jobLock[j]] = unsettled[jobLock[j]]
      <4>1. jobLock[j] \in Actor
        BY <1>3, <2>2 DEF TypeOK
      <4>. QED
        BY <4>1
    <3>. QED
      BY <2>2, <3>1, <3>2
  <2>. QED
    BY <2>1, <2>2
<1>4. \A s \in Workspace : workspaceLock[s] = Requester => queue' = {}
  BY DEF Settling
<1>5. \A j \in queue' : WorkspaceOf[j] \in unsettled'[Requester]
  BY DEF Settling
<1>. QED
  BY <1>1, <1>2, <1>3, <1>4, <1>5 DEF Settling, Seen

LEMMA SettledKept ==
  ASSUME Settling, StatusTruthful,
         UNCHANGED <<job, jobDraft, workspace, workspaceDraft, locks, unsettled, queue>>
  PROVE  Settling' /\ StatusTruthful'
  BY DEF Settling, StatusTruthful, Seen, locks

LEMMA SettlingStep ==
  TypeOK /\ RowsOK /\ Locking /\ Settling /\ StatusTruthful /\ [Next]_vars
    => Settling' /\ StatusTruthful'
<1> SUFFICES ASSUME TypeOK, RowsOK, Locking, Settling, StatusTruthful, [Next]_vars
             PROVE  Settling' /\ StatusTruthful'
  OBVIOUS
<1>0. Requester \in Actor /\ Worker \subseteq Actor /\ Requester \notin Worker
  BY ActorAssumption DEF Actor
<1>a. \A a \in Actor, j \in Job : Committed(a)[j] = Seen(a, j)
  BY DEF Committed
<1>b. ASSUME NEW a \in Actor, pc[a] \notin OpenTransaction
      PROVE  /\ \A j \in Job : jobLock[j] # a
             /\ \A s \in Workspace : workspaceLock[s] # a
  BY <1>b, ActorAssumption DEF Locking, OpenTransaction, Actor
<1>1. ASSUME NEW s \in Workspace, NEW kind \in Kind, Request(s, kind) PROVE Settling' /\ StatusTruthful'
  <2>1. /\ \A j \in Job : jobLock[j] # Requester
        /\ \A t \in Workspace : workspaceLock[t] # Requester
    BY <1>0, <1>1, <1>b DEF Request, OpenTransaction
  <2>2. \A b \in Actor \ {Requester} : unsettled'[b] = unsettled[b]
    BY <1>1 DEF Request, TypeOK
  <2>3. \A j \in queue' : WorkspaceOf[j] \in unsettled'[Requester]
    BY <1>0, <1>1 DEF Request, TypeOK, JobsOf
  <2>4. \A j \in Job : jobLock[j] # NoOne => unsettled'[jobLock[j]] = unsettled[jobLock[j]]
    BY <2>1, <2>2 DEF TypeOK
  <2>5. StatusTruthful'
    BY <1>1 DEF Request, StatusTruthful
  <2>. QED
    BY <1>1, <2>1, <2>3, <2>4, <2>5 DEF Request, Settling, Seen, locks
<1>2. ASSUME NEW j \in Job, QueueJob(j) PROVE Settling' /\ StatusTruthful'
  <2>1. \A s \in Workspace : workspaceLock[s] # Requester
    BY <1>2 DEF QueueJob, Settling
  <2>2. \A k \in Job : \/ jobLock'[k] = jobLock[k] /\ jobDraft'[k] = jobDraft[k]
                       \/ /\ jobLock[k] = NoOne /\ jobLock'[k] = Requester
                          /\ WorkspaceOf[k] \in unsettled'[Requester]
    BY <1>2 DEF QueueJob, Settling, TypeOK
  <2>. QED
    BY <1>0, <1>2, <2>1, <2>2, WriteSettled DEF QueueJob
<1>3. ASSUME NEW j \in Job, Tick(j) PROVE Settling' /\ StatusTruthful'
  BY <1>3, SettledKept DEF Tick
<1>4. ASSUME NEW a \in Actor, NEW s \in Workspace, Settle(a, s)
      PROVE  Settling' /\ StatusTruthful'
  <2>1. StatusTruthful'
    BY <1>4 DEF Settle, StatusTruthful
  <2>2. ASSUME NEW t \in Workspace, workspaceLock'[t] # NoOne
        PROVE  workspaceDraft'[t] = "COLLECTING" <=>
                 \E j \in JobsOf(t) : IsOpen(Seen(workspaceLock'[t], j))
    <3>1. CASE t = s
      BY <1>4, <3>1 DEF Settle, SettledStatus, TypeOK, IsOpen
    <3>2. CASE t # s
      BY <1>4, <2>2, <3>2 DEF Settle, Settling, TypeOK
    <3>. QED
      BY <3>1, <3>2
  <2>3. ASSUME NEW j \in Job, jobLock[j] # NoOne, ~(IsOpen(jobDraft[j]) <=> IsOpen(job[j]))
        PROVE  \/ WorkspaceOf[j] \in unsettled'[jobLock[j]]
               \/ workspaceLock'[WorkspaceOf[j]] = jobLock[j]
    <3>1. \/ WorkspaceOf[j] \in unsettled[jobLock[j]]
          \/ workspaceLock[WorkspaceOf[j]] = jobLock[j]
      BY <2>3 DEF Settling
    <3>. QED
      BY <1>4, <2>3, <3>1, WorkspaceOfAssumption DEF Settle, MaySettle, TypeOK
  <2>4. \A t \in Workspace : workspaceLock'[t] = Requester => queue' = {}
    <3>1. a = Requester => queue = {}
      BY <1>4 DEF Settle, TypeOK
    <3>. QED
      BY <1>4, <3>1 DEF Settle, Settling, TypeOK
  <2>5. \A j \in queue' : WorkspaceOf[j] \in unsettled'[Requester]
    BY <1>4 DEF Settle, Settling, TypeOK
  <2>. QED
    BY <1>4, <2>1, <2>2, <2>3, <2>4, <2>5 DEF Settle, Settling, Seen
<1>5. CASE CommitRequest
  BY <1>0, <1>a, <1>5, CommitSettled DEF CommitRequest
<1>6. CASE AbortRequest
  BY <1>0, <1>6, RollbackSettled DEF AbortRequest
<1>7. ASSUME NEW w \in Worker, BeginClaim(w) PROVE Settling' /\ StatusTruthful'
  <2>1. /\ \A j \in Job : jobLock[j] # w
        /\ \A s \in Workspace : workspaceLock[s] # w
    BY <1>0, <1>7, <1>b DEF BeginClaim, OpenTransaction
  <2>2. \A j \in Job : \/ jobLock'[j] = jobLock[j] /\ jobDraft'[j] = jobDraft[j]
                       \/ /\ jobLock[j] = NoOne /\ jobLock'[j] = w
                          /\ WorkspaceOf[j] \in unsettled'[w]
    BY <1>0, <1>7 DEF BeginClaim, TypeOK
  <2>3. \A b \in Actor \ {w} : unsettled'[b] = unsettled[b]
    BY <1>7 DEF BeginClaim, TypeOK
  <2>. QED
    BY <1>0, <1>7, <2>1, <2>2, <2>3, WriteSettled DEF BeginClaim
<1>8. ASSUME NEW w \in Worker, NEW j \in Job, ClaimJob(w, j)
      PROVE  Settling' /\ StatusTruthful'
  <2>1. /\ job' = [Committed(w) EXCEPT ![j] = Taken(j)]
        /\ jobDraft' = [jobDraft EXCEPT ![j] = Taken(j)]
        /\ jobLock[j] = NoOne
        /\ IsOpen(job[j]) /\ IsOpen(Taken(j))
    BY <1>8 DEF ClaimJob, Candidates, Claimable, Expired, IsOpen, Open, Taken
  <2>2. \A k \in Job : IsOpen(job'[k]) <=> IsOpen(Seen(w, k))
    BY <1>0, <1>a, <2>1, ActorAssumption DEF TypeOK, Committed, Seen
  <2>3. \A k \in Job : jobLock[k] \notin {w, NoOne} => jobDraft'[k] = jobDraft[k]
    BY <2>1 DEF TypeOK
  <2>. QED
    BY <1>0, <1>8, <2>2, <2>3, CommitSettled DEF ClaimJob
<1>9. ASSUME NEW w \in Worker, ClaimNothing(w) PROVE Settling' /\ StatusTruthful'
  BY <1>0, <1>a, <1>9, CommitSettled DEF ClaimNothing
<1>10. ASSUME NEW w \in Worker, Renew(w) PROVE Settling' /\ StatusTruthful'
  BY <1>10, SettledKept DEF Renew
<1>11. ASSUME NEW w \in Worker, BeginFinish(w) PROVE Settling' /\ StatusTruthful'
  BY <1>11, SettledKept DEF BeginFinish
<1>12. ASSUME NEW w \in Worker, FinishJob(w) PROVE Settling' /\ StatusTruthful'
  <2>1. /\ \A j \in Job : jobLock[j] # w
        /\ \A s \in Workspace : workspaceLock[s] # w
    BY <1>0, <1>12, <1>b DEF FinishJob, OpenTransaction
  <2>2. \A j \in Job : \/ jobLock'[j] = jobLock[j] /\ jobDraft'[j] = jobDraft[j]
                       \/ /\ jobLock[j] = NoOne /\ jobLock'[j] = w
                          /\ WorkspaceOf[j] \in unsettled'[w]
    BY <1>0, <1>12 DEF FinishJob, TypeOK
  <2>3. \A b \in Actor \ {w} : unsettled'[b] = unsettled[b]
    BY <1>12 DEF FinishJob, TypeOK
  <2>. QED
    BY <1>0, <1>12, <2>1, <2>2, <2>3, WriteSettled DEF FinishJob
<1>13. ASSUME NEW w \in Worker, FinishRejected(w) PROVE Settling' /\ StatusTruthful'
  BY <1>13, SettledKept DEF FinishRejected
<1>14. ASSUME NEW w \in Worker, CommitFinish(w) PROVE Settling' /\ StatusTruthful'
  BY <1>0, <1>a, <1>14, CommitSettled DEF CommitFinish
<1>15. ASSUME NEW w \in Worker, AbortFinish(w) PROVE Settling' /\ StatusTruthful'
  BY <1>0, <1>15, RollbackSettled DEF AbortFinish
<1>16. ASSUME NEW w \in Worker, Crash(w) PROVE Settling' /\ StatusTruthful'
  BY <1>0, <1>16, RollbackSettled DEF Crash
<1>17. CASE UNCHANGED vars
  BY <1>17, SettledKept DEF vars
<1>. QED
  BY <1>1, <1>2, <1>3, <1>4, <1>5, <1>6, <1>7, <1>8, <1>9, <1>10, <1>11, <1>12, <1>13,
     <1>14, <1>15, <1>16, <1>17 DEF Next

--------------------------------------------------------------------------------
(* Theorems *)

LEMMA Initially == Init => Inv
<1>. SUFFICES ASSUME Init PROVE Inv
  OBVIOUS
<1>. USE BoundAssumption, ActorAssumption DEF Init, Actor
<1>1. TypeOK
  BY DEF TypeOK, Row, NoRow, MaxAttempts
<1>2. RowsOK
  BY DEF RowsOK, RowOK, NoRow
<1>3. Locking
  BY DEF Locking
<1>4. Settling
  BY DEF Settling
<1>5. StatusTruthful
  BY DEF StatusTruthful, NoRow, Open, JobsOf
<1>. QED
  BY <1>1, <1>2, <1>3, <1>4, <1>5 DEF Inv

\* Inv is inductive.
THEOREM Invariance == Spec => []Inv
<1>1. Inv /\ [Next]_vars => Inv'
  BY TypeStep, RowsStep, LockingStep, SettlingStep DEF Inv
<1>. QED
  BY Initially, <1>1, PTL DEF Spec

\* Every variable keeps its type, and a job that is queued is given three times
\* at most (workspace_collection.claim).
THEOREM TypeCorrect == Spec => []TypeOK
<1>1. Inv => TypeOK
  BY DEF Inv
<1>. QED
  BY Invariance, <1>1, PTL

\* A workspace is COLLECTING exactly while one of its jobs is QUEUED or RUNNING,
\* however the transactions of enqueue, claim and finish overlap.
THEOREM StatusIsTruthful == Spec => []StatusTruthful
<1>1. Inv => StatusTruthful
  BY DEF Inv
<1>. QED
  BY Invariance, <1>1, PTL

\* The object an artifact records comes from the last lease its job gave.
THEOREM StaleWorkersPublishNothing == Spec => []LastHolderPublishes
<1>1. Inv => LastHolderPublishes
  BY DEF Inv, RowsOK, RowOK, LastHolderPublishes
<1>. QED
  BY Invariance, <1>1, PTL

\* A collected artifact is final, whatever requests, workers and lost answers
\* come after it.
THEOREM CollectedIsFinal == Spec => CollectedOnce
<1>1. ASSUME Inv, Next, NEW j \in Job, job[j].status = "SUCCEEDED"
      PROVE  job'[j] = job[j]
  <2>1. \A a \in Actor : Committed(a)[j] = job[j]
    BY <1>1, CommittedRows DEF Inv
  <2>2. CASE UNCHANGED job
    BY <2>2
  <2>3. ASSUME NEW w \in Worker, NEW k \in Job, ClaimJob(w, k) PROVE job'[j] = job[j]
    <3>1. k # j
      BY <1>1, <2>3 DEF ClaimJob, Candidates, Claimable, Expired
    <3>2. job' = [Committed(w) EXCEPT ![k] = Taken(k)]
      BY <2>3 DEF ClaimJob
    <3>. QED
      BY <2>1, <3>1, <3>2 DEF Committed, Actor
  <2>4. ASSUME NEW a \in Actor, job' = Committed(a) PROVE job'[j] = job[j]
    BY <2>1, <2>4
  <2>. QED
    BY <1>1, <2>2, <2>3, <2>4 DEF Next, Request, QueueJob, Tick, Settle, CommitRequest,
       AbortRequest, BeginClaim, ClaimNothing, Renew, BeginFinish, FinishJob,
       FinishRejected, CommitFinish, AbortFinish, Crash, Rollback, Actor
<1>2. Inv /\ [Next]_vars =>
        [\A j \in Job : job[j].status = "SUCCEEDED" => job'[j] = job[j]]_vars
  BY <1>1
<1>. QED
  BY Invariance, <1>2, PTL DEF Spec, CollectedOnce

--------------------------------------------------------------------------------
(* The queue this implements: what an open transaction will commit is what one  *)
(* operation of the queue does, and every workspace it touched will be settled. *)

GivenUp(row) == Queue!Ended(row, "FAILED", row.object)

Results(w) ==
  LET row == job[held[w].job] IN {Queue!Ended(row, "SUCCEEDED", held[w].token), GivenUp(row)}

\* What the rows say that the transaction of a has locked, as its draft of them.
RequestWrites ==
  \E s \in Workspace, kind \in Kind :
    /\ queue \subseteq {j \in JobsOf(s) : KindOf[j] = kind}
    /\ \A j \in Job : jobLock[j] = Requester =>
         WorkspaceOf[j] = s /\ KindOf[j] = kind /\ jobDraft[j] = Queued(job[j])

ClaimWrites(w) ==
  \A j \in Job : jobLock[j] = w =>
    Expired(j) /\ job[j].attempts = MaxAttempts /\ jobDraft[j] = GivenUp(job[j])

FinishWrites(w) ==
  LET j == held[w].job IN
  /\ jobLock[j] = w /\ jobDraft[j] \in Results(w)
  /\ job[j].status = "RUNNING" /\ job[j].token = held[w].token
  /\ \A k \in Job : jobLock[k] = w => k = j

Writes ==
  /\ pc[Requester] = "queueing" => RequestWrites
  /\ \A w \in Worker : /\ pc[w] # "queueing"
                       /\ pc[w] = "claiming" => ClaimWrites(w)
                       /\ pc[w] = "settling" => FinishWrites(w)

\* A workspace leaves PLANNED with its first job.
Touched(a, s) == \E j \in JobsOf(s) : jobLock[j] = a \/ job[j].status # "ABSENT"

Touching ==
  /\ \A a \in Actor, s \in Workspace : workspaceLock[s] = a =>
       workspaceDraft[s] # "PLANNED" /\ Touched(a, s)
  /\ \A a \in Actor : \A s \in unsettled[a] :
       Touched(a, s) \/ (a = Requester /\ queue \cap JobsOf(s) # {})
  /\ \A s \in Workspace :
       workspace[s] = "PLANNED" <=> \A j \in JobsOf(s) : job[j].status = "ABSENT"

\* A step of b leaves the transactions of everybody else alone.
Undisturbed(b) ==
  /\ \A a \in Actor \ {b} : pc'[a] = pc[a]
  /\ \A w \in Worker \ {b} : held'[w] = held[w]
  /\ \A j \in Job : jobLock[j] \notin {b, NoOne} =>
       /\ jobLock'[j] = jobLock[j]
       /\ job'[j] = job[j] /\ jobDraft'[j] = jobDraft[j]
       /\ timeLeft[j] = 0 => timeLeft'[j] = 0
  /\ \A j \in Job : jobLock'[j] \notin {b, NoOne} => jobLock'[j] = jobLock[j]
  /\ b # Requester => queue' = queue

LEMMA OthersWrite ==
  ASSUME TypeOK, Writes, NEW b, Undisturbed(b)
  PROVE  /\ b # Requester /\ pc'[Requester] = "queueing" => RequestWrites'
         /\ \A w \in Worker \ {b} : /\ pc'[w] # "queueing"
                                    /\ pc'[w] = "claiming" => ClaimWrites(w)'
                                    /\ pc'[w] = "settling" => FinishWrites(w)'
<1>. USE ActorAssumption DEF Actor
<1>1. ASSUME b # Requester, pc'[Requester] = "queueing" PROVE RequestWrites'
  <2>1. PICK s \in Workspace, kind \in Kind :
          /\ queue \subseteq {j \in JobsOf(s) : KindOf[j] = kind}
          /\ \A j \in Job : jobLock[j] = Requester =>
               WorkspaceOf[j] = s /\ KindOf[j] = kind /\ jobDraft[j] = Queued(job[j])
    BY <1>1 DEF Writes, RequestWrites, Undisturbed
  <2>2. \A j \in Job : jobLock'[j] = Requester =>
          /\ WorkspaceOf[j] = s /\ KindOf[j] = kind
          /\ jobDraft'[j] = Queued(job'[j])
    BY <1>1, <2>1 DEF Undisturbed
  <2>. QED
    BY <1>1, <2>1, <2>2 DEF RequestWrites, Undisturbed
<1>2. ASSUME NEW w \in Worker \ {b}, pc'[w] = "claiming" PROVE ClaimWrites(w)'
  <2>1. ClaimWrites(w)
    BY <1>2 DEF Writes, Undisturbed
  <2>. QED
    BY <1>2, <2>1 DEF ClaimWrites, Undisturbed, Expired
<1>3. ASSUME NEW w \in Worker \ {b}, pc'[w] = "settling" PROVE FinishWrites(w)'
  <2>. DEFINE j == held[w].job
  <2>1. FinishWrites(w) /\ j \in Job /\ held'[w] = held[w]
    BY <1>3 DEF Writes, Undisturbed, TypeOK
  <2>2. jobLock'[j] = w /\ job'[j] = job[j] /\ jobDraft'[j] = jobDraft[j]
    BY <1>3, <2>1 DEF FinishWrites, Undisturbed
  <2>3. \A k \in Job : jobLock'[k] = w => k = j
    BY <1>3, <2>1 DEF FinishWrites, Undisturbed
  <2>. QED
    BY <2>1, <2>2, <2>3 DEF FinishWrites, Results
<1>4. \A w \in Worker \ {b} : pc'[w] # "queueing"
  BY DEF Writes, Undisturbed
<1>. QED
  BY <1>1, <1>2, <1>3, <1>4

\* The end of a transaction of a disturbs nobody else's.
LEMMA EndUndisturbed ==
  ASSUME TypeOK, NEW a \in Actor, Release(a), UNCHANGED <<timeLeft, held>>,
         \A b \in Actor \ {a} : pc'[b] = pc[b],
         \A j \in Job : jobLock[j] # a => job'[j] = job[j] /\ jobDraft'[j] = jobDraft[j],
         a # Requester => queue' = queue
  PROVE  Undisturbed(a)
BY DEF Undisturbed, Release, TypeOK

LEMMA WritesStep == TypeOK /\ RowsOK /\ Locking /\ Writes /\ [Next]_vars => Writes'
<1> SUFFICES ASSUME TypeOK, RowsOK, Locking, Writes, [Next]_vars PROVE Writes'
  OBVIOUS
<1>. USE ActorAssumption DEF Actor
<1>a. \A a \in Actor, j \in Job : Committed(a)[j] = IF jobLock[j] = a THEN jobDraft[j] ELSE job[j]
  BY DEF Committed, Seen
<1>b. ASSUME NEW a \in Actor, pc[a] \notin OpenTransaction
      PROVE  \A j \in Job : jobLock[j] # a
  BY <1>b DEF Locking, OpenTransaction
<1>1. ASSUME NEW s \in Workspace, NEW kind \in Kind, Request(s, kind) PROVE Writes'
  <2>1. Undisturbed(Requester)
    BY <1>1 DEF Undisturbed, Request, TypeOK, locks
  <2>2. \A j \in Job : jobLock'[j] # Requester
    BY <1>1, <1>b DEF Request, OpenTransaction, locks
  <2>3. RequestWrites'
    BY <1>1, <2>2 DEF Request, RequestWrites
  <2>. QED
    BY <2>1, <2>3, OthersWrite DEF Writes
<1>2. ASSUME NEW j \in Job, QueueJob(j) PROVE Writes'
  <2>1. Undisturbed(Requester)
    BY <1>2 DEF Undisturbed, QueueJob, TypeOK
  <2>2. PICK s \in Workspace, kind \in Kind :
          /\ queue \subseteq {k \in JobsOf(s) : KindOf[k] = kind}
          /\ \A k \in Job : jobLock[k] = Requester =>
               WorkspaceOf[k] = s /\ KindOf[k] = kind /\ jobDraft[k] = Queued(job[k])
    BY <1>2 DEF QueueJob, Writes, RequestWrites
  <2>3. WorkspaceOf[j] = s /\ KindOf[j] = kind
    BY <1>2, <2>2 DEF QueueJob, JobsOf
  <2>4. \A k \in Job : jobLock'[k] = Requester =>
          WorkspaceOf[k] = s /\ KindOf[k] = kind /\ jobDraft'[k] = Queued(job'[k])
    BY <1>2, <2>2, <2>3 DEF QueueJob, TypeOK
  <2>5. RequestWrites'
    BY <1>2, <2>2, <2>4 DEF QueueJob, RequestWrites
  <2>. QED
    BY <2>1, <2>5, OthersWrite DEF Writes
<1>3. ASSUME NEW j \in Job, Tick(j) PROVE Writes'
  <2>1. Undisturbed(NoOne)
    BY <1>3 DEF Undisturbed, Tick, TypeOK, locks
  <2>. QED
    BY <2>1, OthersWrite DEF Writes
<1>4. ASSUME NEW a \in Actor, NEW s \in Workspace, Settle(a, s) PROVE Writes'
  <2>1. Undisturbed(NoOne)
    BY <1>4 DEF Undisturbed, Settle, TypeOK
  <2>. QED
    BY <2>1, OthersWrite DEF Writes
<1>5. CASE CommitRequest
  <2>1. Undisturbed(Requester)
    BY <1>a, <1>5, EndUndisturbed DEF CommitRequest, TypeOK
  <2>2. pc'[Requester] = "idle"
    BY <1>5 DEF CommitRequest, TypeOK
  <2>. QED
    BY <2>1, <2>2, OthersWrite DEF Writes
<1>6. CASE AbortRequest
  <2>1. Undisturbed(Requester)
    BY <1>6, EndUndisturbed DEF AbortRequest, Rollback, TypeOK
  <2>2. pc'[Requester] = "idle"
    BY <1>6 DEF AbortRequest, TypeOK
  <2>. QED
    BY <2>1, <2>2, OthersWrite DEF Writes
<1>7. ASSUME NEW w \in Worker, BeginClaim(w) PROVE Writes'
  <2>1. Undisturbed(w)
    BY <1>7 DEF Undisturbed, BeginClaim, TypeOK
  <2>2. ASSUME NEW j \in Job, jobLock'[j] = w
        PROVE  /\ Expired(j)' /\ job'[j].attempts = MaxAttempts
               /\ jobDraft'[j] = GivenUp(job'[j])
    <3>1. jobLock[j] # w
      BY <1>7, <1>b DEF BeginClaim, OpenTransaction
    <3>2. j \in Exhausted
      BY <1>7, <2>2, <3>1 DEF BeginClaim
    <3>3. job[j] \in Row /\ Expired(j) /\ job[j].attempts = MaxAttempts
      BY <3>2 DEF Exhausted, TypeOK, Row, MaxAttempts
    <3>4. jobDraft'[j] = GivenUp(job[j])
      BY <1>7, <3>2 DEF BeginClaim, GivenUp, Queue!Ended
    <3>. QED
      BY <1>7, <3>3, <3>4 DEF BeginClaim, Expired
  <2>3. ClaimWrites(w)' /\ pc'[w] = "claiming"
    BY <1>7, <2>2 DEF BeginClaim, ClaimWrites, TypeOK
  <2>. QED
    BY <2>1, <2>3, OthersWrite DEF Writes
<1>8. ASSUME NEW w \in Worker, NEW j \in Job, ClaimJob(w, j) PROVE Writes'
  <2>1. /\ job' = [Committed(w) EXCEPT ![j] = Taken(j)]
        /\ jobDraft' = [jobDraft EXCEPT ![j] = Taken(j)]
        /\ jobLock[j] = NoOne
    BY <1>8 DEF ClaimJob, Candidates
  <2>2. \A k \in Job : jobLock[k] \notin {w, NoOne} =>
          job'[k] = job[k] /\ jobDraft'[k] = jobDraft[k] /\ timeLeft'[k] = timeLeft[k]
    BY <1>8, <1>a, <2>1 DEF ClaimJob, TypeOK, Committed
  <2>3. Undisturbed(w)
    BY <1>8, <2>2 DEF Undisturbed, ClaimJob, Release, TypeOK
  <2>4. pc'[w] = "collecting"
    BY <1>8 DEF ClaimJob, TypeOK
  <2>. QED
    BY <2>3, <2>4, OthersWrite DEF Writes
<1>9. ASSUME NEW w \in Worker, ClaimNothing(w) PROVE Writes'
  <2>1. Undisturbed(w)
    BY <1>a, <1>9, EndUndisturbed DEF ClaimNothing, TypeOK
  <2>2. pc'[w] = "idle"
    BY <1>9 DEF ClaimNothing, TypeOK
  <2>. QED
    BY <2>1, <2>2, OthersWrite DEF Writes
<1>10. ASSUME NEW w \in Worker, Renew(w) PROVE Writes'
  <2>1. Undisturbed(NoOne)
    BY <1>10 DEF Undisturbed, Renew, TypeOK, locks
  <2>. QED
    BY <2>1, OthersWrite DEF Writes
<1>11. ASSUME NEW w \in Worker, BeginFinish(w) PROVE Writes'
  <2>1. Undisturbed(w) /\ pc'[w] \in {"publishing", "failing"}
    BY <1>11 DEF Undisturbed, BeginFinish, TypeOK, locks
  <2>. QED
    BY <2>1, OthersWrite DEF Writes
<1>12. ASSUME NEW w \in Worker, FinishJob(w) PROVE Writes'
  <2>. DEFINE j == held[w].job
  <2>1. Undisturbed(w)
    BY <1>12 DEF Undisturbed, FinishJob, TypeOK
  <2>2. \A k \in Job : jobLock[k] # w
    BY <1>12, <1>b DEF FinishJob, OpenTransaction
  <2>3. j \in Job /\ job[j] \in Row
    BY DEF TypeOK
  <2>4. /\ jobLock' = [jobLock EXCEPT ![j] = w]
        /\ jobDraft' = [jobDraft EXCEPT ![j] = Finished(w)]
        /\ job[j].status = "RUNNING" /\ job[j].token = held[w].token
        /\ UNCHANGED <<job, held>>
    BY <1>12 DEF FinishJob, Accepted
  <2>5. Finished(w) \in Results(w)
    BY DEF Finished, Results, GivenUp, Queue!Ended
  <2>6. FinishWrites(w)'
    BY <2>2, <2>3, <2>4, <2>5 DEF FinishWrites, Results, TypeOK
  <2>7. pc'[w] = "settling"
    BY <1>12 DEF FinishJob, TypeOK
  <2>. QED
    BY <2>1, <2>6, <2>7, OthersWrite DEF Writes
<1>13. ASSUME NEW w \in Worker, FinishRejected(w) PROVE Writes'
  <2>1. Undisturbed(w) /\ pc'[w] = "idle"
    BY <1>13 DEF Undisturbed, FinishRejected, TypeOK, locks
  <2>. QED
    BY <2>1, OthersWrite DEF Writes
<1>14. ASSUME NEW w \in Worker, CommitFinish(w) PROVE Writes'
  <2>1. pc'[w] \in {"idle", "failing"} /\ \A a \in Actor \ {w} : pc'[a] = pc[a]
    BY <1>14 DEF CommitFinish, AfterException, TypeOK
  <2>2. Undisturbed(w)
    BY <1>a, <1>14, <2>1, EndUndisturbed DEF CommitFinish
  <2>. QED
    BY <2>1, <2>2, OthersWrite DEF Writes
<1>15. ASSUME NEW w \in Worker, AbortFinish(w) PROVE Writes'
  <2>1. pc'[w] \in {"idle", "failing"} /\ \A a \in Actor \ {w} : pc'[a] = pc[a]
    BY <1>15 DEF AbortFinish, AfterException, TypeOK
  <2>2. Undisturbed(w)
    BY <1>15, <2>1, EndUndisturbed DEF AbortFinish, Rollback
  <2>. QED
    BY <2>1, <2>2, OthersWrite DEF Writes
<1>16. ASSUME NEW w \in Worker, Crash(w) PROVE Writes'
  <2>1. pc'[w] = "idle" /\ \A a \in Actor \ {w} : pc'[a] = pc[a]
    BY <1>16 DEF Crash, TypeOK
  <2>2. Undisturbed(w)
    BY <1>16, <2>1, EndUndisturbed DEF Crash, Rollback
  <2>. QED
    BY <2>1, <2>2, OthersWrite DEF Writes
<1>17. CASE UNCHANGED vars
  <2>1. Undisturbed(NoOne)
    BY <1>17 DEF Undisturbed, vars, locks
  <2>. QED
    BY <2>1, OthersWrite DEF Writes
<1>. QED
  BY <1>1, <1>2, <1>3, <1>4, <1>5, <1>6, <1>7, <1>8, <1>9, <1>10, <1>11, <1>12, <1>13,
     <1>14, <1>15, <1>16, <1>17 DEF Next

\* A draft is never of an ABSENT row, and only a request opens one.
LEMMA DraftsOpen ==
  ASSUME TypeOK, Locking, Writes, NEW j \in Job, jobLock[j] # NoOne
  PROVE  /\ jobDraft[j].status # "ABSENT"
         /\ job[j].status = "ABSENT" => IsOpen(jobDraft[j])
<1>. USE ActorAssumption DEF Actor
<1>1. CASE jobLock[j] = Requester
  <2>1. jobDraft[j] = Queued(job[j])
    BY <1>1 DEF Locking, TypeOK, Writes, RequestWrites
  <2>. QED
    BY <2>1 DEF Queued, IsOpen, Open
<1>2. ASSUME NEW w \in Worker, jobLock[j] = w
      PROVE  jobDraft[j].status # "ABSENT" /\ job[j].status = "RUNNING"
  <2>1. pc[w] \in {"claiming", "settling"}
    BY <1>2 DEF Locking, Writes
  <2>2. CASE pc[w] = "claiming"
    <3>1. Expired(j) /\ jobDraft[j] = GivenUp(job[j])
      BY <1>2, <2>2 DEF Writes, ClaimWrites
    <3>. QED
      BY <3>1 DEF Expired, GivenUp, Queue!Ended
  <2>3. CASE pc[w] = "settling"
    <3>1. jobDraft[j] \in Results(w) /\ job[j].status = "RUNNING"
      BY <1>2, <2>3 DEF Writes, FinishWrites
    <3>. QED
      BY <3>1 DEF Results, GivenUp, Queue!Ended
  <2>. QED
    BY <2>1, <2>2, <2>3
<1>. QED
  BY <1>1, <1>2 DEF TypeOK

LEMMA TouchCommit ==
  ASSUME TypeOK, Locking, Settling, Writes, Touching, NEW a \in Actor,
         unsettled[a] = {}, CommitStatuses(a), Release(a), UNCHANGED queue,
         \A j \in Job : job'[j].status = "ABSENT" <=> Seen(a, j).status = "ABSENT"
  PROVE  Touching'
<1>. USE ActorAssumption, WorkspaceOfAssumption DEF Actor
<1>1. \A j \in Job : job'[j].status = "ABSENT" <=> jobLock[j] # a /\ job[j].status = "ABSENT"
  BY DraftsOpen DEF Seen
<1>2. ASSUME NEW b \in Actor \ {a}, NEW s \in Workspace, Touched(b, s)
      PROVE  Touched(b, s)'
  BY <1>1, <1>2 DEF Touched, JobsOf, Release
<1>3. ASSUME NEW b \in Actor, NEW s \in Workspace, workspaceLock'[s] = b
      PROVE  workspaceDraft'[s] # "PLANNED" /\ Touched(b, s)'
  <2>1. workspaceLock[s] = b /\ b # a
    BY <1>3 DEF Release, TypeOK
  <2>. QED
    BY <1>2, <1>3, <2>1 DEF Touching, CommitStatuses
<1>4. ASSUME NEW b \in Actor, NEW s \in unsettled'[b]
      PROVE  Touched(b, s)' \/ (b = Requester /\ queue' \cap JobsOf(s) # {})
  <2>1. b # a /\ s \in unsettled[b] /\ s \in Workspace
    BY <1>4 DEF Release, TypeOK
  <2>. QED
    BY <1>2, <2>1 DEF Touching
<1>5. ASSUME NEW s \in Workspace
      PROVE  workspace'[s] = "PLANNED" <=> \A j \in JobsOf(s) : job'[j].status = "ABSENT"
  <2>1. CASE workspaceLock[s] = a
    <3>1. PICK j \in JobsOf(s) : jobLock[j] = a \/ job[j].status # "ABSENT"
      BY <2>1 DEF Touching, Touched
    <3>2. job'[j].status # "ABSENT"
      BY <1>1, <3>1 DEF JobsOf
    <3>3. workspace'[s] # "PLANNED"
      BY <2>1 DEF Touching, CommitStatuses
    <3>. QED
      BY <3>2, <3>3
  <2>2. CASE workspaceLock[s] # a
    <3>1. ASSUME NEW j \in JobsOf(s), job[j].status = "ABSENT" PROVE jobLock[j] # a
      <4>1. j \in Job /\ WorkspaceOf[j] = s
        BY DEF JobsOf
      <4>2. ~IsOpen(job[j])
        BY <3>1 DEF IsOpen, Open
      <4>. QED
        BY <2>2, <3>1, <4>1, <4>2, DraftsOpen DEF Settling
    <3>2. \A j \in JobsOf(s) : job'[j].status = "ABSENT" <=> job[j].status = "ABSENT"
      BY <1>1, <3>1 DEF JobsOf
    <3>3. workspace'[s] = workspace[s]
      BY <2>2 DEF CommitStatuses
    <3>. QED
      BY <3>2, <3>3 DEF Touching
  <2>. QED
    BY <2>1, <2>2
<1>. QED
  BY <1>3, <1>4, <1>5 DEF Touching, JobsOf

LEMMA TouchRollback ==
  ASSUME TypeOK, Touching, NEW a \in Actor, Rollback(a),
         a # Requester => queue' = queue
  PROVE  Touching'
<1>. USE ActorAssumption DEF Actor
<1>1. ASSUME NEW b \in Actor \ {a}, NEW s \in Workspace, Touched(b, s)
      PROVE  Touched(b, s)'
  BY <1>1 DEF Touched, JobsOf, Rollback, Release
<1>2. ASSUME NEW b \in Actor, NEW s \in Workspace, workspaceLock'[s] = b
      PROVE  workspaceDraft'[s] # "PLANNED" /\ Touched(b, s)'
  <2>1. workspaceLock[s] = b /\ b # a
    BY <1>2 DEF Rollback, Release, TypeOK
  <2>. QED
    BY <1>1, <1>2, <2>1 DEF Touching, Rollback
<1>3. ASSUME NEW b \in Actor, NEW s \in unsettled'[b]
      PROVE  Touched(b, s)' \/ (b = Requester /\ queue' \cap JobsOf(s) # {})
  <2>1. b # a /\ s \in unsettled[b] /\ s \in Workspace
    BY <1>3 DEF Rollback, Release, TypeOK
  <2>. QED
    BY <1>1, <2>1 DEF Touching
<1>. QED
  BY <1>2, <1>3 DEF Touching, Rollback, JobsOf

\* A statement that locks rows, and has their workspaces to settle.
LEMMA TouchWrite ==
  ASSUME TypeOK, Touching, NEW a \in Actor,
         UNCHANGED <<job, workspace, workspaceDraft, workspaceLock>>,
         \A j \in Job : jobLock[j] # NoOne => jobLock'[j] = jobLock[j],
         unsettled' \in [Actor -> SUBSET Workspace],
         \A b \in Actor \ {a} : unsettled'[b] = unsettled[b],
         \A s \in unsettled'[a] :
           \/ \E j \in JobsOf(s) : jobLock'[j] = a
           \/ s \in unsettled[a] /\ a # Requester
           \/ s \in unsettled[a] /\ (queue \cap JobsOf(s) # {} => queue' \cap JobsOf(s) # {}),
         a # Requester => queue' = queue
  PROVE  Touching'
<1>. USE ActorAssumption DEF Actor
<1>1. ASSUME NEW b \in Actor, NEW s \in Workspace, Touched(b, s)
      PROVE  Touched(b, s)'
  BY <1>1 DEF Touched, JobsOf
<1>2. \A b \in Actor, s \in Workspace : workspaceLock'[s] = b =>
        workspaceDraft'[s] # "PLANNED" /\ Touched(b, s)'
  BY <1>1 DEF Touching, TypeOK
<1>3. ASSUME NEW b \in Actor, NEW s \in unsettled'[b]
      PROVE  Touched(b, s)' \/ (b = Requester /\ queue' \cap JobsOf(s) # {})
  <2>. s \in Workspace
    OBVIOUS
  <2>1. CASE b # a
    <3>1. s \in unsettled[b]
      BY <1>3, <2>1
    <3>2. Touched(b, s) \/ (b = Requester /\ queue \cap JobsOf(s) # {})
      BY <3>1 DEF Touching
    <3>. QED
      BY <1>1, <1>3, <2>1, <3>2
  <2>2. CASE b = a /\ \E j \in JobsOf(s) : jobLock'[j] = a
    BY <2>2 DEF Touched, JobsOf
  <2>3. CASE b = a /\ s \in unsettled[a]
    <3>1. Touched(a, s) \/ (a = Requester /\ queue \cap JobsOf(s) # {})
      BY <2>3 DEF Touching
    <3>2. CASE Touched(a, s)
      BY <1>1, <1>3, <2>3, <3>2
    <3>3. CASE a = Requester /\ queue \cap JobsOf(s) # {}
      BY <1>3, <2>2, <2>3, <3>3
    <3>. QED
      BY <3>1, <3>2, <3>3
  <2>. QED
    BY <1>3, <2>1, <2>2, <2>3
<1>. QED
  BY <1>2, <1>3 DEF Touching, JobsOf, TypeOK

LEMMA TouchKept ==
  ASSUME Touching,
         UNCHANGED <<job, jobLock, workspace, workspaceDraft, workspaceLock, unsettled, queue>>
  PROVE  Touching'
BY DEF Touching, Touched, JobsOf

LEMMA TouchingStep ==
  TypeOK /\ TypeOK' /\ Locking /\ Settling /\ Writes /\ Touching /\ [Next]_vars => Touching'
<1> SUFFICES ASSUME TypeOK, TypeOK', Locking, Settling, Writes, Touching, [Next]_vars
             PROVE  Touching'
  OBVIOUS
<1>. USE ActorAssumption DEF Actor
<1>a. \A a \in Actor, j \in Job : Committed(a)[j] = Seen(a, j)
  BY DEF Committed
<1>1. ASSUME NEW s \in Workspace, NEW kind \in Kind, Request(s, kind) PROVE Touching'
  <2>1. queue' # {} /\ queue' \subseteq JobsOf(s)
    BY <1>1 DEF Request
  <2>2. unsettled' = [unsettled EXCEPT ![Requester] = {s}]
    BY <1>1 DEF Request
  <2>3. \A b \in Actor : \A t \in unsettled'[b] :
          Touched(b, t) \/ (b = Requester /\ queue' \cap JobsOf(t) # {})
    BY <2>1, <2>2 DEF Touching, TypeOK
  <2>. QED
    BY <1>1, <2>3 DEF Request, Touching, Touched, JobsOf, locks
<1>2. ASSUME NEW j \in Job, QueueJob(j) PROVE Touching'
  <2>1. /\ jobLock' = [jobLock EXCEPT ![j] = Requester] /\ jobLock[j] = NoOne
        /\ queue' = queue \ {j} /\ unsettled' = unsettled
        /\ UNCHANGED <<job, workspace, workspaceDraft, workspaceLock>>
    BY <1>2 DEF QueueJob
  <2>2. jobLock'[j] = Requester /\ \A k \in Job : k # j => jobLock'[k] = jobLock[k]
    BY <2>1 DEF TypeOK
  <2>3. ASSUME NEW s \in unsettled[Requester], queue \cap JobsOf(s) # {}
        PROVE  (\E k \in JobsOf(s) : jobLock'[k] = Requester) \/ queue' \cap JobsOf(s) # {}
    BY <2>1, <2>2, <2>3 DEF JobsOf
  <2>. QED
    BY <2>1, <2>2, <2>3, TouchWrite DEF TypeOK
<1>3. ASSUME NEW j \in Job, Tick(j) PROVE Touching'
  BY <1>3, TouchKept DEF Tick, locks
<1>4. ASSUME NEW a \in Actor, NEW s \in Workspace, Settle(a, s) PROVE Touching'
  <2>1. /\ workspaceLock' = [workspaceLock EXCEPT ![s] = a]
        /\ workspaceDraft' = [workspaceDraft EXCEPT ![s] = SettledStatus(a, s)]
        /\ unsettled' = [unsettled EXCEPT ![a] = @ \ {s}]
        /\ UNCHANGED <<job, jobLock, workspace, queue>>
        /\ s \in unsettled[a] /\ (a = Requester => queue = {})
    BY <1>4 DEF Settle, TypeOK
  <2>2. SettledStatus(a, s) # "PLANNED"
    BY DEF SettledStatus
  <2>3. Touched(a, s)
    BY <2>1 DEF Touching
  <2>4. \A b : \A t : Touched(b, t)' <=> Touched(b, t)
    BY <2>1 DEF Touched, JobsOf
  <2>5. \A b \in Actor, t \in Workspace : workspaceLock'[t] = b =>
          workspaceDraft'[t] # "PLANNED" /\ Touched(b, t)
    BY <2>1, <2>2, <2>3 DEF Touching, TypeOK
  <2>6. \A b \in Actor : unsettled'[b] \subseteq unsettled[b]
    BY <2>1 DEF TypeOK
  <2>. QED
    BY <2>1, <2>4, <2>5, <2>6 DEF Touching, JobsOf
<1>5. CASE CommitRequest
  BY <1>a, <1>5, TouchCommit DEF CommitRequest
<1>6. CASE AbortRequest
  BY <1>6, TouchRollback DEF AbortRequest
<1>7. ASSUME NEW w \in Worker, BeginClaim(w) PROVE Touching'
  <2>1. /\ \A j \in Job : jobLock[j] # NoOne => jobLock'[j] = jobLock[j]
        /\ \A j \in Exhausted : jobLock'[j] = w
        /\ \A b \in Actor \ {w} : unsettled'[b] = unsettled[b]
        /\ unsettled'[w] = {WorkspaceOf[j] : j \in Exhausted}
    BY <1>7 DEF BeginClaim, TypeOK, Exhausted
  <2>2. \A s \in unsettled'[w] : \E j \in JobsOf(s) : jobLock'[j] = w
    BY <2>1 DEF JobsOf, Exhausted
  <2>3. UNCHANGED <<job, workspace, workspaceDraft, workspaceLock, queue>>
    BY <1>7 DEF BeginClaim
  <2>4. unsettled' \in [Actor -> SUBSET Workspace]
    BY DEF TypeOK
  <2>. QED
    BY <2>1, <2>2, <2>3, <2>4, TouchWrite
<1>8. ASSUME NEW w \in Worker, NEW j \in Job, ClaimJob(w, j) PROVE Touching'
  <2>1. /\ job' = [Committed(w) EXCEPT ![j] = Taken(j)]
        /\ jobLock[j] = NoOne /\ job[j].status # "ABSENT" /\ Taken(j).status # "ABSENT"
    BY <1>8 DEF ClaimJob, Candidates, Claimable, Expired, Taken
  <2>2. \A k \in Job : job'[k].status = "ABSENT" <=> Seen(w, k).status = "ABSENT"
    BY <1>a, <2>1 DEF Committed, Seen
  <2>. QED
    BY <1>8, <2>2, TouchCommit DEF ClaimJob
<1>9. ASSUME NEW w \in Worker, ClaimNothing(w) PROVE Touching'
  BY <1>a, <1>9, TouchCommit DEF ClaimNothing
<1>10. ASSUME NEW w \in Worker, Renew(w) PROVE Touching'
  BY <1>10, TouchKept DEF Renew, locks
<1>11. ASSUME NEW w \in Worker, BeginFinish(w) PROVE Touching'
  BY <1>11, TouchKept DEF BeginFinish, locks
<1>12. ASSUME NEW w \in Worker, FinishJob(w) PROVE Touching'
  <2>. DEFINE j == held[w].job
  <2>1. /\ j \in Job
        /\ jobLock' = [jobLock EXCEPT ![j] = w] /\ jobLock[j] = NoOne
        /\ unsettled' = [unsettled EXCEPT ![w] = {WorkspaceOf[j]}]
        /\ UNCHANGED <<job, workspace, workspaceDraft, workspaceLock, queue>>
    BY <1>12 DEF FinishJob, TypeOK
  <2>2. /\ \A k \in Job : jobLock[k] # NoOne => jobLock'[k] = jobLock[k]
        /\ \A b \in Actor \ {w} : unsettled'[b] = unsettled[b]
        /\ \A s \in unsettled'[w] : \E k \in JobsOf(s) : jobLock'[k] = w
    BY <2>1 DEF TypeOK, JobsOf
  <2>3. unsettled' \in [Actor -> SUBSET Workspace]
    BY DEF TypeOK
  <2>. QED
    BY <2>1, <2>2, <2>3, TouchWrite
<1>13. ASSUME NEW w \in Worker, FinishRejected(w) PROVE Touching'
  BY <1>13, TouchKept DEF FinishRejected, locks
<1>14. ASSUME NEW w \in Worker, CommitFinish(w) PROVE Touching'
  BY <1>a, <1>14, TouchCommit DEF CommitFinish
<1>15. ASSUME NEW w \in Worker, AbortFinish(w) PROVE Touching'
  BY <1>15, TouchRollback DEF AbortFinish
<1>16. ASSUME NEW w \in Worker, Crash(w) PROVE Touching'
  BY <1>16, TouchRollback DEF Crash
<1>17. CASE UNCHANGED vars
  BY <1>17, TouchKept DEF vars, locks
<1>. QED
  BY <1>1, <1>2, <1>3, <1>4, <1>5, <1>6, <1>7, <1>8, <1>9, <1>10, <1>11, <1>12, <1>13,
     <1>14, <1>15, <1>16, <1>17 DEF Next

\* The committed status of a workspace is what the queue says it is.
LEMMA StatusFollows ==
  ASSUME NEW status \in [Workspace -> Statuses], NEW rows,
         \A s \in Workspace :
           /\ status[s] = "COLLECTING" <=> \E j \in JobsOf(s) : rows[j].status \in Open
           /\ status[s] = "PLANNED" <=> \A j \in JobsOf(s) : rows[j].status = "ABSENT"
  PROVE  status = [s \in Workspace |-> Queue!StatusOf(s, rows)]
<1>. SUFFICES ASSUME NEW s \in Workspace PROVE status[s] = Queue!StatusOf(s, rows)
  OBVIOUS
<1>1. status[s] \in Statuses /\ Queue!JobsOf(s) = JobsOf(s) /\ Queue!Open = Open
  BY DEF Queue!JobsOf, JobsOf, Queue!Open, Open
<1>. QED
  BY <1>1 DEF Queue!StatusOf, Statuses

Promise == Inv /\ Writes /\ Touching

LEMMA NextStatus ==
  ASSUME Promise'
  PROVE  workspace' = [s \in Workspace |-> Queue!StatusOf(s, job')]
<1>1. workspace' \in [Workspace -> Statuses]
  BY DEF Promise, Inv, TypeOK, Statuses
<1>2. \A s \in Workspace :
        /\ workspace'[s] = "COLLECTING" <=> \E j \in JobsOf(s) : job'[j].status \in Open
        /\ workspace'[s] = "PLANNED" <=> \A j \in JobsOf(s) : job'[j].status = "ABSENT"
  BY DEF Promise, Inv, StatusTruthful, Touching
<1>. QED
  BY <1>1, <1>2, StatusFollows

\* A commit is the operation of the queue that makes the rows what they become.
LEMMA CommitRequestImplements ==
  ASSUME Promise, Promise', CommitRequest
  PROVE  Queue!Next
<1>1. PICK s \in Workspace, kind \in Kind :
        \A j \in Job : jobLock[j] = Requester =>
          WorkspaceOf[j] = s /\ KindOf[j] = kind /\ jobDraft[j] = Queued(job[j])
  BY DEF Promise, Writes, RequestWrites, CommitRequest
<1>. DEFINE wanted == {j \in Job : jobLock[j] = Requester}
<1>2. wanted \in SUBSET {j \in Queue!JobsOf(s) : KindOf[j] = kind}
  BY <1>1 DEF Queue!JobsOf
<1>3. job' = [j \in Job |->
                IF j \in wanted /\ job[j].status \in {"ABSENT", "FAILED"}
                  THEN [status |-> "QUEUED", attempts |-> 0, token |-> 0, object |-> job[j].object]
                  ELSE job[j]]
  <2>1. job' = [j \in Job |-> IF j \in wanted THEN Queued(job[j]) ELSE job[j]]
    BY <1>1 DEF CommitRequest, Committed, Seen
  <2>. QED
    BY <2>1 DEF Queued
<1>4. workspace' = [t \in Workspace |-> Queue!StatusOf(t, job')]
  BY NextStatus
<1>5. UNCHANGED <<issued, timeLeft, held>>
  BY DEF CommitRequest
<1>6. Queue!Enqueue(s, kind)
  BY <1>2, <1>3, <1>4, <1>5 DEF Queue!Enqueue, Queue!Become
<1>. QED
  BY <1>6 DEF Queue!Next

\* What a claim gives up when it commits.
LEMMA ClaimCommits ==
  ASSUME TypeOK, Writes, NEW w \in Worker, pc[w] = "claiming"
  PROVE  /\ {j \in Job : jobLock[j] = w} \in SUBSET Queue!Exhausted
         /\ Committed(w) = Queue!Without({j \in Job : jobLock[j] = w})
<1>1. ClaimWrites(w)
  BY DEF Writes
<1>2. {j \in Job : jobLock[j] = w} \in SUBSET Queue!Exhausted
  BY <1>1 DEF ClaimWrites, Expired, Queue!Exhausted, Queue!Expired
<1>3. Committed(w) = [j \in Job |-> IF jobLock[j] = w THEN GivenUp(job[j]) ELSE job[j]]
  BY <1>1 DEF ClaimWrites, Committed, Seen
<1>. QED
  BY <1>2, <1>3 DEF Queue!Without, GivenUp

LEMMA ClaimNothingImplements ==
  ASSUME Promise, Promise', NEW w \in Worker, ClaimNothing(w)
  PROVE  Queue!Next
<1>1. /\ {j \in Job : jobLock[j] = w} \in SUBSET Queue!Exhausted
      /\ job' = Queue!Without({j \in Job : jobLock[j] = w})
  BY ClaimCommits DEF Promise, Inv, ClaimNothing
<1>2. workspace' = [t \in Workspace |-> Queue!StatusOf(t, job')]
  BY NextStatus
<1>3. UNCHANGED <<issued, timeLeft, held>>
  BY DEF ClaimNothing
<1>4. Queue!GiveUp
  BY <1>1, <1>2, <1>3 DEF Queue!GiveUp, Queue!Become
<1>. QED
  BY <1>4 DEF Queue!Next

LEMMA ClaimJobImplements ==
  ASSUME Promise, Promise', NEW w \in Worker, NEW j \in Job, ClaimJob(w, j)
  PROVE  Queue!Next
<1>. DEFINE jobs == {k \in Job : jobLock[k] = w}
<1>1. jobs \in SUBSET Queue!Exhausted /\ Committed(w) = Queue!Without(jobs)
  BY ClaimCommits DEF Promise, Inv, ClaimJob
<1>2. job' = [Queue!Without(jobs) EXCEPT
                ![j] = [status |-> "RUNNING", attempts |-> job[j].attempts + 1,
                        token |-> issued[j] + 1, object |-> job[j].object]]
  BY <1>1 DEF ClaimJob, Taken
<1>3. workspace' = [t \in Workspace |-> Queue!StatusOf(t, job')]
  BY NextStatus
<1>4. /\ KindOf[j] = AsksFor[w]
      /\ job[j].status = "QUEUED" \/ (Queue!Expired(j) /\ job[j].attempts < MaxAttempts)
  BY DEF ClaimJob, Candidates, Claimable, Expired, Queue!Expired
<1>5. {k \in Job : timeLeft'[k] > 0} = {k \in Job : timeLeft[k] > 0} \cup {j}
  BY BoundAssumption DEF ClaimJob, Promise, Inv, TypeOK
<1>6. /\ issued' = [issued EXCEPT ![j] = @ + 1]
      /\ held' = [held EXCEPT ![w] = [job |-> j, token |-> issued[j] + 1]]
  BY DEF ClaimJob
<1>7. Queue!Give(w, j)
  BY <1>1, <1>2, <1>3, <1>4, <1>5, <1>6 DEF Queue!Give, Queue!Become
<1>. QED
  BY <1>7 DEF Queue!Next

LEMMA CommitFinishImplements ==
  ASSUME Promise, Promise', NEW w \in Worker, CommitFinish(w)
  PROVE  Queue!Next
<1>. DEFINE j == held[w].job
<1>1. FinishWrites(w) /\ j \in Job
  BY DEF Promise, Inv, TypeOK, Writes, CommitFinish
<1>2. job' = [job EXCEPT ![j] = jobDraft[j]]
  BY <1>1 DEF FinishWrites, CommitFinish, Committed, Seen, Promise, Inv, TypeOK
<1>3. jobDraft[j] \in Results(w) /\ job[j].status = "RUNNING" /\ job[j].token = held[w].token
  BY <1>1 DEF FinishWrites
<1>4. workspace' = [t \in Workspace |-> Queue!StatusOf(t, job')]
  BY NextStatus
<1>5. UNCHANGED <<issued, timeLeft, held>>
  BY DEF CommitFinish
<1>6. Queue!Finish(w)
  BY <1>2, <1>3, <1>4, <1>5 DEF Queue!Finish, Queue!Become, Results, GivenUp
<1>. QED
  BY <1>6 DEF Queue!Next

\* Time may end a lease; a worker that renews its lease had one.
LEMMA TickImplements ==
  ASSUME TypeOK, NEW j \in Job, Tick(j)
  PROVE  Queue!Next \/ UNCHANGED Queue!vars
<1>1. UNCHANGED <<job, workspace, issued, held>> /\ job[j].status = "RUNNING"
  BY DEF Tick
<1>2. \A k \in Job \ {j} : timeLeft'[k] = timeLeft[k]
  BY DEF Tick, TypeOK
<1>3. CASE timeLeft'[j] > 0
  BY <1>1, <1>2, <1>3 DEF Queue!vars, Tick
<1>4. CASE ~(timeLeft'[j] > 0)
  <2>1. {k \in Job : timeLeft'[k] > 0} = {k \in Job : timeLeft[k] > 0} \ {j}
    BY <1>2, <1>4
  <2>2. Queue!Expire(j)
    BY <1>1, <2>1 DEF Queue!Expire
  <2>. QED
    BY <2>2 DEF Queue!Next
<1>. QED
  BY <1>3, <1>4

LEMMA RenewImplements ==
  ASSUME TypeOK, NEW w \in Worker, Renew(w)
  PROVE  UNCHANGED Queue!vars
<1>1. \A k \in Job : timeLeft'[k] > 0 <=> timeLeft[k] > 0
  BY BoundAssumption DEF Renew, TypeOK
<1>. QED
  BY <1>1 DEF Queue!vars, Renew

\* Every step is one of the queue, or none.
LEMMA StepImplements ==
  Promise /\ Promise' /\ [Next]_vars => [Queue!Next]_Queue!vars
<1>. SUFFICES ASSUME Promise, Promise', [Next]_vars
              PROVE  Queue!Next \/ UNCHANGED Queue!vars
  OBVIOUS
<1>1. CASE UNCHANGED <<job, workspace, issued, timeLeft, held>>
  BY <1>1 DEF Queue!vars
<1>2. ASSUME NEW j \in Job, Tick(j) PROVE Queue!Next \/ UNCHANGED Queue!vars
  BY <1>2, TickImplements DEF Promise, Inv
<1>3. ASSUME NEW w \in Worker, Renew(w) PROVE UNCHANGED Queue!vars
  BY <1>3, RenewImplements DEF Promise, Inv
<1>4. ASSUME NEW w \in Worker, (\E j \in Job : ClaimJob(w, j)) \/ ClaimNothing(w) \/ CommitFinish(w)
      PROVE  Queue!Next
  BY <1>4, ClaimJobImplements, ClaimNothingImplements, CommitFinishImplements
<1>5. CASE CommitRequest
  BY <1>5, CommitRequestImplements
<1>. QED
  BY <1>1, <1>2, <1>3, <1>4, <1>5 DEF Next, vars, Request, QueueJob, Settle, AbortRequest,
     BeginClaim, BeginFinish, FinishJob, FinishRejected, AbortFinish, Crash, Rollback

LEMMA PromiseInvariant == Spec => []Promise
<1>1. Init => Writes /\ Touching
  BY ActorAssumption DEF Init, Writes, Touching, Actor, NoRow, JobsOf
<1>2. Inv /\ Writes /\ Touching /\ Inv' /\ [Next]_vars => Writes' /\ Touching'
  BY WritesStep, TouchingStep DEF Inv
<1>. QED
  BY Invariance, <1>1, <1>2, PTL DEF Spec, Promise

\* The transactions of enqueue, claim, renew and finish, however they overlap,
\* wait, roll back or crash, take effect like whole operations on the committed
\* rows, one after the other, with the status of every workspace in step: what a
\* transaction relies on is locked from its look at it to its commit.
THEOREM QueueImplemented == Spec => ImplementsQueue
<1>1. Init => Queue!Init
  <2>. SUFFICES ASSUME Init PROVE Queue!Init
    OBVIOUS
  <2>1. {j \in Job : timeLeft[j] > 0} = {}
    BY DEF Init
  <2>. QED
    BY <2>1 DEF Init, Queue!Init, NoRow, Queue!NoRow
<1>. QED
  BY <1>1, PromiseInvariant, StepImplements, PTL DEF Spec, ImplementsQueue, Queue!Spec
================================================================================
