-------------------------- MODULE WorkspaceCollection --------------------------
(* The queue of collection jobs of a migration's artifact workspaces, and the   *)
(* workers that lease jobs from it: migration_management/workspace_collection,  *)
(* workspace_worker (repositories) and image_worker (images).                   *)
(*                                                                              *)
(* Every function of workspace_collection runs in one database transaction, at  *)
(* READ COMMITTED.  What the queue has to get right is the interleaving of those*)
(* transactions, so a transaction is a sequence of steps here.  A row a         *)
(* transaction has written is locked until the transaction ends: "job" and      *)
(* "workspace" are the committed rows, "jobDraft" and "workspaceDraft" the last *)
(* versions, which only the transaction that holds the lock sees.               *)
(*                                                                              *)
(* A job row and the artifact row it collects are one record: they are one to   *)
(* one and the artifact is written with its job only.  A lease token (a UUID)   *)
(* is the number of leases the job had given so far, and the object a worker    *)
(* stores is named by its token.                                                *)
EXTENDS Naturals, FiniteSets

CONSTANTS
  Job,          \* the artifacts that can be queued, one job row each
  Workspace,    \* the workspaces of the migration
  WorkspaceOf,  \* the workspace of a job
  Worker,       \* the concurrent runs of the two workers
  KindOf,       \* the kind of the artifact of a job
  AsksFor,      \* the kind of the jobs a worker asks for
  Requester,    \* the API call that queues jobs (one: it locks the migration)
  NoOne,        \* holder of a row nobody has locked
  LeaseTime,    \* how long a lease lasts (5 minutes)
  MaxRequests   \* bound: calls that queue jobs

Kind == {"REPOSITORY_DEFINITION", "IMAGE"}

ASSUME WorkspaceOfAssumption == WorkspaceOf \in [Job -> Workspace]
ASSUME KindAssumption == KindOf \in [Job -> Kind] /\ AsksFor \in [Worker -> Kind]
ASSUME ActorAssumption == Requester \notin Worker /\ NoOne \notin Worker \cup {Requester}
ASSUME BoundAssumption == LeaseTime \in Nat \ {0} /\ MaxRequests \in Nat

Actor == Worker \cup {Requester}
MaxAttempts == 3

\* status "ABSENT": no row was inserted yet.  token 0: null.  object 0: the
\* artifact is not COLLECTED, otherwise the token in the key of its object.
Row == [status : {"ABSENT", "QUEUED", "RUNNING", "SUCCEEDED", "FAILED"},
        attempts : 0 .. MaxAttempts, token : Nat, object : Nat]

NoRow == [status |-> "ABSENT", attempts |-> 0, token |-> 0, object |-> 0]

VARIABLES
  job,             \* the committed rows of the jobs
  jobDraft,        \* their last versions
  jobLock,         \* who has locked the row of a job
  workspace,       \* the committed status of the workspaces
  workspaceDraft,
  workspaceLock,
  issued,          \* the number of leases a job has given
  timeLeft,        \* until lease_until: the lease is live while it is positive
  pc,              \* where a worker, or the requester, is
  held,            \* the job a worker was given, and its token
  live,            \* whether the lease was live when the transaction began (now())
  unsettled,       \* the workspaces the transaction has still to settle
  queue,           \* the jobs the requester has still to queue
  requests

locks == <<jobLock, workspaceLock>>
vars == <<job, jobDraft, workspace, workspaceDraft, locks, issued, timeLeft,
          pc, held, live, unsettled, queue, requests>>

Open == {"QUEUED", "RUNNING"}
JobsOf(s) == {j \in Job : WorkspaceOf[j] = s}

Init ==
  /\ job = [j \in Job |-> NoRow]
  /\ jobDraft = job
  /\ jobLock = [j \in Job |-> NoOne]
  /\ workspace = [s \in Workspace |-> "PLANNED"]
  /\ workspaceDraft = workspace
  /\ workspaceLock = [s \in Workspace |-> NoOne]
  /\ issued = [j \in Job |-> 0]
  /\ timeLeft = [j \in Job |-> 0]
  /\ pc = [a \in Actor |-> "idle"]
  /\ held \in [Worker -> {[job |-> j, token |-> 0] : j \in Job}]
  /\ live = [w \in Worker |-> FALSE]
  /\ unsettled = [a \in Actor |-> {}]
  /\ queue = {}
  /\ requests = 0

--------------------------------------------------------------------------------
(* Transactions. *)

\* The row a transaction reads: its own version, or the committed one.
Seen(a, j) == IF jobLock[j] = a THEN jobDraft[j] ELSE job[j]

Committed(a) == [j \in Job |-> Seen(a, j)]

Release(a) ==
  /\ jobLock' = [j \in Job |-> IF jobLock[j] = a THEN NoOne ELSE jobLock[j]]
  /\ workspaceLock' =
       [s \in Workspace |-> IF workspaceLock[s] = a THEN NoOne ELSE workspaceLock[s]]
  /\ unsettled' = [unsettled EXCEPT ![a] = {}]

CommitStatuses(a) ==
  /\ workspace' = [s \in Workspace |->
                     IF workspaceLock[s] = a THEN workspaceDraft[s] ELSE workspace[s]]
  /\ UNCHANGED workspaceDraft

Rollback(a) ==
  /\ jobDraft' = [j \in Job |-> IF jobLock[j] = a THEN job[j] ELSE jobDraft[j]]
  /\ workspaceDraft' = [s \in Workspace |->
       IF workspaceLock[s] = a THEN workspace[s] ELSE workspaceDraft[s]]
  /\ Release(a)
  /\ UNCHANGED <<job, workspace>>

SettledStatus(a, s) ==
  IF \E j \in JobsOf(s) : Seen(a, j).status \in Open THEN "COLLECTING" ELSE "PARTIAL"

\* Mutant: the row of the workspace is not locked first.
MaySettle_Unlocked(s) == TRUE

MaySettle(s) == workspaceLock[s] = NoOne

\* settle: the last thing a transaction does before it commits, or, after jobs
\* were given up, before it looks for a job.
Settle(a, s) ==
  /\ pc[a] \in {"claiming", "settling"} \/ (pc[a] = "queueing" /\ queue = {})
  /\ s \in unsettled[a]
  /\ MaySettle(s)
  /\ workspaceLock' = [workspaceLock EXCEPT ![s] = a]
  /\ workspaceDraft' = [workspaceDraft EXCEPT ![s] = SettledStatus(a, s)]
  /\ unsettled' = [unsettled EXCEPT ![a] = @ \ {s}]
  /\ UNCHANGED <<job, jobDraft, jobLock, workspace, issued, timeLeft, pc, held, live,
                 queue, requests>>

--------------------------------------------------------------------------------
(* enqueue *)

\* The call reads which artifacts are not collected ...
Request(s, kind) ==
  /\ pc[Requester] = "idle"
  /\ requests < MaxRequests
  /\ requests' = requests + 1
  /\ queue' = {j \in JobsOf(s) : KindOf[j] = kind /\ job[j].object = 0}
  /\ queue' # {}
  /\ pc' = [pc EXCEPT ![Requester] = "queueing"]
  /\ unsettled' = [unsettled EXCEPT ![Requester] = {s}]
  /\ UNCHANGED <<job, jobDraft, workspace, workspaceDraft, locks, issued, timeLeft,
                 held, live>>

\* A request starts a job that is over only if it failed.
Queued(row) ==
  IF row.status \in {"ABSENT", "FAILED"}
    THEN [status |-> "QUEUED", attempts |-> 0, token |-> 0, object |-> row.object]
    ELSE row

\* ... and inserts their jobs one by one; a row in the way is locked, whatever it
\* is, and queued again when it had FAILED.
QueueJob(j) ==
  /\ pc[Requester] = "queueing"
  /\ j \in queue
  /\ jobLock[j] = NoOne
  /\ queue' = queue \ {j}
  /\ jobLock' = [jobLock EXCEPT ![j] = Requester]
  /\ jobDraft' = [jobDraft EXCEPT ![j] = Queued(job[j])]
  /\ UNCHANGED <<job, workspace, workspaceDraft, workspaceLock, issued, timeLeft, pc,
                 held, live, unsettled, requests>>

CommitRequest ==
  /\ pc[Requester] = "queueing"
  /\ queue = {}
  /\ unsettled[Requester] = {}
  /\ job' = Committed(Requester)
  /\ CommitStatuses(Requester)
  /\ Release(Requester)
  /\ pc' = [pc EXCEPT ![Requester] = "idle"]
  /\ UNCHANGED <<jobDraft, issued, timeLeft, held, live, queue, requests>>

AbortRequest ==
  /\ pc[Requester] = "queueing"
  /\ Rollback(Requester)
  /\ queue' = {}
  /\ pc' = [pc EXCEPT ![Requester] = "idle"]
  /\ UNCHANGED <<issued, timeLeft, held, live, requests>>

--------------------------------------------------------------------------------
(* claim *)

Expired(j) == job[j].status = "RUNNING" /\ timeLeft[j] = 0

\* Mutant: leases that ran out for the last time are not looked for.
Exhausted_None == {}

Exhausted == {j \in Job : Expired(j) /\ job[j].attempts >= MaxAttempts}

\* The statement waits for rows that are locked, and then looks at them again.
BeginClaim(w) ==
  /\ pc[w] = "idle"
  /\ \A j \in Exhausted : jobLock[j] = NoOne
  /\ jobLock' = [j \in Job |-> IF j \in Exhausted THEN w ELSE jobLock[j]]
  /\ jobDraft' = [j \in Job |->
       IF j \in Exhausted
         THEN [status |-> "FAILED", attempts |-> job[j].attempts, token |-> 0,
               object |-> job[j].object]
         ELSE jobDraft[j]]
  /\ unsettled' = [unsettled EXCEPT ![w] = {WorkspaceOf[j] : j \in Exhausted}]
  /\ pc' = [pc EXCEPT ![w] = "claiming"]
  /\ UNCHANGED <<job, workspace, workspaceDraft, workspaceLock, issued, timeLeft,
                 held, live, queue, requests>>

Claimable(j) == job[j].status = "QUEUED" \/ (Expired(j) /\ job[j].attempts < MaxAttempts)

\* Mutant: a row that another transaction is about to write is given too.
Candidates_Locked(w) == {j \in Job : KindOf[j] = AsksFor[w] /\ Claimable(j)}

\* FOR UPDATE SKIP LOCKED; which of the candidates is the oldest is left open.
Candidates(w) == {j \in Job : KindOf[j] = AsksFor[w] /\ Claimable(j) /\ jobLock[j] = NoOne}

Taken(j) == [status |-> "RUNNING", attempts |-> job[j].attempts + 1,
             token |-> issued[j] + 1, object |-> job[j].object]

ClaimJob(w, j) ==
  /\ pc[w] = "claiming"
  /\ unsettled[w] = {}
  /\ j \in Candidates(w)
  /\ job' = [Committed(w) EXCEPT ![j] = Taken(j)]
  /\ jobDraft' = [jobDraft EXCEPT ![j] = Taken(j)]
  /\ CommitStatuses(w)
  /\ Release(w)
  /\ issued' = [issued EXCEPT ![j] = @ + 1]
  /\ timeLeft' = [timeLeft EXCEPT ![j] = LeaseTime]
  /\ held' = [held EXCEPT ![w] = [job |-> j, token |-> issued[j] + 1]]
  /\ pc' = [pc EXCEPT ![w] = "collecting"]
  /\ UNCHANGED <<live, queue, requests>>

ClaimNothing(w) ==
  /\ pc[w] = "claiming"
  /\ unsettled[w] = {}
  /\ Candidates(w) = {}
  /\ job' = Committed(w)
  /\ CommitStatuses(w)
  /\ Release(w)
  /\ pc' = [pc EXCEPT ![w] = "idle"]
  /\ UNCHANGED <<jobDraft, issued, timeLeft, held, live, queue, requests>>

--------------------------------------------------------------------------------
(* The worker: renew and finish. *)

\* renew, by the heartbeat of the image worker, in a transaction of its own.
Renew(w) ==
  LET j == held[w].job IN
  /\ AsksFor[w] = "IMAGE"
  /\ pc[w] \in {"collecting", "publishing"}
  /\ job[j].status = "RUNNING" /\ job[j].token = held[w].token /\ timeLeft[j] > 0
  /\ jobLock[j] = NoOne
  /\ timeLeft' = [timeLeft EXCEPT ![j] = LeaseTime]
  /\ UNCHANGED <<job, jobDraft, workspace, workspaceDraft, locks, issued, pc, held,
                 live, unsettled, queue, requests>>

\* The collection ended, with a stored object or an error; the transaction that
\* says so begins.
BeginFinish(w) ==
  /\ pc[w] = "collecting"
  /\ \E ending \in {"publishing", "failing"} : pc' = [pc EXCEPT ![w] = ending]
  /\ live' = [live EXCEPT ![w] = timeLeft[held[w].job] > 0]
  /\ UNCHANGED <<job, jobDraft, workspace, workspaceDraft, locks, issued, timeLeft,
                 held, unsettled, queue, requests>>

\* Mutant: the token is not compared.
Accepted_AnyToken(w) == job[held[w].job].status = "RUNNING" /\ live[w]

Accepted(w) ==
  LET row == job[held[w].job] IN
  row.status = "RUNNING" /\ row.token = held[w].token /\ live[w]

Finished(w) ==
  LET row == job[held[w].job] IN
  IF pc[w] = "publishing"
    THEN [status |-> "SUCCEEDED", attempts |-> row.attempts, token |-> 0,
          object |-> held[w].token]
    ELSE [status |-> "FAILED", attempts |-> row.attempts, token |-> 0,
          object |-> row.object]

FinishJob(w) ==
  LET j == held[w].job IN
  /\ pc[w] \in {"publishing", "failing"}
  /\ jobLock[j] = NoOne
  /\ Accepted(w)
  /\ jobLock' = [jobLock EXCEPT ![j] = w]
  /\ jobDraft' = [jobDraft EXCEPT ![j] = Finished(w)]
  /\ unsettled' = [unsettled EXCEPT ![w] = {WorkspaceOf[j]}]
  /\ pc' = [pc EXCEPT ![w] = "settling"]
  /\ UNCHANGED <<job, workspace, workspaceDraft, workspaceLock, issued, timeLeft, held,
                 live, queue, requests>>

\* finish returns False: the object the worker stored is recorded nowhere.
FinishRejected(w) ==
  /\ pc[w] \in {"publishing", "failing"}
  /\ jobLock[held[w].job] = NoOne
  /\ ~Accepted(w)
  /\ pc' = [pc EXCEPT ![w] = "idle"]
  /\ UNCHANGED <<job, jobDraft, workspace, workspaceDraft, locks, issued, timeLeft,
                 held, live, unsettled, queue, requests>>

Publishing(w) ==
  \/ pc[w] = "publishing"
  \/ pc[w] = "settling" /\ jobDraft[held[w].job].status = "SUCCEEDED"

\* A worker whose publication raised an exception reports an error in a new
\* transaction; one whose error report raised an exception is done.
AfterException(w) ==
  /\ pc' = [pc EXCEPT ![w] = IF Publishing(w) THEN "failing" ELSE "idle"]
  /\ live' = [live EXCEPT ![w] = timeLeft[held[w].job] > 0]

\* The commit happens; its answer may be lost.
CommitFinish(w) ==
  /\ pc[w] = "settling"
  /\ unsettled[w] = {}
  /\ job' = Committed(w)
  /\ CommitStatuses(w)
  /\ Release(w)
  /\ \/ pc' = [pc EXCEPT ![w] = "idle"] /\ UNCHANGED live
     \/ AfterException(w)
  /\ UNCHANGED <<jobDraft, issued, timeLeft, held, queue, requests>>

\* A stale workspace, or a lock that was not given in time.
AbortFinish(w) ==
  /\ pc[w] \in {"publishing", "failing", "settling"}
  /\ Rollback(w)
  /\ AfterException(w)
  /\ UNCHANGED <<issued, timeLeft, held, queue, requests>>

\* The run is killed, wherever it is: its transaction is rolled back.
Crash(w) ==
  /\ pc[w] # "idle"
  /\ Rollback(w)
  /\ pc' = [pc EXCEPT ![w] = "idle"]
  /\ UNCHANGED <<issued, timeLeft, held, live, queue, requests>>

\* Time passes for a lease.
Tick(j) ==
  /\ job[j].status = "RUNNING"
  /\ timeLeft[j] > 0
  /\ timeLeft' = [timeLeft EXCEPT ![j] = @ - 1]
  /\ UNCHANGED <<job, jobDraft, workspace, workspaceDraft, locks, issued, pc, held, live,
                 unsettled, queue, requests>>

--------------------------------------------------------------------------------
Next ==
  \/ \E s \in Workspace, kind \in Kind : Request(s, kind)
  \/ \E j \in Job : QueueJob(j) \/ Tick(j)
  \/ \E a \in Actor, s \in Workspace : Settle(a, s)
  \/ CommitRequest
  \/ AbortRequest
  \/ \E w \in Worker :
       \/ BeginClaim(w)
       \/ \E j \in Job : ClaimJob(w, j)
       \/ ClaimNothing(w)
       \/ Renew(w)
       \/ BeginFinish(w)
       \/ FinishJob(w)
       \/ FinishRejected(w)
       \/ CommitFinish(w)
       \/ AbortFinish(w)
       \/ Crash(w)

Spec == Init /\ [][Next]_vars

Claim(w) == ClaimNothing(w) \/ \E j \in Job : ClaimJob(w, j)

\* Time passes, the workers are invoked every minute or loop, a call and a run
\* that is past its claim end, one way or the other, and not every claim is
\* killed half way: a claim that is possible again and again succeeds.
Fairness ==
  /\ \A j \in Job : WF_vars(Tick(j)) /\ WF_vars(QueueJob(j))
  /\ \A a \in Actor, s \in Workspace : SF_vars(Settle(a, s))
  /\ WF_vars(CommitRequest)
  /\ \A w \in Worker :
       /\ WF_vars(BeginClaim(w))
       /\ SF_vars(Claim(w))
       /\ WF_vars(BeginFinish(w))
       /\ WF_vars(FinishJob(w) \/ FinishRejected(w))
       /\ WF_vars(CommitFinish(w))

FairSpec == Spec /\ Fairness

--------------------------------------------------------------------------------
(* Properties *)

\* Every variable keeps its type; a job is never given a fourth time in a row.
TypeOK ==
  /\ job \in [Job -> Row] /\ jobDraft \in [Job -> Row]
  /\ jobLock \in [Job -> Actor \cup {NoOne}]
  /\ workspace \in [Workspace -> {"PLANNED", "COLLECTING", "PARTIAL"}]
  /\ workspaceDraft \in [Workspace -> {"PLANNED", "COLLECTING", "PARTIAL"}]
  /\ workspaceLock \in [Workspace -> Actor \cup {NoOne}]
  /\ issued \in [Job -> Nat]
  /\ timeLeft \in [Job -> 0 .. LeaseTime]
  /\ pc \in [Actor -> {"idle", "queueing", "claiming", "collecting", "publishing",
                       "failing", "settling"}]
  /\ pc[Requester] \in {"idle", "queueing"}
  /\ held \in [Worker -> [job : Job, token : Nat]]
  /\ live \in [Worker -> BOOLEAN]
  /\ unsettled \in [Actor -> SUBSET Workspace]
  /\ queue \subseteq Job
  /\ requests \in 0 .. MaxRequests

\* What a reader of a workspace sees: it is COLLECTING exactly while one of its
\* jobs is QUEUED or RUNNING, although the workers that end its jobs settle it
\* from transactions that overlap (settle locks the workspace for this).
StatusTruthful ==
  \A s \in Workspace :
    workspace[s] = "COLLECTING" <=> \E j \in JobsOf(s) : job[j].status \in Open

\* The object an artifact records was stored by the last worker its job was
\* given to, never by one whose lease ran out and was given to another.
LastHolderPublishes ==
  \A j \in Job : job[j].object # 0 => job[j].object = issued[j]

\* A collected artifact is final: no retry, late worker, second request or lost
\* answer replaces its object, reopens its job or marks it FAILED.
CollectedOnce ==
  [][\A j \in Job : job[j].status = "SUCCEEDED" => job'[j] = job[j]]_vars

\* The overlapping transactions have the effect of whole requests, claims and
\* results, one after the other, with the status of the workspaces always right:
\* what a transaction read before it had a lock decides nothing that the lock
\* does not still hold.
Queue == INSTANCE CollectionQueue WITH leased <- {j \in Job : timeLeft[j] > 0}

ImplementsQueue == Queue!Spec

\* Whatever workers crash, every job that was queued is decided in the end: no
\* job stays QUEUED or RUNNING for ever.
JobsDecided ==
  \A j \in Job : job[j].status \in Open ~> job[j].status \notin Open
================================================================================
