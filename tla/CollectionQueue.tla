---------------------------- MODULE CollectionQueue ----------------------------
(* What the queue of collection jobs promises to those who use it: requests,    *)
(* claims and results take effect one after the other, each as a whole and on   *)
(* what is committed, and the status of every workspace follows in the same     *)
(* step.  WorkspaceCollection implements it with transactions that overlap,     *)
(* wait for each other's rows and roll back.                                    *)
EXTENDS Naturals

CONSTANTS Job, Workspace, WorkspaceOf, Worker, KindOf, AsksFor, Kind, MaxAttempts

VARIABLES
  job,        \* the rows of the jobs
  workspace,  \* the status of the workspaces
  issued,     \* the number of leases a job has given
  leased,     \* the jobs whose last lease has not run out
  held        \* the last job a worker was given, and its token

vars == <<job, workspace, issued, leased, held>>

NoRow == [status |-> "ABSENT", attempts |-> 0, token |-> 0, object |-> 0]
Open == {"QUEUED", "RUNNING"}
JobsOf(s) == {j \in Job : WorkspaceOf[j] = s}

Init ==
  /\ job = [j \in Job |-> NoRow]
  /\ workspace = [s \in Workspace |-> "PLANNED"]
  /\ issued = [j \in Job |-> 0]
  /\ leased = {}
  /\ held \in [Worker -> {[job |-> j, token |-> 0] : j \in Job}]

\* A workspace is PLANNED until a job of it is queued, COLLECTING while one is
\* open, PARTIAL otherwise.
StatusOf(s, rows) ==
  CASE \E j \in JobsOf(s) : rows[j].status \in Open -> "COLLECTING"
    [] \A j \in JobsOf(s) : rows[j].status = "ABSENT" -> "PLANNED"
    [] OTHER -> "PARTIAL"

\* The rows become new, and the workspaces what follows from them.
Become(new) == job' = new /\ workspace' = [s \in Workspace |-> StatusOf(s, new)]

\* A request queues jobs of one workspace and kind; the open and the collected
\* ones among them stay as they are.
Enqueue(s, kind) ==
  /\ \E wanted \in SUBSET {j \in JobsOf(s) : KindOf[j] = kind} :
       Become([j \in Job |->
                 IF j \in wanted /\ job[j].status \in {"ABSENT", "FAILED"}
                   THEN [status |-> "QUEUED", attempts |-> 0, token |-> 0, object |-> job[j].object]
                   ELSE job[j]])
  /\ UNCHANGED <<issued, leased, held>>

\* The row of a job that is over.
Ended(row, status, object) ==
  [status |-> status, attempts |-> row.attempts, token |-> 0, object |-> object]

\* The worker that had the job last is taken for dead.
Expired(j) == job[j].status = "RUNNING" /\ j \notin leased

Exhausted == {j \in Job : Expired(j) /\ job[j].attempts = MaxAttempts}

Without(given_up) ==
  [j \in Job |-> IF j \in given_up THEN Ended(job[j], "FAILED", job[j].object) ELSE job[j]]

GiveUp ==
  /\ \E jobs \in SUBSET Exhausted : Become(Without(jobs))
  /\ UNCHANGED <<issued, leased, held>>

\* A worker is given a job nobody works on, and a token that is its own; jobs
\* may be given up with that.
Give(w, j) ==
  /\ KindOf[j] = AsksFor[w]
  /\ job[j].status = "QUEUED" \/ (Expired(j) /\ job[j].attempts < MaxAttempts)
  /\ issued' = [issued EXCEPT ![j] = @ + 1]
  /\ held' = [held EXCEPT ![w] = [job |-> j, token |-> issued[j] + 1]]
  /\ leased' = leased \cup {j}
  /\ \E jobs \in SUBSET Exhausted :
       Become([Without(jobs) EXCEPT ![j] = [status |-> "RUNNING", attempts |-> job[j].attempts + 1,
                                            token |-> issued[j] + 1, object |-> job[j].object]])

\* The result of a worker counts while its token is the job's: an object named
\* by the token, or a failure.
Finish(w) ==
  LET j == held[w].job IN
  /\ job[j].status = "RUNNING" /\ job[j].token = held[w].token
  /\ \E result \in {Ended(job[j], "SUCCEEDED", held[w].token),
                    Ended(job[j], "FAILED", job[j].object)} :
       Become([job EXCEPT ![j] = result])
  /\ UNCHANGED <<issued, leased, held>>

Expire(j) ==
  /\ job[j].status = "RUNNING"
  /\ leased' = leased \ {j}
  /\ UNCHANGED <<job, workspace, issued, held>>

Next ==
  \/ \E s \in Workspace, kind \in Kind : Enqueue(s, kind)
  \/ GiveUp
  \/ \E j \in Job : Expire(j)
  \/ \E w \in Worker : Finish(w) \/ \E j \in Job : Give(w, j)

Spec == Init /\ [][Next]_vars
================================================================================
