---------------------------- MODULE ArtifactRecovery ----------------------------
(***************************************************************************)
(* Recovery of artifacts from the source host                              *)
(* (migration_management/artifact_recovery.py, recovery_worker.py).  START *)
(* sends an EXPORT command to the host through SSM; POLL looks at the      *)
(* command, and after the export sends an UPLOAD command; POLL of a        *)
(* finished upload looks the object up and records it.                     *)
(*                                                                         *)
(* A request reads the inventory and the artifact without a lock, then     *)
(* locks the source row and does the rest: each request is two steps here, *)
(* the second one atomic since the row lock is held until COMMIT.  The job *)
(* list is a part of the source row; the artifact's status is a row of its *)
(* own, which the review of a historical Job writes without that lock.     *)
(*                                                                         *)
(* A command is sent before COMMIT, and no rollback takes it back.         *)
(***************************************************************************)
EXTENDS Naturals, Sequences, FiniteSets

CONSTANTS Target,         \* what can be recovered
          Bound,          \* the targets that are artifacts of a workspace
          HistoricalJob,  \* the bound targets that a review may exclude
          Job,            \* the jobs, numbered as they are started
          Caller,         \* concurrent requests
          Screen,         \* the collection screen, which only polls by itself
          None,
          HostLimit,      \* work directories on the host: 2
          BoundLimit,     \* attempts per artifact of a workspace: 3
          UnboundLimit,   \* attempts of an assessment outside workspaces: 20
          MaxFaults, MaxUploads, MaxInventories, MaxDeliveries   \* bounds of the model

ASSUME RecoveryAssumption ==
  /\ HistoricalJob \subseteq Bound /\ Bound \subseteq Target
  /\ Screen \in Caller /\ Job \subseteq Nat /\ None \notin Job
  /\ {HostLimit, BoundLimit, UnboundLimit, MaxFaults, MaxUploads, MaxInventories, MaxDeliveries}
       \subseteq Nat

VARIABLES job,        \* [Job -> the job as the source row or a client knows it]
          listed,     \* jobs in delivery_configuration.artifactRecovery
          artifact,   \* [Bound -> the workspace_artifacts row]
          inventory,  \* the digest of the current inventory; the workspace's is 0
          export,     \* [Job -> the state of its EXPORT command]
          uploads,    \* [Job -> the states of its UPLOAD commands]
          directory,  \* [Job -> its work directory on the host]
          stored,     \* jobs whose object is in S3
          call,       \* [Caller -> the request it serves]
          faults, deliveries

requests == <<job, listed, artifact, call>>
world == <<export, uploads, directory, stored>>
vars == <<job, listed, artifact, inventory, export, uploads, directory, stored, call,
          faults, deliveries>>

CommandState == {"none", "queued", "success", "failed", "lost", "expired"}
NoJob == [status |-> "unused", target |-> None, upload |-> 0, digest |-> 0]
Idle == [op |-> "idle"]

\* What a request is about, and the inventory it has read.
Request ==
  {Idle} \cup [op: {"START"}, target: Target, digest: 0 .. MaxInventories]
         \cup [op: {"POLL"}, job: Job, digest: 0 .. MaxInventories]
         \cup [op: {"REVIEW"}, target: HistoricalJob]

TypeOK ==
  /\ job \in [Job -> [status: {"unused", "orphan", "RECOVERING", "SAVED", "CUSTOMER_INPUT_REQUIRED"},
                      target: Target \cup {None}, upload: 0 .. MaxUploads,
                      digest: 0 .. MaxInventories]]
  /\ listed \subseteq Job
  /\ artifact \in [Bound -> [status: {"PENDING", "RECOVERING", "RECOVERY_REQUIRED", "COLLECTED",
                                      "EXCLUDED_FROM_REPLAY"},
                             object: Job \cup {None}]]
  /\ inventory \in 0 .. MaxInventories
  /\ export \in [Job -> CommandState]
  /\ uploads \in [Job -> Seq(CommandState)]
  /\ directory \in [Job -> {"none", "exported"}]
  /\ stored \subseteq Job
  /\ call \in [Caller -> Request]
  /\ faults \in 0 .. MaxFaults /\ deliveries \in 0 .. MaxDeliveries

Init ==
  /\ job = [j \in Job |-> NoJob]
  /\ listed = {}
  /\ artifact = [a \in Bound |-> [status |-> "PENDING", object |-> None]]
  /\ inventory = 0
  /\ export = [j \in Job |-> "none"]
  /\ uploads = [j \in Job |-> <<>>]
  /\ directory = [j \in Job |-> "none"]
  /\ stored = {}
  /\ call = [c \in Caller |-> Idle]
  /\ faults = 0 /\ deliveries = 0

-----------------------------------------------------------------------------
(* What a request reads before it locks the source row. *)

\* workspace_context: an artifact of a workspace must not be under review, and
\* a START needs a current workspace and an artifact that is not saved.
StartAllowed(t) ==
  t \in Bound => /\ inventory = 0
                 /\ artifact[t].status \notin {"EXCLUDED_FROM_REPLAY", "COLLECTED"}

BeginStart(c, t) ==
  /\ call[c] = Idle /\ c # Screen
  /\ StartAllowed(t)
  /\ call' = [call EXCEPT ![c] = [op |-> "START", target |-> t, digest |-> inventory]]
  /\ UNCHANGED <<job, listed, artifact, inventory, world, faults, deliveries>>

\* A poll of any job the client has been told of, ended ones included.
BeginPoll(c, j) ==
  /\ call[c] = Idle
  /\ job[j].status \notin {"unused", "orphan"}
  /\ job[j].target \in Bound => artifact[job[j].target].status # "EXCLUDED_FROM_REPLAY"
  /\ call' = [call EXCEPT ![c] = [op |-> "POLL", job |-> j, digest |-> inventory]]
  /\ UNCHANGED <<job, listed, artifact, inventory, world, faults, deliveries>>

-----------------------------------------------------------------------------
(* The rest of a request, under the lock of the source row. *)

\* record_workspace_recovery, for whatever job the request was about.
Recorded(j, status) ==
  LET t == job'[j].target IN
  artifact' = IF t \notin Bound THEN artifact
              ELSE [artifact EXCEPT ![t] =
                     [status |-> CASE status = "SAVED"      -> "COLLECTED"
                                   [] status = "RECOVERING" -> "RECOVERING"
                                   [] OTHER                 -> "RECOVERY_REQUIRED",
                      object |-> IF status = "SAVED" THEN j ELSE None]]

Return(c) == call' = [call EXCEPT ![c] = Idle]

Fault == faults < MaxFaults /\ faults' = faults + 1

\* Mutant: only a recovery of the same target stands in the way.
Startable_PerTarget(t) ==
  \A j \in listed : ~(job[j].status = "RECOVERING" /\ job[j].target = t)

\* One recovery of the assessment at a time; a limited number per artifact.
Startable(t) ==
  /\ \A j \in listed : job[j].status # "RECOVERING"
  /\ IF t \in Bound THEN Cardinality({j \in listed : job[j].target = t}) < BoundLimit
                    ELSE Cardinality({j \in listed : job[j].target \notin Bound}) < UnboundLimit

\* START: the EXPORT command is sent; then the job is saved, or the
\* transaction rolls back and leaves a command that belongs to no job.
Start(c) ==
  /\ call[c].op = "START"
  /\ Startable(call[c].target)
  /\ \E j \in Job, saved \in BOOLEAN :
       /\ job[j] = NoJob /\ \A i \in Job : i < j => job[i] # NoJob
       /\ export' = [export EXCEPT ![j] = "queued"]
       /\ job' = [job EXCEPT ![j] = [status |-> IF saved THEN "RECOVERING" ELSE "orphan",
                                     target |-> call[c].target, upload |-> 0,
                                     digest |-> call[c].digest]]
       /\ IF saved THEN /\ listed' = listed \cup {j}
                        /\ Recorded(j, "RECOVERING")
                        /\ UNCHANGED faults
                   ELSE Fault /\ UNCHANGED <<listed, artifact>>
  /\ Return(c)
  /\ UNCHANGED <<inventory, uploads, directory, stored, deliveries>>

\* The state of the command that the job names.
Command(j) == IF job[j].upload = 0 THEN export[j] ELSE uploads[j][job[j].upload]

\* POLL finds the job, in the list of this assessment and for this inventory:
\* the workspace's own, or the current one when there is no workspace.
Polls(c, j) ==
  /\ call[c].op = "POLL" /\ call[c].job = j
  /\ j \in listed
  /\ job[j].digest = (IF job[j].target \in Bound THEN 0 ELSE call[c].digest)

\* The job gets a status, and its artifact with it.
Becomes(c, j, status) ==
  /\ Polls(c, j)
  /\ job' = [job EXCEPT ![j].status = status]
  /\ Recorded(j, status)
  /\ Return(c)
  /\ UNCHANGED <<listed, inventory, world, deliveries>>

\* An ended job, and a command in progress, are recorded as they are.
PollAgain(c, j) ==
  /\ job[j].status # "RECOVERING" \/ Command(j) = "queued"
  /\ Becomes(c, j, job[j].status)
  /\ UNCHANGED faults

\* InvocationDoesNotExist within the time limit: answered, nothing written.
PollMissing(c, j) ==
  /\ Polls(c, j)
  /\ job[j].status = "RECOVERING" /\ Command(j) = "lost"
  /\ Return(c)
  /\ UNCHANGED <<job, listed, artifact, inventory, world, faults, deliveries>>

\* Mutant: only a command that SSM reports can be too old.
PollEnded_OnlyReported(c, j) ==
  /\ job[j].status = "RECOVERING" /\ Command(j) = "failed"
  /\ Becomes(c, j, "CUSTOMER_INPUT_REQUIRED")
  /\ UNCHANGED faults

\* The command failed or is older than the limit: one that still runs on a slow
\* host, too, whose effect and answer come afterwards.
PollEnded(c, j) ==
  /\ job[j].status = "RECOVERING"
  /\ Becomes(c, j, "CUSTOMER_INPUT_REQUIRED")
  /\ \/ Command(j) \in {"failed", "expired"} /\ UNCHANGED faults
     \/ Command(j) = "queued" /\ Fault

\* The export is ready: the UPLOAD command is sent, and the job saved or not.
PollExported(c, j) ==
  /\ Polls(c, j)
  /\ job[j].status = "RECOVERING" /\ job[j].upload = 0 /\ export[j] = "success"
  /\ Len(uploads[j]) < MaxUploads
  /\ uploads' = [uploads EXCEPT ![j] = Append(@, "queued")]
  /\ \/ /\ job' = [job EXCEPT ![j].upload = Len(uploads[j]) + 1]
        /\ Recorded(j, "RECOVERING")
        /\ UNCHANGED faults
     \/ Fault /\ UNCHANGED <<job, artifact>>
  /\ Return(c)
  /\ UNCHANGED <<listed, inventory, export, directory, stored, deliveries>>

\* Mutant: any command that succeeded counts as a finished recovery.
PollUploaded_AnyPhase(c, j) ==
  /\ job[j].status = "RECOVERING" /\ Command(j) = "success"
  /\ Becomes(c, j, "SAVED")
  /\ UNCHANGED faults

\* The UPLOAD command has succeeded: head_object decides.
PollUploaded(c, j) ==
  /\ job[j].status = "RECOVERING" /\ job[j].upload # 0 /\ Command(j) = "success"
  /\ Becomes(c, j, IF j \in stored THEN "SAVED" ELSE "CUSTOMER_INPUT_REQUIRED")
  /\ UNCHANGED faults

\* Anything that raises while a success is handled (presigning, send_command,
\* head_object) ends the job.
PollRaises(c, j) ==
  /\ job[j].status = "RECOVERING" /\ Command(j) = "success"
  /\ Becomes(c, j, "CUSTOMER_INPUT_REQUIRED")
  /\ Fault

\* Any request that ends in an error and writes nothing.
Refused(c) ==
  /\ call[c] # Idle
  /\ Return(c)
  /\ \/ /\ call[c].op = "START" /\ ~Startable(call[c].target)
        /\ UNCHANGED faults
     \/ call[c].op = "POLL" /\ ~Polls(c, call[c].job) /\ UNCHANGED faults
     \/ Fault
  /\ UNCHANGED <<job, listed, artifact, inventory, world, deliveries>>

-----------------------------------------------------------------------------
(* The host: recovery_worker.py under the shell of the command. *)

Directories == {j \in Job : directory[j] # "none"}
HasRoom(j) == j \in Directories \/ Cardinality(Directories) < HostLimit

ExportEnds(j) ==
  /\ export[j] = "queued"
  /\ \/ /\ HasRoom(j)
        /\ export' = [export EXCEPT ![j] = "success"]
        /\ directory' = [directory EXCEPT ![j] = "exported"]
        /\ UNCHANGED faults
     \/ \* the resource or the room is missing; what was written is removed
        /\ export' = [export EXCEPT ![j] = "failed"]
        /\ directory' = [directory EXCEPT ![j] = "none"]
        /\ UNCHANGED faults
     \/ \* killed at its time limit, with the directory in place
        /\ Fault /\ HasRoom(j)
        /\ export' = [export EXCEPT ![j] = "failed"]
        /\ directory' = [directory EXCEPT ![j] = "exported"]
  /\ UNCHANGED <<requests, inventory, uploads, stored, deliveries>>

\* Mutant: the exported copy is left on the host.
AfterUpload_Kept == "exported"

\* path.unlink(), record_path.unlink(), work.rmdir().
AfterUpload == "none"

UploadEnds(j, n) ==
  /\ n \in DOMAIN uploads[j] /\ uploads[j][n] = "queued"
  /\ \/ /\ directory[j] = "exported"
        /\ uploads' = [uploads EXCEPT ![j][n] = "success"]
        /\ stored' = stored \cup {j}
        /\ directory' = [directory EXCEPT ![j] = AfterUpload]
        /\ UNCHANGED faults
     \/ \* nothing to send, or the PUT fails: the exception removes the files
        /\ uploads' = [uploads EXCEPT ![j][n] = "failed"]
        /\ directory' = [directory EXCEPT ![j] = "none"]
        /\ UNCHANGED <<stored, faults>>
     \/ \* the object is sent and the answer lost, or the command killed
        /\ Fault /\ directory[j] = "exported"
        /\ uploads' = [uploads EXCEPT ![j][n] = "failed"]
        /\ stored' = stored \cup {j}
        /\ \E d \in {"none", "exported"} : directory' = [directory EXCEPT ![j] = d]
  /\ UNCHANGED <<requests, inventory, export, deliveries>>

\* SSM does not deliver the command, or does not report it.
Lose(j) ==
  /\ Fault
  /\ \/ /\ export[j] = "queued"
        /\ export' = [export EXCEPT ![j] = "lost"]
        /\ UNCHANGED uploads
     \/ \E n \in DOMAIN uploads[j] :
          /\ uploads[j][n] = "queued"
          /\ uploads' = [uploads EXCEPT ![j][n] = "lost"]
          /\ UNCHANGED export
  /\ UNCHANGED <<requests, inventory, directory, stored, deliveries>>

\* 40 minutes pass (phase_expired) for the export, or for upload n of the job.
Expire(j, n) ==
  /\ \/ /\ n = 0 /\ export[j] = "lost"
        /\ export' = [export EXCEPT ![j] = "expired"]
        /\ UNCHANGED uploads
     \/ /\ n \in DOMAIN uploads[j] /\ uploads[j][n] = "lost"
        /\ uploads' = [uploads EXCEPT ![j][n] = "expired"]
        /\ UNCHANGED export
  /\ UNCHANGED <<requests, inventory, directory, stored, faults, deliveries>>

-----------------------------------------------------------------------------
(* Others that write the same rows. *)

\* exclude_historical_job reads the artifact and the evidence, writes a
\* receipt to S3, and updates the row it has read; it locks the migration only.
BeginReview(c, t) ==
  /\ call[c] = Idle /\ c # Screen
  /\ t \in HistoricalJob /\ inventory = 0
  /\ artifact[t].status = "RECOVERY_REQUIRED"
  /\ call' = [call EXCEPT ![c] = [op |-> "REVIEW", target |-> t]]
  /\ UNCHANGED <<job, listed, artifact, inventory, world, faults, deliveries>>

Exclude(c) ==
  /\ call[c].op = "REVIEW"
  /\ artifact' = [artifact EXCEPT ![call[c].target] =
                    [status |-> "EXCLUDED_FROM_REPLAY", object |-> None]]
  /\ Return(c)
  /\ UNCHANGED <<job, listed, inventory, world, faults, deliveries>>

\* A new discovery of the source.
NewInventory ==
  /\ inventory < MaxInventories
  /\ inventory' = inventory + 1
  /\ UNCHANGED <<requests, world, faults, deliveries>>

\* update_source_cluster_delivery keeps three keys of the JSON, and not this.
ConfigureDelivery ==
  /\ deliveries < MaxDeliveries
  /\ deliveries' = deliveries + 1
  /\ listed' = {}
  /\ UNCHANGED <<job, artifact, inventory, world, call, faults>>

-----------------------------------------------------------------------------

Poll(c) ==
  \E j \in Job :
    \/ PollAgain(c, j) \/ PollMissing(c, j) \/ PollEnded(c, j) \/ PollExported(c, j)
    \/ PollUploaded(c, j) \/ PollRaises(c, j)

Serve(c) == Start(c) \/ Poll(c) \/ Refused(c) \/ Exclude(c)

CommandEnds(j, n) == IF n = 0 THEN ExportEnds(j) ELSE UploadEnds(j, n)
Ends(j) == \E n \in 0 .. MaxUploads : CommandEnds(j, n) \/ Expire(j, n)

Next ==
  \/ \E c \in Caller :
       \/ \E t \in Target : BeginStart(c, t) \/ BeginReview(c, t)
       \/ \E j \in Job : BeginPoll(c, j)
       \/ Serve(c)
  \/ \E j \in Job : Ends(j) \/ Lose(j)
  \/ NewInventory \/ ConfigureDelivery

Spec == Init /\ [][Next]_vars

\* The screen polls a job that it shows as running.
ScreenPolls(j) == job[j].status = "RECOVERING" /\ BeginPoll(Screen, j)

\* SSM ends, or stops reporting, the command that a job waits for, and time
\* passes; an open collection screen polls the jobs it shows as running again
\* and again, whatever else the user does there.
JobFairness(j) ==
  /\ WF_vars(CommandEnds(j, job[j].upload)) /\ WF_vars(Expire(j, job[j].upload))
  /\ SF_vars(ScreenPolls(j))

\* An invocation ends.
CallFairness(c) == WF_vars(Serve(c))

Fairness ==
  /\ \A c \in Caller : CallFairness(c)
  /\ \A j \in Job : JobFairness(j)

FairSpec == Spec /\ Fairness

\* The screen may ask about j; what it has asked can be answered.
Askable(j) ==
  /\ call[Screen] = Idle
  /\ job[j].status = "RECOVERING"
  /\ job[j].target \in Bound => artifact[job[j].target].status # "EXCLUDED_FROM_REPLAY"

Answerable(j) ==
  /\ call[Screen].op = "POLL" /\ call[Screen].job = j
  /\ \/ ~Polls(Screen, j)
     \/ job[j].status # "RECOVERING"
     \/ Command(j) \in {"queued", "lost", "failed", "expired"}
     \/ Command(j) = "success" /\ (job[j].upload # 0 \/ Len(uploads[j]) < MaxUploads)

\* The guards of the steps that are scheduled fairly: each can be taken when they hold.
GuardsSuffice ==
  \A j \in Job :
    /\ Command(j) = "queued" => ENABLED <<CommandEnds(j, job[j].upload)>>_vars
    /\ Command(j) = "lost" => ENABLED <<Expire(j, job[j].upload)>>_vars
    /\ Askable(j) => ENABLED <<ScreenPolls(j)>>_vars
    /\ Answerable(j) => ENABLED <<Serve(Screen)>>_vars

-----------------------------------------------------------------------------

Running(j) == j \in listed /\ job[j].status = "RECOVERING"

\* Recovery is serialised per assessment, whatever requests overlap: the host
\* is never asked for two artifacts of it by jobs that are both saved.
OneRecovery == \A i, j \in Job : Running(i) /\ Running(j) => i = j

\* An artifact shown as saved names an object that is in the bucket, that a
\* recovery of this artifact put there, and that was verified: whatever jobs
\* overlapped, failed halfway or ran twice.
CollectedIsStored ==
  \A a \in Bound :
    artifact[a].status = "COLLECTED" =>
      \E j \in stored : /\ artifact[a].object = j /\ job[j].target = a
                        /\ job[j].status = "SAVED"

\* Without faults, ended recoveries leave nothing in the two directories the
\* host has for them: the next recovery does not meet a busy host.
HostIsClean ==
  /\ faults = 0
  /\ \A j \in Job : job[j].status # "RECOVERING"
  => Directories = {}

\* What keeps a poll from reaching its job.
Unpollable(j) == IF job[j].target \in Bound
                 THEN artifact[job[j].target].status = "EXCLUDED_FROM_REPLAY"
                 ELSE job[j].digest # inventory

\* A poll of j leads to its end: the job runs and can be polled.
Waits(j) == Running(j) /\ ~Unpollable(j)

RecoveryEnds(j) == Waits(j) ~> ~Waits(j)

\* A recovery whose screen stays open ends, in success or in a failure that can
\* be retried, although commands are lost and requests fail: unless its job
\* leaves the list or is made unpollable.
RecoveriesEnd == \A j \in Job : RecoveryEnds(j)

=============================================================================
