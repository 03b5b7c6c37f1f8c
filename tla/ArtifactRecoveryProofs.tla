------------------------- MODULE ArtifactRecoveryProofs -------------------------
(***************************************************************************)
(* Theorems of ArtifactRecovery, for any targets, jobs, requests, faults   *)
(* and limits.  A job that is saved never changes again and its object is  *)
(* in the bucket (SavedStored); without faults a job and its commands and  *)
(* directory go through one line of phases (Phase).                        *)
(***************************************************************************)
EXTENDS ArtifactRecovery, SequenceTheorems, TLAPS

\* A job that is saved has stored its object.
SavedStored == \A j \in Job : job[j].status = "SAVED" => j \in stored

\* A listed job was saved by its START.
ListedSaved == \A j \in listed : job[j].status \notin {"unused", "orphan"}

\* Job, commands and directory of a recovery that nothing disturbed.
Phase(j) ==
  \/ /\ job[j] = NoJob /\ export[j] = "none"
     /\ uploads[j] = <<>> /\ directory[j] = "none"
  \/ /\ job[j].status = "RECOVERING" /\ job[j].upload = 0
     /\ uploads[j] = <<>>
     /\ \/ export[j] = "queued" /\ directory[j] = "none"
        \/ export[j] = "success" /\ directory[j] = "exported"
  \/ /\ job[j].status \notin {"unused", "orphan"} /\ job[j].upload = 0
     /\ export[j] = "failed" /\ uploads[j] = <<>> /\ directory[j] = "none"
  \/ /\ job[j].status = "RECOVERING" /\ job[j].upload = 1
     /\ export[j] = "success" /\ uploads[j] = <<"queued">> /\ directory[j] = "exported"
  \/ /\ job[j].status \notin {"unused", "orphan"} /\ job[j].upload = 1
     /\ export[j] = "success" /\ uploads[j] \in {<<"success">>, <<"failed">>}
     /\ directory[j] = "none"

Undisturbed == faults = 0 => \A j \in Job : Phase(j)

RecoveryInv ==
  /\ TypeOK
  /\ SavedStored
  /\ ListedSaved
  /\ OneRecovery
  /\ CollectedIsStored
  /\ Undisturbed

-----------------------------------------------------------------------------
(* What the actions have in common. *)

LEMMA BoundsAreNaturals ==
  /\ MaxFaults \in Nat /\ MaxUploads \in Nat /\ MaxInventories \in Nat /\ MaxDeliveries \in Nat
  /\ HistoricalJob \subseteq Bound /\ Bound \subseteq Target /\ None \notin Job
BY RecoveryAssumption

\* A fault is counted.
LEMMA FaultCounted ==
  ASSUME TypeOK, Fault
  PROVE  faults' \in 0 .. MaxFaults /\ faults' # 0
BY BoundsAreNaturals DEF TypeOK, Fault

\* Caller c begins a request, or its request ends.
LEMMA CallTyped ==
  ASSUME TypeOK, NEW c \in Caller, NEW r \in Request, call' = [call EXCEPT ![c] = r]
  PROVE  call' \in [Caller -> Request]
BY DEF TypeOK

LEMMA ReturnTyped ==
  ASSUME TypeOK, NEW c \in Caller, Return(c)
  PROVE  call' \in [Caller -> Request]
BY DEF TypeOK, Return, Request

\* A START is about a target, a review about a historical Job.
LEMMA RequestKinds ==
  ASSUME NEW r \in Request
  PROVE  /\ r.op = "START" => r.target \in Target /\ r.digest \in 0 .. MaxInventories
         /\ r.op = "REVIEW" => r.target \in HistoricalJob
<1>1. CASE r = Idle
  BY <1>1 DEF Idle
<1>2. CASE r \in [op: {"START"}, target: Target, digest: 0 .. MaxInventories]
  BY <1>2
<1>3. CASE r \in [op: {"POLL"}, job: Job, digest: 0 .. MaxInventories]
  BY <1>3
<1>4. CASE r \in [op: {"REVIEW"}, target: HistoricalJob]
  BY <1>4
<1>. QED
  BY <1>1, <1>2, <1>3, <1>4 DEF Request

\* What Recorded writes: only the artifact of the job, and COLLECTED only with
\* the job that is saved.
LEMMA RecordedWrites ==
  ASSUME TypeOK, NEW j \in Job, NEW status, Recorded(j, status)
  PROVE  /\ artifact' \in [Bound -> [status: {"PENDING", "RECOVERING", "RECOVERY_REQUIRED",
                                              "COLLECTED", "EXCLUDED_FROM_REPLAY"},
                                     object: Job \cup {None}]]
         /\ \A a \in Bound :
              \/ artifact'[a] = artifact[a]
              \/ artifact'[a].status # "COLLECTED"
              \/ status = "SAVED" /\ job'[j].target = a /\ artifact'[a].object = j
BY DEF TypeOK, Recorded

\* Steps that change neither jobs nor the world outside.
LEMMA QuietStep ==
  ASSUME RecoveryInv, UNCHANGED <<job, artifact, world>>,
         listed' \subseteq listed, call' \in [Caller -> Request],
         inventory' \in 0 .. MaxInventories, deliveries' \in 0 .. MaxDeliveries,
         faults' = faults \/ (faults' \in 0 .. MaxFaults /\ faults' # 0)
  PROVE  RecoveryInv'
<1>1. TypeOK'
  BY DEF RecoveryInv, TypeOK, world
<1>2. SavedStored' /\ ListedSaved' /\ OneRecovery' /\ CollectedIsStored'
  BY DEF RecoveryInv, SavedStored, ListedSaved, OneRecovery, Running, CollectedIsStored, world
<1>3. Undisturbed'
  BY DEF RecoveryInv, Undisturbed, Phase, world
<1>. QED
  BY <1>1, <1>2, <1>3 DEF RecoveryInv

-----------------------------------------------------------------------------
(* Requests. *)

LEMMA BeginSteps ==
  ASSUME RecoveryInv, NEW c \in Caller,
         \/ \E t \in Target : BeginStart(c, t) \/ BeginReview(c, t)
         \/ \E j \in Job : BeginPoll(c, j)
  PROVE  RecoveryInv'
<1>1. PICK r \in Request : call' = [call EXCEPT ![c] = r]
  <2>1. ASSUME NEW t \in Target, BeginStart(c, t)
        PROVE  \E r \in Request : call' = [call EXCEPT ![c] = r]
    <3>1. [op |-> "START", target |-> t, digest |-> inventory] \in Request
      BY DEF Request, RecoveryInv, TypeOK
    <3>. QED
      BY <2>1, <3>1 DEF BeginStart
  <2>2. ASSUME NEW t \in Target, BeginReview(c, t)
        PROVE  \E r \in Request : call' = [call EXCEPT ![c] = r]
    <3>1. [op |-> "REVIEW", target |-> t] \in Request
      BY <2>2 DEF Request, BeginReview
    <3>. QED
      BY <2>2, <3>1 DEF BeginReview
  <2>3. ASSUME NEW j \in Job, BeginPoll(c, j)
        PROVE  \E r \in Request : call' = [call EXCEPT ![c] = r]
    <3>1. [op |-> "POLL", job |-> j, digest |-> inventory] \in Request
      BY DEF Request, RecoveryInv, TypeOK
    <3>. QED
      BY <2>3, <3>1 DEF BeginPoll
  <2>. QED
    BY <2>1, <2>2, <2>3
<1>2. UNCHANGED <<job, listed, artifact, inventory, world, faults, deliveries>>
  BY DEF BeginStart, BeginReview, BeginPoll
<1>3. call' \in [Caller -> Request]
  BY <1>1, CallTyped DEF RecoveryInv
<1>. QED
  BY <1>2, <1>3, QuietStep DEF RecoveryInv, TypeOK

\* A job is given to a START: nothing else of the assessment runs.
LEMMA StartStep ==
  ASSUME RecoveryInv, NEW c \in Caller, Start(c)
  PROVE  RecoveryInv'
<1>1. call[c].target \in Target /\ call[c].digest \in 0 .. MaxInventories
  <2>1. call[c] \in Request /\ call[c].op = "START"
    BY DEF RecoveryInv, TypeOK, Start
  <2>. QED
    BY <2>1, RequestKinds
<1>2. PICK j \in Job, saved \in BOOLEAN :
        /\ job[j] = NoJob
        /\ export' = [export EXCEPT ![j] = "queued"]
        /\ job' = [job EXCEPT ![j] = [status |-> IF saved THEN "RECOVERING" ELSE "orphan",
                                      target |-> call[c].target, upload |-> 0,
                                      digest |-> call[c].digest]]
        /\ IF saved THEN /\ listed' = listed \cup {j}
                         /\ Recorded(j, "RECOVERING")
                         /\ UNCHANGED faults
                    ELSE Fault /\ UNCHANGED <<listed, artifact>>
  BY DEF Start
<1>3. /\ call' \in [Caller -> Request]
      /\ UNCHANGED <<inventory, uploads, directory, stored, deliveries>>
      /\ Startable(call[c].target)
  BY ReturnTyped DEF Start, RecoveryInv
<1>4. /\ artifact' \in [Bound -> [status: {"PENDING", "RECOVERING", "RECOVERY_REQUIRED",
                                           "COLLECTED", "EXCLUDED_FROM_REPLAY"},
                                  object: Job \cup {None}]]
      /\ \A a \in Bound : artifact'[a] = artifact[a] \/ artifact'[a].status # "COLLECTED"
  BY <1>2, RecordedWrites DEF RecoveryInv, TypeOK
<1>5. job' \in [Job -> [status: {"unused", "orphan", "RECOVERING", "SAVED",
                                 "CUSTOMER_INPUT_REQUIRED"},
                        target: Target \cup {None}, upload: 0 .. MaxUploads,
                        digest: 0 .. MaxInventories]]
  BY <1>1, <1>2, BoundsAreNaturals DEF RecoveryInv, TypeOK
<1>6. /\ job'[j].status \in {"RECOVERING", "orphan"} /\ job'[j].upload = 0
      /\ \A i \in Job \ {j} : job'[i] = job[i] /\ export'[i] = export[i]
      /\ export'[j] = "queued"
  BY <1>2 DEF RecoveryInv, TypeOK
<1>7. /\ faults' \in 0 .. MaxFaults
      /\ faults' = 0 => faults = 0 /\ saved
  <2>1. CASE saved
    <3>1. faults' = faults
      BY <1>2, <2>1
    <3>. QED
      BY <2>1, <3>1 DEF RecoveryInv, TypeOK
  <2>2. CASE ~saved
    <3>1. Fault
      BY <1>2, <2>2
    <3>. QED
      BY <3>1, FaultCounted DEF RecoveryInv
  <2>. QED
    BY <2>1, <2>2
<1>8. TypeOK'
  <2>1. export' \in [Job -> CommandState]
    BY <1>2 DEF RecoveryInv, TypeOK, CommandState
  <2>2. listed' \subseteq Job
    BY <1>2 DEF RecoveryInv, TypeOK
  <2>3. /\ inventory' \in 0 .. MaxInventories /\ stored' \subseteq Job
        /\ uploads' \in [Job -> Seq(CommandState)]
        /\ directory' \in [Job -> {"none", "exported"}]
        /\ deliveries' \in 0 .. MaxDeliveries
    BY <1>3 DEF RecoveryInv, TypeOK
  <2>. QED
    BY <1>3, <1>4, <1>5, <1>7, <2>1, <2>2, <2>3 DEF TypeOK
<1>9. SavedStored' /\ ListedSaved'
  <2>1. SavedStored'
    BY <1>3, <1>6 DEF RecoveryInv, SavedStored
  <2>2. listed' = listed \/ (saved /\ listed' = listed \cup {j})
    BY <1>2
  <2>3. listed \subseteq Job /\ j \notin listed
    BY <1>2 DEF RecoveryInv, TypeOK, ListedSaved, NoJob
  <2>4. saved => job'[j].status = "RECOVERING"
    BY <1>2 DEF RecoveryInv, TypeOK
  <2>5. ListedSaved'
    BY <1>6, <2>2, <2>3, <2>4 DEF RecoveryInv, ListedSaved
  <2>. QED
    BY <2>1, <2>5
<1>10. OneRecovery'
  BY <1>2, <1>3, <1>6 DEF RecoveryInv, OneRecovery, Running, Startable
<1>11. CollectedIsStored'
  <2>1. ASSUME NEW i \in stored, job[i].status = "SAVED", i \in Job
        PROVE  i \in stored' /\ job'[i] = job[i]
    BY <1>2, <1>3, <1>6, <2>1 DEF NoJob
  <2>. QED
    BY <1>4, <2>1 DEF RecoveryInv, CollectedIsStored, TypeOK
<1>12. Undisturbed'
  <2>1. ASSUME faults' = 0, NEW i \in Job \ {j}  PROVE Phase(i)'
    BY <1>3, <1>6, <1>7, <2>1 DEF RecoveryInv, Undisturbed, Phase
  <2>2. ASSUME faults' = 0  PROVE Phase(j)'
    <3>1. job'[j].status = "RECOVERING"
      BY <1>2, <1>7, <2>2 DEF RecoveryInv, TypeOK
    <3>2. uploads[j] = <<>> /\ directory[j] = "none"
      BY <1>2, <1>7, <2>2 DEF RecoveryInv, Undisturbed, Phase, NoJob
    <3>. QED
      BY <1>3, <1>6, <3>1, <3>2 DEF Phase
  <2>. QED
    BY <2>1, <2>2 DEF Undisturbed
<1>. QED
  BY <1>8, <1>9, <1>10, <1>11, <1>12 DEF RecoveryInv

\* A poll that changes the status of its job, and with it its artifact: a job
\* that runs may end, saved if its object is stored; one that has ended stays.
LEMMA BecomesStep ==
  ASSUME RecoveryInv, NEW c \in Caller, NEW j \in Job,
         NEW status \in {"RECOVERING", "SAVED", "CUSTOMER_INPUT_REQUIRED"},
         Becomes(c, j, status),
         status # job[j].status => job[j].status = "RECOVERING",
         status = "SAVED" => j \in stored,
         \/ /\ faults' = faults
            /\ faults = 0 /\ status # job[j].status => Command(j) \in {"success", "failed"}
            /\ faults = 0 /\ status # job[j].status /\ Command(j) = "success" => job[j].upload # 0
         \/ Fault
  PROVE  RecoveryInv'
<1>1. /\ Recorded(j, status)
      /\ job' = [job EXCEPT ![j].status = status]
      /\ UNCHANGED <<listed, inventory, world, deliveries>>
      /\ call' \in [Caller -> Request]
      /\ j \in listed
  BY ReturnTyped DEF Becomes, Polls, RecoveryInv
<1>2. /\ job' \in [Job -> [status: {"unused", "orphan", "RECOVERING", "SAVED",
                                    "CUSTOMER_INPUT_REQUIRED"},
                           target: Target \cup {None}, upload: 0 .. MaxUploads,
                           digest: 0 .. MaxInventories]]
      /\ \A i \in Job \ {j} : job'[i] = job[i]
      /\ job'[j].status = status /\ job'[j].upload = job[j].upload
      /\ \A i \in Job : job'[i].target = job[i].target
  BY <1>1 DEF RecoveryInv, TypeOK
<1>3. /\ artifact' \in [Bound -> [status: {"PENDING", "RECOVERING", "RECOVERY_REQUIRED",
                                           "COLLECTED", "EXCLUDED_FROM_REPLAY"},
                                  object: Job \cup {None}]]
      /\ \A a \in Bound :
           \/ artifact'[a] = artifact[a]
           \/ artifact'[a].status # "COLLECTED"
           \/ status = "SAVED" /\ job'[j].target = a /\ artifact'[a].object = j
  BY <1>1, RecordedWrites DEF RecoveryInv
<1>4. faults' \in 0 .. MaxFaults
  BY FaultCounted DEF RecoveryInv, TypeOK
<1>5. TypeOK'
  BY <1>1, <1>2, <1>3, <1>4 DEF RecoveryInv, TypeOK, world
<1>6. SavedStored' /\ ListedSaved'
  BY <1>1, <1>2 DEF RecoveryInv, TypeOK, SavedStored, ListedSaved, world
<1>7. OneRecovery'
  BY <1>1, <1>2 DEF RecoveryInv, OneRecovery, Running
<1>8. CollectedIsStored'
  <2>1. ASSUME NEW i \in Job, i \in stored, job[i].status = "SAVED"
        PROVE  i \in stored' /\ job'[i].status = "SAVED"
    BY <1>1, <1>2, <2>1 DEF world
  <2>2. stored \subseteq Job /\ stored' = stored
    BY <1>1 DEF RecoveryInv, TypeOK, world
  <2>. QED
    BY <1>2, <1>3, <2>1, <2>2 DEF RecoveryInv, CollectedIsStored
<1>9. Undisturbed'
  <2>. SUFFICES ASSUME faults' = 0, NEW i \in Job  PROVE Phase(i)'
    BY DEF Undisturbed
  <2>1. faults' = faults /\ faults = 0 /\ Phase(i) /\ Phase(j)
    BY FaultCounted DEF RecoveryInv, Undisturbed
  <2>2. CASE i # j \/ status = job[j].status
    <3>1. job'[i] = job[i]
      BY <1>1, <1>2, <2>2 DEF RecoveryInv, TypeOK
    <3>. QED
      BY <1>1, <2>1, <3>1 DEF Phase, world
  <2>3. CASE i = j /\ status # job[j].status
    <3>1. /\ Command(j) \in {"success", "failed"}
          /\ Command(j) = "success" => job[j].upload # 0
          /\ job[j].status = "RECOVERING"
      BY <2>1, <2>3, FaultCounted DEF RecoveryInv
    <3>2. \/ /\ job[j].upload = 0 /\ export[j] = "failed"
             /\ uploads[j] = <<>> /\ directory[j] = "none"
          \/ /\ job[j].upload = 1 /\ export[j] = "success"
             /\ uploads[j] \in {<<"success">>, <<"failed">>} /\ directory[j] = "none"
      <4>1. <<"queued">>[1] = "queued"
        OBVIOUS
      <4>. QED
        BY <2>1, <3>1, <4>1 DEF Phase, Command, NoJob
    <3>. QED
      BY <1>1, <1>2, <2>3, <3>2 DEF Phase, world
  <2>. QED
    BY <2>2, <2>3
<1>. QED
  BY <1>5, <1>6, <1>7, <1>8, <1>9 DEF RecoveryInv

\* The UPLOAD command is sent.
LEMMA ExportedStep ==
  ASSUME RecoveryInv, NEW c \in Caller, NEW j \in Job, PollExported(c, j)
  PROVE  RecoveryInv'
<1>1. /\ job[j].status = "RECOVERING" /\ job[j].upload = 0 /\ export[j] = "success"
      /\ uploads' = [uploads EXCEPT ![j] = Append(@, "queued")]
      /\ UNCHANGED <<listed, inventory, export, directory, stored, deliveries>>
      /\ call' \in [Caller -> Request]
  BY ReturnTyped DEF PollExported, RecoveryInv
<1>2. uploads[j] \in Seq(CommandState) /\ Len(uploads[j]) \in Nat /\ Len(uploads[j]) < MaxUploads
  BY DEF RecoveryInv, TypeOK, PollExported
<1>3. uploads' \in [Job -> Seq(CommandState)]
  <2>1. Append(uploads[j], "queued") \in Seq(CommandState)
    BY <1>2, AppendProperties DEF CommandState
  <2>. QED
    BY <1>1, <2>1 DEF RecoveryInv, TypeOK
<1>4. \/ /\ job' = [job EXCEPT ![j].upload = Len(uploads[j]) + 1]
         /\ Recorded(j, "RECOVERING")
         /\ UNCHANGED faults
      \/ Fault /\ UNCHANGED <<job, artifact>>
  BY DEF PollExported
<1>5. Len(uploads[j]) + 1 \in 0 .. MaxUploads
  BY <1>2, BoundsAreNaturals
<1>6. /\ job' \in [Job -> [status: {"unused", "orphan", "RECOVERING", "SAVED",
                                    "CUSTOMER_INPUT_REQUIRED"},
                           target: Target \cup {None}, upload: 0 .. MaxUploads,
                           digest: 0 .. MaxInventories]]
      /\ \A i \in Job \ {j} : job'[i] = job[i]
      /\ \A i \in Job : job'[i].status = job[i].status /\ job'[i].target = job[i].target
  <2>1. CASE job' = [job EXCEPT ![j].upload = Len(uploads[j]) + 1]
    <3>1. [job[j] EXCEPT !.upload = Len(uploads[j]) + 1]
            \in [status: {"unused", "orphan", "RECOVERING", "SAVED", "CUSTOMER_INPUT_REQUIRED"},
                target: Target \cup {None}, upload: 0 .. MaxUploads,
                digest: 0 .. MaxInventories]
      <4>1. job[j] \in [status: {"unused", "orphan", "RECOVERING", "SAVED",
                                "CUSTOMER_INPUT_REQUIRED"},
                        target: Target \cup {None}, upload: 0 .. MaxUploads,
                        digest: 0 .. MaxInventories]
        BY DEF RecoveryInv, TypeOK
      <4>. QED
        BY <1>5, <4>1
    <3>2. job' = [job EXCEPT ![j] = [job[j] EXCEPT !.upload = Len(uploads[j]) + 1]]
      BY <2>1
    <3>3. /\ \A i \in Job \ {j} : job'[i] = job[i]
          /\ job'[j] = [job[j] EXCEPT !.upload = Len(uploads[j]) + 1]
          /\ job' \in [Job -> [status: {"unused", "orphan", "RECOVERING", "SAVED",
                                        "CUSTOMER_INPUT_REQUIRED"},
                               target: Target \cup {None}, upload: 0 .. MaxUploads,
                               digest: 0 .. MaxInventories]]
      BY <3>1, <3>2 DEF RecoveryInv, TypeOK
    <3>4. job'[j].status = job[j].status /\ job'[j].target = job[j].target
      BY <3>3 DEF RecoveryInv, TypeOK
    <3>. QED
      BY <3>3, <3>4
  <2>2. CASE job' = job
    BY <2>2 DEF RecoveryInv, TypeOK
  <2>. QED
    BY <1>4, <2>1, <2>2
<1>7. /\ artifact' \in [Bound -> [status: {"PENDING", "RECOVERING", "RECOVERY_REQUIRED",
                                           "COLLECTED", "EXCLUDED_FROM_REPLAY"},
                                  object: Job \cup {None}]]
      /\ \A a \in Bound : artifact'[a] = artifact[a] \/ artifact'[a].status # "COLLECTED"
  BY <1>4, RecordedWrites DEF RecoveryInv, TypeOK
<1>8. /\ faults' \in 0 .. MaxFaults
      /\ faults' = 0 => faults = 0 /\ job' = [job EXCEPT ![j].upload = Len(uploads[j]) + 1]
  BY <1>4, FaultCounted DEF RecoveryInv, TypeOK
<1>9. TypeOK'
  BY <1>1, <1>3, <1>6, <1>7, <1>8 DEF RecoveryInv, TypeOK
<1>10. SavedStored' /\ ListedSaved' /\ OneRecovery'
  BY <1>1, <1>6 DEF RecoveryInv, TypeOK, SavedStored, ListedSaved, OneRecovery, Running
<1>11. CollectedIsStored'
  <2>1. stored \subseteq Job
    BY DEF RecoveryInv, TypeOK
  <2>. QED
    BY <1>1, <1>6, <1>7, <2>1 DEF RecoveryInv, CollectedIsStored
<1>12. Undisturbed'
  <2>. SUFFICES ASSUME faults' = 0, NEW i \in Job  PROVE Phase(i)'
    BY DEF Undisturbed
  <2>1. faults = 0 /\ Phase(i) /\ Phase(j)
    BY <1>8 DEF RecoveryInv, Undisturbed
  <2>2. CASE i # j
    <3>1. uploads'[i] = uploads[i]
      BY <1>1, <2>2 DEF RecoveryInv, TypeOK
    <3>. QED
      BY <1>1, <1>6, <2>1, <2>2, <3>1 DEF Phase
  <2>3. CASE i = j
    <3>1. uploads[j] = <<>> /\ directory[j] = "exported"
      BY <1>1, <2>1 DEF Phase, NoJob
    <3>2. uploads'[j] = <<"queued">>
      BY <1>1, <3>1 DEF RecoveryInv, TypeOK
    <3>3. Len(uploads[j]) + 1 = 1
      BY <3>1
    <3>4. job'[j].upload = 1
      BY <1>8, <2>1, <3>3 DEF RecoveryInv, TypeOK
    <3>. QED
      BY <1>1, <1>6, <2>3, <3>1, <3>2, <3>4 DEF Phase
  <2>. QED
    BY <2>2, <2>3
<1>. QED
  BY <1>9, <1>10, <1>11, <1>12 DEF RecoveryInv

\* A poll.
LEMMA PollStep ==
  ASSUME RecoveryInv, NEW c \in Caller, Poll(c)
  PROVE  RecoveryInv'
<1>1. PICK j \in Job :
        \/ PollAgain(c, j) \/ PollMissing(c, j) \/ PollEnded(c, j) \/ PollExported(c, j)
        \/ PollUploaded(c, j) \/ PollRaises(c, j)
  BY DEF Poll
<1>2. CASE PollAgain(c, j)
  <2>1. /\ Becomes(c, j, job[j].status) /\ j \in listed /\ faults' = faults
        /\ job[j].status # "RECOVERING" \/ Command(j) = "queued"
    BY <1>2 DEF PollAgain, Becomes, Polls
  <2>2. job[j].status \in {"RECOVERING", "SAVED", "CUSTOMER_INPUT_REQUIRED"}
    BY <2>1 DEF RecoveryInv, TypeOK, ListedSaved
  <2>3. job[j].status = "SAVED" => j \in stored
    BY DEF RecoveryInv, SavedStored
  <2>. QED
    BY <2>1, <2>2, <2>3, BecomesStep
<1>3. CASE PollMissing(c, j)
  BY <1>3, ReturnTyped, QuietStep DEF PollMissing, RecoveryInv, TypeOK
<1>4. CASE PollEnded(c, j)
  <2>1. /\ Becomes(c, j, "CUSTOMER_INPUT_REQUIRED") /\ job[j].status = "RECOVERING"
        /\ \/ Command(j) \in {"failed", "expired"} /\ faults' = faults
           \/ Fault
    BY <1>4 DEF PollEnded
  <2>2. faults = 0 => Command(j) # "expired"
    BY <2>1 DEF RecoveryInv, Undisturbed, Phase, Command, NoJob
  <2>. QED
    BY <2>1, <2>2, BecomesStep
<1>5. CASE PollExported(c, j)
  BY <1>5, ExportedStep
<1>6. CASE PollUploaded(c, j)
  BY <1>6, BecomesStep DEF PollUploaded
<1>7. CASE PollRaises(c, j)
  BY <1>7, BecomesStep DEF PollRaises
<1>. QED
  BY <1>1, <1>2, <1>3, <1>4, <1>5, <1>6, <1>7

\* A request that is refused.
LEMMA RefusedStep ==
  ASSUME RecoveryInv, NEW c \in Caller, Refused(c)
  PROVE  RecoveryInv'
<1>1. faults' = faults \/ (faults' \in 0 .. MaxFaults /\ faults' # 0)
  BY FaultCounted DEF Refused, RecoveryInv
<1>. QED
  BY <1>1, ReturnTyped, QuietStep DEF Refused, RecoveryInv, TypeOK

\* A review excludes its artifact, which is saved no longer.
LEMMA ExcludeStep ==
  ASSUME RecoveryInv, NEW c \in Caller, Exclude(c)
  PROVE  RecoveryInv'
<1>1. call[c].target \in Bound
  <2>1. call[c] \in Request /\ call[c].op = "REVIEW"
    BY DEF RecoveryInv, TypeOK, Exclude
  <2>. QED
    BY <2>1, RequestKinds, BoundsAreNaturals
<1>2. /\ artifact' = [artifact EXCEPT ![call[c].target] =
                       [status |-> "EXCLUDED_FROM_REPLAY", object |-> None]]
      /\ call' \in [Caller -> Request]
      /\ UNCHANGED <<job, listed, inventory, world, faults, deliveries>>
  BY ReturnTyped DEF Exclude, RecoveryInv
<1>3. /\ artifact' \in [Bound -> [status: {"PENDING", "RECOVERING", "RECOVERY_REQUIRED",
                                           "COLLECTED", "EXCLUDED_FROM_REPLAY"},
                                  object: Job \cup {None}]]
      /\ \A a \in Bound : artifact'[a] = artifact[a] \/ artifact'[a].status # "COLLECTED"
  BY <1>1, <1>2 DEF RecoveryInv, TypeOK
<1>4. TypeOK'
  BY <1>2, <1>3 DEF RecoveryInv, TypeOK, world
<1>5. SavedStored' /\ OneRecovery' /\ ListedSaved'
  BY <1>2 DEF RecoveryInv, SavedStored, OneRecovery, Running, ListedSaved, world
<1>6. CollectedIsStored'
  BY <1>2, <1>3 DEF RecoveryInv, CollectedIsStored, world
<1>7. Undisturbed'
  BY <1>2 DEF RecoveryInv, Undisturbed, Phase, world
<1>. QED
  BY <1>4, <1>5, <1>6, <1>7 DEF RecoveryInv

-----------------------------------------------------------------------------
(* The host. *)

\* Steps of the host and of SSM: they may add objects and change nothing that a
\* request writes.
LEMMA HostStep ==
  ASSUME RecoveryInv, UNCHANGED <<requests, inventory, deliveries>>,
         export' \in [Job -> CommandState], uploads' \in [Job -> Seq(CommandState)],
         directory' \in [Job -> {"none", "exported"}],
         stored \subseteq stored', stored' \subseteq Job,
         faults' \in 0 .. MaxFaults,
         Undisturbed'
  PROVE  RecoveryInv'
<1>1. TypeOK'
  BY DEF RecoveryInv, TypeOK, requests
<1>2. SavedStored' /\ OneRecovery' /\ ListedSaved'
  BY DEF RecoveryInv, SavedStored, OneRecovery, Running, ListedSaved, requests
<1>3. CollectedIsStored'
  BY DEF RecoveryInv, CollectedIsStored, requests
<1>. QED
  BY <1>1, <1>2, <1>3 DEF RecoveryInv

\* A command among the uploads of a job gets another state.
LEMMA UploadTyped ==
  ASSUME TypeOK, NEW j \in Job, NEW n \in DOMAIN uploads[j], NEW s \in CommandState,
         uploads' = [uploads EXCEPT ![j][n] = s]
  PROVE  uploads' \in [Job -> Seq(CommandState)]
<1>1. uploads[j] \in Seq(CommandState) /\ n \in 1 .. Len(uploads[j])
  BY DEF TypeOK
<1>2. [uploads[j] EXCEPT ![n] = s] \in Seq(CommandState)
  BY <1>1, ExceptSeq
<1>. QED
  BY <1>2 DEF TypeOK

LEMMA ExportEndsStep ==
  ASSUME RecoveryInv, NEW j \in Job, ExportEnds(j)
  PROVE  RecoveryInv'
<1>1. PICK e \in {"success", "failed"}, d \in {"none", "exported"} :
        /\ export[j] = "queued"
        /\ export' = [export EXCEPT ![j] = e]
        /\ directory' = [directory EXCEPT ![j] = d]
        /\ \/ faults' = faults /\ (e = "success" <=> d = "exported")
           \/ Fault
        /\ UNCHANGED <<requests, inventory, uploads, stored, deliveries>>
  BY DEF ExportEnds
<1>2. faults' \in 0 .. MaxFaults /\ (faults' = 0 => faults' = faults /\ ~Fault)
  BY <1>1, FaultCounted DEF RecoveryInv, TypeOK
<1>3. Undisturbed'
  <2>. SUFFICES ASSUME faults' = 0, NEW i \in Job  PROVE Phase(i)'
    BY DEF Undisturbed
  <2>1. Phase(i) /\ (e = "success" <=> d = "exported")
    BY <1>1, <1>2 DEF RecoveryInv, Undisturbed
  <2>2. CASE i # j
    BY <1>1, <2>1, <2>2 DEF Phase, requests, RecoveryInv, TypeOK
  <2>3. CASE i = j
    <3>1. export'[j] = e /\ directory'[j] = d
      BY <1>1 DEF RecoveryInv, TypeOK
    <3>. QED
      BY <1>1, <2>1, <2>3, <3>1 DEF Phase, requests, NoJob
  <2>. QED
    BY <2>2, <2>3
<1>4. /\ export' \in [Job -> CommandState]
      /\ directory' \in [Job -> {"none", "exported"}]
  BY <1>1 DEF RecoveryInv, TypeOK, CommandState
<1>. QED
  BY <1>1, <1>2, <1>3, <1>4, HostStep DEF RecoveryInv, TypeOK

LEMMA UploadEndsStep ==
  ASSUME RecoveryInv, NEW j \in Job, NEW n, UploadEnds(j, n)
  PROVE  RecoveryInv'
<1>1. PICK s \in {"success", "failed"}, d \in {"none", "exported"} :
        /\ n \in DOMAIN uploads[j] /\ uploads[j][n] = "queued"
        /\ uploads' = [uploads EXCEPT ![j][n] = s]
        /\ directory' = [directory EXCEPT ![j] = d]
        /\ stored' \in {stored, stored \cup {j}}
        /\ \/ faults' = faults /\ d = "none"
           \/ Fault
        /\ UNCHANGED <<requests, inventory, export, deliveries>>
  BY DEF UploadEnds, AfterUpload
<1>2. faults' \in 0 .. MaxFaults /\ (faults' = 0 => faults' = faults /\ ~Fault)
  BY <1>1, FaultCounted DEF RecoveryInv, TypeOK
<1>3. Undisturbed'
  <2>. SUFFICES ASSUME faults' = 0, NEW i \in Job  PROVE Phase(i)'
    BY DEF Undisturbed
  <2>1. Phase(i) /\ Phase(j) /\ d = "none"
    BY <1>1, <1>2 DEF RecoveryInv, Undisturbed
  <2>2. CASE i # j
    BY <1>1, <2>1, <2>2 DEF Phase, requests, RecoveryInv, TypeOK
  <2>3. CASE i = j
    <3>1. n = 1 /\ uploads[j] = <<"queued">>
      BY <1>1, <2>1 DEF Phase
    <3>2. uploads'[j] = <<s>>
      BY <1>1, <3>1 DEF RecoveryInv, TypeOK
    <3>3. directory'[j] = "none"
      BY <1>1, <2>1 DEF RecoveryInv, TypeOK
    <3>4. job[j].status = "RECOVERING" /\ job[j].upload = 1 /\ export[j] = "success"
      BY <2>1, <3>1 DEF Phase
    <3>. QED
      BY <1>1, <2>3, <3>2, <3>3, <3>4 DEF Phase, requests
  <2>. QED
    BY <2>2, <2>3
<1>4. uploads' \in [Job -> Seq(CommandState)]
  BY <1>1, UploadTyped DEF RecoveryInv, CommandState
<1>5. /\ directory' \in [Job -> {"none", "exported"}] /\ export' \in [Job -> CommandState]
      /\ stored \subseteq stored' /\ stored' \subseteq Job
  BY <1>1 DEF RecoveryInv, TypeOK
<1>. QED
  BY <1>1, <1>2, <1>3, <1>4, <1>5, HostStep

\* SSM loses a command, and time passes: not without a fault.
LEMMA SsmSteps ==
  ASSUME RecoveryInv, NEW j \in Job, NEW m, Lose(j) \/ Expire(j, m)
  PROVE  RecoveryInv'
<1>1. /\ UNCHANGED <<requests, inventory, directory, stored, deliveries>>
      /\ \/ export' \in [Job -> CommandState] /\ uploads' = uploads
         \/ export' = export /\ uploads' \in [Job -> Seq(CommandState)]
  <2>1. ASSUME NEW s \in {"lost", "expired"}, export' = [export EXCEPT ![j] = s]
        PROVE  export' \in [Job -> CommandState]
    BY <2>1 DEF RecoveryInv, TypeOK, CommandState
  <2>2. ASSUME NEW s \in {"lost", "expired"}, NEW n \in DOMAIN uploads[j],
               uploads' = [uploads EXCEPT ![j][n] = s]
        PROVE  uploads' \in [Job -> Seq(CommandState)]
    BY <2>2, UploadTyped DEF RecoveryInv, CommandState
  <2>. QED
    BY <2>1, <2>2 DEF Lose, Expire
<1>2. faults' \in 0 .. MaxFaults
  BY FaultCounted DEF RecoveryInv, TypeOK, Lose, Expire
<1>3. Undisturbed'
  <2>1. CASE Lose(j)
    BY <2>1, FaultCounted DEF Lose, RecoveryInv, Undisturbed
  <2>2. CASE Expire(j, m)
    <3>. SUFFICES ASSUME faults = 0  PROVE FALSE
      BY <2>2 DEF Expire, Undisturbed
    <3>. QED
      BY <2>2 DEF Expire, RecoveryInv, Undisturbed, Phase
  <2>. QED
    BY <2>1, <2>2
<1>. QED
  BY <1>1, <1>2, <1>3, HostStep DEF RecoveryInv, TypeOK

-----------------------------------------------------------------------------
(* The invariant. *)

LEMMA RecoveryInit == Init => RecoveryInv
<1>. SUFFICES ASSUME Init  PROVE RecoveryInv
  OBVIOUS
<1>1. TypeOK
  <2>1. <<>> \in Seq(CommandState)
    OBVIOUS
  <2>. QED
    BY <2>1, BoundsAreNaturals DEF Init, TypeOK, CommandState, NoJob, Request
<1>2. SavedStored /\ OneRecovery /\ ListedSaved /\ CollectedIsStored
  BY DEF Init, SavedStored, OneRecovery, Running, ListedSaved, CollectedIsStored, NoJob
<1>3. Undisturbed
  BY DEF Init, Undisturbed, Phase
<1>. QED
  BY <1>1, <1>2, <1>3 DEF RecoveryInv

LEMMA RecoveryNext == RecoveryInv /\ [Next]_vars => RecoveryInv'
<1>. SUFFICES ASSUME RecoveryInv, [Next]_vars  PROVE RecoveryInv'
  OBVIOUS
<1>1. CASE UNCHANGED vars
  BY <1>1, QuietStep DEF vars, world, RecoveryInv, TypeOK
<1>2. ASSUME NEW c \in Caller,
             \/ \E t \in Target : BeginStart(c, t) \/ BeginReview(c, t)
             \/ \E j \in Job : BeginPoll(c, j)
             \/ Serve(c)
      PROVE  RecoveryInv'
  BY <1>2, BeginSteps, StartStep, PollStep, RefusedStep, ExcludeStep DEF Serve
<1>3. ASSUME NEW j \in Job, Ends(j) \/ Lose(j)  PROVE RecoveryInv'
  BY <1>3, ExportEndsStep, UploadEndsStep, SsmSteps DEF Ends, CommandEnds
<1>4. CASE NewInventory
  BY <1>4, BoundsAreNaturals, QuietStep DEF NewInventory, requests, RecoveryInv, TypeOK
<1>5. CASE ConfigureDelivery
  BY <1>5, BoundsAreNaturals, QuietStep DEF ConfigureDelivery, RecoveryInv, TypeOK
<1>. QED
  BY <1>1, <1>2, <1>3, <1>4, <1>5 DEF Next

\* The inductive invariant holds whatever requests overlap, however the host and
\* SSM behave, and whatever is lost.
THEOREM RecoveryInvariant == Spec => []RecoveryInv
BY RecoveryInit, RecoveryNext, PTL DEF Spec

\* Every reachable state has its type: the limits on what a job, an artifact
\* and a command can be hold whatever requests overlap and fail.
THEOREM TypeCorrect == Spec => []TypeOK
<1>1. RecoveryInv => TypeOK
  BY DEF RecoveryInv
<1>. QED
  BY <1>1, RecoveryInvariant, PTL

\* Startable under the source row's lock lets at most one saved job of the
\* assessment run, whatever requests overlap (artifact_recovery.py).
THEOREM RecoveriesSerialised == Spec => []OneRecovery
<1>1. RecoveryInv => OneRecovery
  BY DEF RecoveryInv
<1>. QED
  BY <1>1, RecoveryInvariant, PTL

\* An artifact that record_workspace_recovery shows as saved names an object
\* that is in the bucket and that a recovery of this artifact verified.
THEOREM SavedAreStored == Spec => []CollectedIsStored
<1>1. RecoveryInv => CollectedIsStored
  BY DEF RecoveryInv
<1>. QED
  BY <1>1, RecoveryInvariant, PTL

\* Without faults, recovery_worker.py has left no directory on the host once
\* every recovery has ended.
THEOREM HostLeftClean == Spec => []HostIsClean
<1>1. RecoveryInv => HostIsClean
  BY DEF RecoveryInv, Undisturbed, Phase, HostIsClean, Directories, NoJob
<1>. QED
  BY <1>1, RecoveryInvariant, PTL

-----------------------------------------------------------------------------
(* Every recovery ends, once faults have ceased. *)

\* A job has sent its command, names one of its uploads, and has sent none in
\* vain but by a fault; a job of a workspace belongs to the workspace's inventory.
Sound(j) ==
  /\ job[j].status # "unused" => export[j] # "none"
  /\ job[j].upload # 0 => job[j].upload \in DOMAIN uploads[j]
  /\ job[j].upload = 0 => Len(uploads[j]) <= faults
  /\ job[j].target \in Bound => job[j].digest = 0
  /\ \A n \in DOMAIN uploads[j] : uploads[j][n] # "none"

\* The screen only polls.
Commanded ==
  /\ call[Screen] # Idle => call[Screen].op = "POLL"
  /\ \A c \in Caller : call[c].op = "START" /\ call[c].target \in Bound => call[c].digest = 0
  /\ \A j \in Job : Sound(j)

\* What becomes of a command that is sent.
Answers(old, new) ==
  \/ old = "queued" /\ new \in {"success", "failed"}
  \/ old = "queued" /\ new = "lost" /\ Fault
  \/ old = "lost" /\ new = "expired"

\* Entry k of the uploads of job i becomes s.
UploadBecomes(i, k, s) == uploads' = [uploads EXCEPT ![i][k] = s]

\* A command of job i becomes s.
Answered(i, s) ==
  \/ /\ export' = [export EXCEPT ![i] = s] /\ uploads' = uploads
     /\ Answers(export[i], s)
  \/ \E k \in DOMAIN uploads[i] :
       /\ UploadBecomes(i, k, s) /\ export' = export
       /\ Answers(uploads[i][k], s)

LEMMA HostAnswers ==
  ASSUME RecoveryInv, NEW i \in Job, Ends(i) \/ Lose(i)
  PROVE  /\ UNCHANGED <<requests, inventory>>
         /\ faults' = faults \/ faults' = faults + 1
         /\ \E s \in CommandState : Answered(i, s)
<1>1. CASE ExportEnds(i)
  BY <1>1 DEF ExportEnds, Fault, Answered, UploadBecomes, Answers, CommandState
<1>2. ASSUME NEW n, UploadEnds(i, n)
      PROVE  /\ UNCHANGED <<requests, inventory>>
             /\ faults' = faults \/ faults' = faults + 1
             /\ \E s \in CommandState : Answered(i, s)
  BY <1>2 DEF UploadEnds, Fault, Answered, UploadBecomes, Answers, CommandState
<1>3. CASE Lose(i)
  BY <1>3 DEF Lose, Fault, Answered, UploadBecomes, Answers, CommandState
<1>4. ASSUME NEW n, Expire(i, n)
      PROVE  /\ UNCHANGED <<requests, inventory>>
             /\ faults' = faults \/ faults' = faults + 1
             /\ \E s \in CommandState : Answered(i, s)
  BY <1>4 DEF Expire, Answered, UploadBecomes, Answers, CommandState
<1>. QED
  BY <1>1, <1>2, <1>3, <1>4 DEF Ends, CommandEnds

\* One entry of the uploads of a job changes, the rest stays.
LEMMA UploadChanged ==
  ASSUME TypeOK, NEW i \in Job, NEW k \in DOMAIN uploads[i], NEW s \in CommandState,
         UploadBecomes(i, k, s), NEW j \in Job
  PROVE  /\ DOMAIN uploads'[j] = DOMAIN uploads[j] /\ Len(uploads'[j]) = Len(uploads[j])
         /\ \A m \in DOMAIN uploads[j] :
              uploads'[j][m] = IF j = i /\ m = k THEN s ELSE uploads[j][m]
<1>1. /\ uploads[i] \in Seq(CommandState) /\ uploads \in [Job -> Seq(CommandState)]
      /\ k \in 1 .. Len(uploads[i])
  BY DEF TypeOK
<1>2. /\ [uploads[i] EXCEPT ![k] = s] \in Seq(CommandState)
      /\ Len([uploads[i] EXCEPT ![k] = s]) = Len(uploads[i])
  BY <1>1, ExceptSeq
<1>3. uploads'[j] = IF j = i THEN [uploads[i] EXCEPT ![k] = s] ELSE uploads[j]
  BY <1>1 DEF UploadBecomes
<1>. QED
  BY <1>1, <1>2, <1>3

LEMMA AnsweredSound ==
  ASSUME RecoveryInv, NEW i \in Job, NEW s \in CommandState, Answered(i, s), job' = job,
         faults' = faults \/ faults' = faults + 1, NEW j \in Job, Sound(j)
  PROVE  Sound(j)' /\ (Command(j)' = Command(j) \/ Answers(Command(j), Command(j)'))
<1>1. s # "none" /\ faults \in Nat
  BY DEF Answered, Answers, RecoveryInv, TypeOK
<1>2. CASE export' = [export EXCEPT ![i] = s] /\ uploads' = uploads /\ Answers(export[i], s)
  BY <1>1, <1>2 DEF RecoveryInv, TypeOK, Sound, Command
<1>3. ASSUME NEW k \in DOMAIN uploads[i], UploadBecomes(i, k, s), export' = export,
             Answers(uploads[i][k], s)
      PROVE  Sound(j)' /\ (Command(j)' = Command(j) \/ Answers(Command(j), Command(j)'))
  <2>1. /\ DOMAIN uploads'[j] = DOMAIN uploads[j] /\ Len(uploads'[j]) = Len(uploads[j])
        /\ \A m \in DOMAIN uploads[j] :
             uploads'[j][m] = IF j = i /\ m = k THEN s ELSE uploads[j][m]
    <3>1. TypeOK
      BY DEF RecoveryInv
    <3>. QED
      BY <1>3, <3>1, UploadChanged
  <2>2. Sound(j)'
    BY <1>1, <1>3, <2>1 DEF Sound, RecoveryInv, TypeOK
  <2>3. Command(j)' = Command(j) \/ Answers(Command(j), Command(j)')
    BY <1>3, <2>1 DEF Sound, Command
  <2>. QED
    BY <2>2, <2>3
<1>. QED
  BY <1>2, <1>3 DEF Answered

\* The jobs as a poll of job i leaves them.
LEMMA PollChanges ==
  ASSUME RecoveryInv, NEW c \in Caller, NEW i \in Job,
         \/ PollAgain(c, i) \/ PollMissing(c, i) \/ PollEnded(c, i) \/ PollExported(c, i)
         \/ PollUploaded(c, i) \/ PollRaises(c, i)
  PROVE  /\ Polls(c, i) /\ Return(c) /\ job[i].status # "unused"
         /\ UNCHANGED <<listed, inventory, export>>
         /\ faults' = faults \/ faults' = faults + 1
         /\ \A j \in Job \ {i} : job'[j] = job[j] /\ uploads'[j] = uploads[j]
         /\ \/ /\ uploads' = uploads
               /\ \E status \in {"SAVED", "CUSTOMER_INPUT_REQUIRED"} :
                    job'[i] = [job[i] EXCEPT !.status = status]
            \/ /\ uploads' = uploads /\ job' = job
               /\ job[i].status = "RECOVERING" => Command(i) \in {"queued", "lost"}
            \/ /\ job[i].upload = 0 /\ Command(i) = "success"
               /\ uploads' = [uploads EXCEPT ![i] = Append(uploads[i], "queued")]
               /\ Len(uploads[i]) < MaxUploads
               /\ \/ job' = [job EXCEPT ![i] = [job[i] EXCEPT !.upload = Len(uploads[i]) + 1]]
                  \/ job' = job /\ Fault
<1>1. /\ Polls(c, i) /\ Return(c) /\ UNCHANGED <<listed, inventory, export>>
      /\ faults' = faults \/ faults' = faults + 1
  BY DEF PollAgain, PollMissing, PollEnded, PollExported, PollUploaded, PollRaises, Becomes, world, Fault
<1>2. job[i].status \in {"RECOVERING", "SAVED", "CUSTOMER_INPUT_REQUIRED"}
  BY <1>1 DEF Polls, RecoveryInv, ListedSaved, TypeOK
<1>3. job \in [Job -> [status: {"unused", "orphan", "RECOVERING", "SAVED", "CUSTOMER_INPUT_REQUIRED"},
                       target: Target \cup {None}, upload: 0 .. MaxUploads,
                       digest: 0 .. MaxInventories]]
  BY DEF RecoveryInv, TypeOK
<1>4. CASE PollAgain(c, i) \/ PollMissing(c, i)
  <2>1. uploads' = uploads /\ job' = job
    BY <1>3, <1>4 DEF PollAgain, PollMissing, Becomes, world
  <2>2. job[i].status = "RECOVERING" => Command(i) \in {"queued", "lost"}
    BY <1>4 DEF PollAgain, PollMissing
  <2>. QED
    BY <1>1, <1>2, <2>1, <2>2
<1>5. CASE PollEnded(c, i) \/ PollUploaded(c, i) \/ PollRaises(c, i)
  <2>1. PICK status \in {"SAVED", "CUSTOMER_INPUT_REQUIRED"} : Becomes(c, i, status)
    BY <1>5 DEF PollEnded, PollUploaded, PollRaises
  <2>2. uploads' = uploads /\ job' = [job EXCEPT ![i].status = status]
    BY <2>1 DEF Becomes, world
  <2>. QED
    BY <1>1, <1>2, <1>3, <2>2
<1>6. CASE PollExported(c, i)
  <2>1. /\ job[i].upload = 0 /\ Command(i) = "success"
        /\ uploads' = [uploads EXCEPT ![i] = Append(uploads[i], "queued")]
        /\ Len(uploads[i]) < MaxUploads
        /\ \/ job' = [job EXCEPT ![i].upload = Len(uploads[i]) + 1]
           \/ job' = job /\ Fault
    BY <1>6 DEF PollExported, Command
  <2>2. \A j \in Job \ {i} : job'[j] = job[j] /\ uploads'[j] = uploads[j]
    BY <1>3, <2>1 DEF RecoveryInv, TypeOK
  <2>. QED
    BY <1>1, <1>2, <1>3, <2>1, <2>2
<1>. QED
  BY <1>4, <1>5, <1>6

LEMMA PollSound ==
  ASSUME RecoveryInv, NEW c \in Caller, Poll(c), NEW j \in Job, Sound(j)
  PROVE  Sound(j)'
<1>1. PICK i \in Job :
        /\ job[i].status # "unused" /\ export' = export
        /\ faults' = faults \/ faults' = faults + 1
        /\ \A k \in Job \ {i} : job'[k] = job[k] /\ uploads'[k] = uploads[k]
        /\ \/ /\ uploads' = uploads
              /\ \E status \in {"SAVED", "CUSTOMER_INPUT_REQUIRED"} :
                   job'[i] = [job[i] EXCEPT !.status = status]
           \/ uploads' = uploads /\ job' = job
           \/ /\ job[i].upload = 0
              /\ uploads' = [uploads EXCEPT ![i] = Append(uploads[i], "queued")]
              /\ \/ job' = [job EXCEPT ![i] = [job[i] EXCEPT !.upload = Len(uploads[i]) + 1]]
                 \/ job' = job /\ Fault
  BY PollChanges DEF Poll
<1>2. /\ job[j] \in [status: {"unused", "orphan", "RECOVERING", "SAVED", "CUSTOMER_INPUT_REQUIRED"},
                     target: Target \cup {None}, upload: 0 .. MaxUploads,
                     digest: 0 .. MaxInventories]
      /\ job \in [Job -> [status: {"unused", "orphan", "RECOVERING", "SAVED", "CUSTOMER_INPUT_REQUIRED"},
                     target: Target \cup {None}, upload: 0 .. MaxUploads,
                     digest: 0 .. MaxInventories]]
      /\ uploads \in [Job -> Seq(CommandState)] /\ uploads[j] \in Seq(CommandState) /\ faults \in Nat
  BY DEF RecoveryInv, TypeOK
<1>3. CASE i # j
  BY <1>1, <1>2, <1>3 DEF Sound
<1>4. CASE i = j /\ uploads' = uploads
  <2>1. uploads[j] # Append(uploads[j], "queued")
    <3>1. Len(Append(uploads[j], "queued")) = Len(uploads[j]) + 1 /\ Len(uploads[j]) \in Nat
      BY <1>2
    <3>. QED
      BY <3>1
  <2>2. uploads' # [uploads EXCEPT ![i] = Append(uploads[i], "queued")]
    BY <1>2, <1>4, <2>1
  <2>3. /\ job'[j].upload = job[j].upload /\ job'[j].target = job[j].target
        /\ job'[j].digest = job[j].digest
    BY <1>1, <1>2, <1>4, <2>2
  <2>. QED
    BY <1>1, <1>2, <1>4, <2>3 DEF Sound
<1>5. CASE i = j /\ uploads' = [uploads EXCEPT ![i] = Append(uploads[i], "queued")]
  <2>1. /\ uploads'[j] = Append(uploads[j], "queued")
        /\ Len(uploads'[j]) = Len(uploads[j]) + 1 /\ DOMAIN uploads'[j] = 1 .. (Len(uploads[j]) + 1)
        /\ \A n \in DOMAIN uploads'[j] :
             uploads'[j][n] = IF n = Len(uploads[j]) + 1 THEN "queued" ELSE uploads[j][n]
    BY <1>2, <1>5
  <2>2. DOMAIN uploads[j] = 1 .. Len(uploads[j]) /\ Len(uploads[j]) \in Nat
    BY <1>2
  <2>3. uploads' # uploads
    BY <2>1, <2>2
  <2>4. /\ job[j].upload = 0
        /\ \/ job'[j] = [job[j] EXCEPT !.upload = Len(uploads[j]) + 1]
           \/ job'[j] = job[j] /\ faults' = faults + 1
    BY <1>1, <1>2, <1>5, <2>3 DEF Fault
  <2>5. \A n \in DOMAIN uploads'[j] : uploads'[j][n] # "none"
    BY <2>1, <2>2 DEF Sound
  <2>6. CASE job'[j] = [job[j] EXCEPT !.upload = Len(uploads[j]) + 1]
    BY <1>1, <1>2, <2>1, <2>2, <2>5, <2>6 DEF Sound
  <2>7. CASE job'[j] = job[j] /\ faults' = faults + 1
    BY <1>1, <1>2, <2>1, <2>2, <2>4, <2>5, <2>7 DEF Sound
  <2>. QED
    BY <2>4, <2>6, <2>7
<1>. QED
  BY <1>1, <1>3, <1>4, <1>5

\* What START does to the jobs.
LEMMA StartChanges ==
  ASSUME RecoveryInv, NEW c \in Caller, Start(c)
  PROVE  \E i \in Job :
           /\ job[i] = NoJob
           /\ job'[i].upload = 0 /\ job'[i].target = call[c].target /\ job'[i].digest = call[c].digest
           /\ export'[i] = "queued" /\ uploads' = uploads /\ inventory' = inventory
           /\ \A j \in Job \ {i} : job'[j] = job[j] /\ export'[j] = export[j]
           /\ faults' = faults \/ faults' = faults + 1
<1>1. PICK i \in Job, saved \in BOOLEAN :
        /\ job[i] = NoJob
        /\ export' = [export EXCEPT ![i] = "queued"]
        /\ job' = [job EXCEPT ![i] = [status |-> IF saved THEN "RECOVERING" ELSE "orphan",
                                     target |-> call[c].target, upload |-> 0,
                                     digest |-> call[c].digest]]
        /\ faults' = faults \/ faults' = faults + 1
  BY DEF Start, Fault
<1>2. uploads' = uploads /\ inventory' = inventory
  BY DEF Start
<1>3. job \in [Job -> [status: {"unused", "orphan", "RECOVERING", "SAVED", "CUSTOMER_INPUT_REQUIRED"},
                      target: Target \cup {None}, upload: 0 .. MaxUploads,
                      digest: 0 .. MaxInventories]]
      /\ export \in [Job -> CommandState]
  BY DEF RecoveryInv, TypeOK
<1>. QED
  BY <1>1, <1>2, <1>3

LEMMA StartSound ==
  ASSUME RecoveryInv, Commanded, NEW c \in Caller, Start(c), NEW j \in Job
  PROVE  Sound(j)'
<1>1. PICK i \in Job :
        /\ job[i] = NoJob
        /\ job'[i].upload = 0 /\ job'[i].target = call[c].target /\ job'[i].digest = call[c].digest
        /\ export'[i] = "queued" /\ uploads' = uploads
        /\ \A k \in Job \ {i} : job'[k] = job[k] /\ export'[k] = export[k]
        /\ faults' = faults \/ faults' = faults + 1
  BY StartChanges
<1>2. Sound(j) /\ Sound(i) /\ uploads[j] \in Seq(CommandState) /\ faults \in Nat
  BY DEF Commanded, RecoveryInv, TypeOK
<1>3. call[c].op = "START" /\ (call[c].target \in Bound => call[c].digest = 0)
  BY DEF Start, Commanded
<1>. QED
  BY <1>1, <1>2, <1>3 DEF Sound, NoJob

\* The requests as a step leaves them.
LEMMA CallChanges ==
  ASSUME RecoveryInv, [Next]_vars
  PROVE  \/ call' = call
         \/ \E c \in Caller : Serve(c) /\ Return(c)
         \/ \E j \in Job : ScreenPolls(j)
         \/ \E c \in Caller, j \in Job : BeginPoll(c, j)
         \/ \E c \in Caller, t \in Target : BeginStart(c, t) \/ BeginReview(c, t)
<1>1. ASSUME NEW c \in Caller, Serve(c)  PROVE Return(c)
  <2>1. CASE Poll(c)
    BY <2>1, PollChanges DEF Poll
  <2>. QED
    BY <1>1, <2>1 DEF Serve, Start, Refused, Exclude
<1>2. ASSUME NEW j \in Job, Ends(j) \/ Lose(j)  PROVE call' = call
  BY <1>2, HostAnswers DEF requests
<1>3. CASE NewInventory \/ ConfigureDelivery \/ UNCHANGED vars
  BY <1>3 DEF NewInventory, ConfigureDelivery, requests, vars
<1>. QED
  BY <1>1, <1>2, <1>3 DEF Next

LEMMA CommandedInit == Init => Commanded
<1>. SUFFICES ASSUME Init  PROVE Commanded
  OBVIOUS
<1>1. \A c \in Caller : call[c] = Idle
  BY DEF Init
<1>2. Screen \in Caller
  BY RecoveryAssumption
<1>3. ASSUME NEW j \in Job  PROVE Sound(j)
  <2>1. /\ job[j] = NoJob /\ uploads[j] = <<>> /\ faults = 0
    BY DEF Init
  <2>. QED
    BY <2>1 DEF Sound, NoJob
<1>. QED
  BY <1>1, <1>2, <1>3 DEF Commanded, Idle

LEMMA SoundStep ==
  ASSUME RecoveryInv, Commanded, [Next]_vars, NEW j \in Job
  PROVE  Sound(j)'
<1>. Sound(j) /\ faults \in Nat
  BY DEF Commanded, RecoveryInv, TypeOK
<1>1. CASE UNCHANGED <<job, export, uploads>> /\ (faults' = faults \/ faults' = faults + 1)
  BY <1>1 DEF Sound, RecoveryInv, TypeOK
<1>2. ASSUME NEW c \in Caller, Serve(c)  PROVE Sound(j)'
  <2>1. CASE Refused(c) \/ Exclude(c)
    BY <1>1, <2>1 DEF Refused, Exclude, world, Fault
  <2>. QED
    BY <1>2, <2>1, PollSound, StartSound DEF Serve
<1>3. ASSUME NEW c \in Caller, \/ \E t \in Target : BeginStart(c, t) \/ BeginReview(c, t)
                               \/ \E i \in Job : BeginPoll(c, i)
      PROVE  Sound(j)'
  BY <1>1, <1>3 DEF BeginStart, BeginReview, BeginPoll, world
<1>4. ASSUME NEW i \in Job, Ends(i) \/ Lose(i)  PROVE Sound(j)'
  BY <1>4, HostAnswers, AnsweredSound DEF requests
<1>5. CASE NewInventory \/ ConfigureDelivery \/ UNCHANGED vars
  BY <1>1, <1>5 DEF NewInventory, ConfigureDelivery, requests, world, vars
<1>. QED
  BY <1>2, <1>3, <1>4, <1>5 DEF Next

LEMMA CommandedStep == RecoveryInv /\ Commanded /\ [Next]_vars => Commanded'
<1>. SUFFICES ASSUME RecoveryInv, Commanded, [Next]_vars
              PROVE  /\ call'[Screen] # Idle => call'[Screen].op = "POLL"
                     /\ \A c \in Caller : call'[c].op = "START" /\ call'[c].target \in Bound =>
                          call'[c].digest = 0
  BY SoundStep DEF Commanded
<1>0. Screen \in Caller /\ call \in [Caller -> Request]
  BY RecoveryAssumption DEF RecoveryInv, TypeOK
<1>1. CASE call' = call
  BY <1>1 DEF Commanded
<1>2. ASSUME NEW c \in Caller, Return(c)
      PROVE  /\ call'[Screen] # Idle => call'[Screen].op = "POLL"
             /\ \A d \in Caller : call'[d].op = "START" /\ call'[d].target \in Bound =>
                  call'[d].digest = 0
  BY <1>0, <1>2 DEF Return, Idle, Commanded
<1>3. ASSUME NEW c \in Caller, NEW j \in Job, BeginPoll(c, j)
      PROVE  /\ call'[Screen] # Idle => call'[Screen].op = "POLL"
             /\ \A d \in Caller : call'[d].op = "START" /\ call'[d].target \in Bound =>
                  call'[d].digest = 0
  BY <1>0, <1>3 DEF BeginPoll, Commanded
<1>4. ASSUME NEW c \in Caller, NEW t \in Target, BeginStart(c, t) \/ BeginReview(c, t)
      PROVE  /\ call'[Screen] # Idle => call'[Screen].op = "POLL"
             /\ \A d \in Caller : call'[d].op = "START" /\ call'[d].target \in Bound =>
                  call'[d].digest = 0
  BY <1>0, <1>4 DEF BeginStart, BeginReview, StartAllowed, Commanded
<1>. QED
  <2>1. ASSUME NEW j \in Job, ScreenPolls(j)  PROVE \E c \in Caller : BeginPoll(c, j)
    BY <1>0, <2>1 DEF ScreenPolls
  <2>2. \/ call' = call
        \/ \E c \in Caller : Return(c)
        \/ \E c \in Caller, j \in Job : BeginPoll(c, j)
        \/ \E c \in Caller, t \in Target : BeginStart(c, t) \/ BeginReview(c, t)
    BY <2>1, CallChanges
  <2>. QED
    BY <1>1, <1>2, <1>3, <1>4, <2>2

\* What RecoveriesEnd rests on is always so.
LEMMA CommandedAlways == Spec => []Commanded
BY CommandedInit, CommandedStep, RecoveryInvariant, PTL DEF Spec

\* The command that job j names is on its way, is not reported, or is over.
Queued(j) == Command(j) = "queued"
Lost(j)   == Command(j) = "lost"
Over(j)   == Command(j) \in {"success", "failed", "expired"}
Late(j)   == job[j].upload # 0

\* The screen has asked about j, and the answer will be about j.
Asked(j) ==
  /\ call[Screen].op = "POLL" /\ call[Screen].job = j
  /\ job[j].target \notin Bound => call[Screen].digest = job[j].digest

\* A step without a fault.
Calm == [Next]_vars /\ faults' = faults

LEMMA WaitingCommand ==
  ASSUME RecoveryInv, Commanded, NEW j \in Job, Waits(j)
  PROVE  Queued(j) \/ Lost(j) \/ Over(j)
<1>1. Sound(j) /\ job[j].status = "RECOVERING"
  BY DEF Commanded, Waits, Running
<1>2. export[j] \in CommandState /\ uploads[j] \in Seq(CommandState)
  BY DEF RecoveryInv, TypeOK
<1>3. Command(j) \in CommandState /\ Command(j) # "none"
  BY <1>1, <1>2 DEF Sound, Command
<1>. QED
  BY <1>3 DEF Queued, Lost, Over, CommandState

\* A poll of the screen that asks about j, after its command is over, ends j or
\* sends its upload.
LEMMA AnswerMoves ==
  ASSUME RecoveryInv, Commanded, NEW j \in Job, Waits(j), Waits(j)', Over(j), Asked(j),
         Serve(Screen), Calm
  PROVE  ~Late(j) /\ Late(j)'
<1>1. /\ Screen \in Caller /\ Sound(j)
      /\ j \in listed /\ job[j].status = "RECOVERING" /\ job'[j].status = "RECOVERING"
      /\ job \in [Job -> [status: {"unused", "orphan", "RECOVERING", "SAVED", "CUSTOMER_INPUT_REQUIRED"},
                      target: Target \cup {None}, upload: 0 .. MaxUploads,
                      digest: 0 .. MaxInventories]]
      /\ uploads[j] \in Seq(CommandState)
      /\ faults \in Nat
  BY RecoveryAssumption DEF Commanded, Waits, Running, RecoveryInv, TypeOK
<1>2. Polls(Screen, j)
  BY <1>1 DEF Polls, Asked, Sound
<1>3. ~Refused(Screen) /\ ~Start(Screen) /\ ~Exclude(Screen)
  BY <1>1, <1>2 DEF Asked, Refused, Start, Exclude, Calm, Fault
<1>4. PICK i \in Job : \/ PollAgain(Screen, i) \/ PollMissing(Screen, i) \/ PollEnded(Screen, i)
                       \/ PollExported(Screen, i) \/ PollUploaded(Screen, i) \/ PollRaises(Screen, i)
  BY <1>3 DEF Serve, Poll
<1>5. Polls(Screen, i) /\ i = j
  BY <1>1, <1>4, PollChanges DEF Polls, Asked
<1>6. ~PollAgain(Screen, j) /\ ~PollMissing(Screen, j)
  BY <1>1 DEF PollAgain, PollMissing, Over
<1>7. ~PollEnded(Screen, j) /\ ~PollUploaded(Screen, j) /\ ~PollRaises(Screen, j)
  BY <1>1 DEF PollEnded, PollUploaded, PollRaises, Becomes
<1>8. PollExported(Screen, j)
  BY <1>4, <1>5, <1>6, <1>7
<1>9. job[j].upload = 0 /\ job' = [job EXCEPT ![j].upload = Len(uploads[j]) + 1]
  BY <1>1, <1>8 DEF PollExported, Fault, Calm
<1>. QED
  BY <1>1, <1>9 DEF Late

\* What a quiet step does to a job that waits.
LEMMA JobStep ==
  ASSUME RecoveryInv, Commanded, NEW j \in Job, Waits(j), Waits(j)', Calm
  PROVE  \/ /\ job'[j] = job[j]
            /\ \/ Command(j)' = Command(j)
               \/ Queued(j) /\ Over(j)'
               \/ Lost(j) /\ Over(j)'
         \/ /\ ~Late(j) /\ Over(j) /\ Late(j)' /\ Queued(j)'
            /\ job'[j].target = job[j].target /\ job'[j].digest = job[j].digest
<1>1. /\ Sound(j) /\ j \in listed /\ job[j].status = "RECOVERING" /\ job'[j].status = "RECOVERING"
      /\ job \in [Job -> [status: {"unused", "orphan", "RECOVERING", "SAVED", "CUSTOMER_INPUT_REQUIRED"},
                      target: Target \cup {None}, upload: 0 .. MaxUploads,
                      digest: 0 .. MaxInventories]]
      /\ uploads \in [Job -> Seq(CommandState)] /\ uploads[j] \in Seq(CommandState)
      /\ faults \in Nat /\ faults' = faults /\ ~Fault
  BY DEF Commanded, Waits, Running, RecoveryInv, TypeOK, Calm, Fault
<1>2. CASE UNCHANGED <<job, export, uploads>>
  BY <1>2 DEF Command
<1>3. ASSUME NEW i \in Job, Ends(i) \/ Lose(i)
      PROVE  /\ job'[j] = job[j]
             /\ \/ Command(j)' = Command(j)
                \/ Queued(j) /\ Over(j)'
                \/ Lost(j) /\ Over(j)'
  <2>1. PICK s \in CommandState : Answered(i, s)
    BY <1>3, HostAnswers
  <2>2. job' = job
    BY <1>3, HostAnswers DEF requests
  <2>3. Command(j)' = Command(j) \/ Answers(Command(j), Command(j)')
    BY <1>1, <2>1, <2>2, AnsweredSound
  <2>. QED
    BY <1>1, <2>2, <2>3 DEF Answers, Queued, Lost, Over
<1>4. ASSUME NEW c \in Caller, Start(c)
      PROVE  job'[j] = job[j] /\ Command(j)' = Command(j)
  <2>1. PICK i \in Job : /\ job[i] = NoJob /\ uploads' = uploads
                         /\ \A k \in Job \ {i} : job'[k] = job[k] /\ export'[k] = export[k]
    BY <1>4, StartChanges
  <2>2. i # j
    BY <1>1, <2>1 DEF NoJob
  <2>. QED
    BY <2>1, <2>2 DEF Command
<1>5. ASSUME NEW c \in Caller, NEW i \in Job,
             \/ PollAgain(c, i) \/ PollMissing(c, i) \/ PollEnded(c, i) \/ PollExported(c, i)
             \/ PollUploaded(c, i) \/ PollRaises(c, i)
      PROVE  \/ job'[j] = job[j] /\ Command(j)' = Command(j)
             \/ /\ ~Late(j) /\ Over(j) /\ Late(j)' /\ Queued(j)'
                /\ job'[j].target = job[j].target /\ job'[j].digest = job[j].digest
  <2>1. /\ export' = export
        /\ \A k \in Job \ {i} : job'[k] = job[k] /\ uploads'[k] = uploads[k]
    BY <1>5, PollChanges
  <2>2. CASE i # j
    BY <2>1, <2>2 DEF Command
  <2>3. CASE i = j
    <3>1. \/ UNCHANGED <<job, uploads>>
          \/ /\ job[j].upload = 0 /\ Command(j) = "success"
             /\ uploads' = [uploads EXCEPT ![j] = Append(uploads[j], "queued")]
             /\ job' = [job EXCEPT ![j] = [job[j] EXCEPT !.upload = Len(uploads[j]) + 1]]
      <4>1. \/ \E status \in {"SAVED", "CUSTOMER_INPUT_REQUIRED"} :
                 job'[j] = [job[j] EXCEPT !.status = status]
            \/ UNCHANGED <<job, uploads>>
            \/ /\ job[j].upload = 0 /\ Command(j) = "success"
               /\ uploads' = [uploads EXCEPT ![j] = Append(uploads[j], "queued")]
               /\ job' = [job EXCEPT ![j] = [job[j] EXCEPT !.upload = Len(uploads[j]) + 1]]
        BY <1>1, <1>5, <2>3, PollChanges
      <4>. QED
        BY <1>1, <4>1
    <3>2. CASE UNCHANGED <<job, uploads>>
      BY <2>1, <3>2 DEF Command
    <3>3. CASE /\ job[j].upload = 0 /\ Command(j) = "success"
               /\ uploads' = [uploads EXCEPT ![j] = Append(uploads[j], "queued")]
               /\ job' = [job EXCEPT ![j] = [job[j] EXCEPT !.upload = Len(uploads[j]) + 1]]
      <4>1. /\ job'[j] = [job[j] EXCEPT !.upload = Len(uploads[j]) + 1]
            /\ uploads'[j] = Append(uploads[j], "queued")
        BY <1>1, <3>3
      <4>2. job'[j].upload = Len(uploads[j]) + 1 /\ Len(uploads[j]) \in Nat
        BY <1>1, <4>1
      <4>3. Command(j)' = "queued"
        BY <1>1, <4>1, <4>2 DEF Command
      <4>. QED
        BY <1>1, <3>3, <4>1, <4>2, <4>3 DEF Late, Over, Queued
    <3>. QED
      BY <3>1, <3>2, <3>3
  <2>. QED
    BY <2>2, <2>3
<1>6. ASSUME NEW c \in Caller, \/ Refused(c) \/ Exclude(c)
                               \/ \E t \in Target : BeginStart(c, t) \/ BeginReview(c, t)
                               \/ \E i \in Job : BeginPoll(c, i)
      PROVE  UNCHANGED <<job, export, uploads>>
  BY <1>6 DEF Refused, Exclude, BeginStart, BeginReview, BeginPoll, world
<1>7. CASE NewInventory \/ ConfigureDelivery \/ UNCHANGED vars
  BY <1>2, <1>7 DEF NewInventory, ConfigureDelivery, requests, world, vars
<1>. QED
  BY <1>2, <1>3, <1>4, <1>5, <1>6, <1>7 DEF Calm, Next, Serve, Poll

\* The screen that has asked about j is answered, and not before j moves.
LEMMA AskedStays ==
  ASSUME RecoveryInv, Commanded, NEW j \in Job, Waits(j), Waits(j)', Over(j), Asked(j), Calm
  PROVE  Asked(j)' \/ (~Late(j) /\ Late(j)')
<1>1. /\ Screen \in Caller /\ call \in [Caller -> Request]
      /\ call[Screen].op = "POLL" /\ call[Screen] # Idle
  BY RecoveryAssumption DEF RecoveryInv, TypeOK, Asked, Idle
<1>2. job'[j].target = job[j].target /\ job'[j].digest = job[j].digest
  BY JobStep
<1>3. CASE call'[Screen] = call[Screen]
  BY <1>2, <1>3 DEF Asked
<1>4. ASSUME NEW c \in Caller, Serve(c), Return(c)
      PROVE  call'[Screen] = call[Screen] \/ (~Late(j) /\ Late(j)')
  <2>1. CASE c = Screen
    BY <1>4, <2>1, AnswerMoves
  <2>2. CASE c # Screen
    BY <1>1, <1>4, <2>2 DEF Return
  <2>. QED
    BY <2>1, <2>2
<1>5. ASSUME NEW c \in Caller, \/ \E t \in Target : BeginStart(c, t) \/ BeginReview(c, t)
                               \/ \E i \in Job : BeginPoll(c, i)
      PROVE  call'[Screen] = call[Screen]
  BY <1>1, <1>5 DEF BeginStart, BeginReview, BeginPoll
<1>6. ASSUME NEW i \in Job, ScreenPolls(i)
      PROVE  call'[Screen] = call[Screen]
  BY <1>1, <1>5, <1>6 DEF ScreenPolls
<1>7. \/ call' = call
      \/ \E c \in Caller : Serve(c) /\ Return(c)
      \/ \E i \in Job : ScreenPolls(i)
      \/ \E c \in Caller, i \in Job : BeginPoll(c, i)
      \/ \E c \in Caller, t \in Target : BeginStart(c, t) \/ BeginReview(c, t)
  BY CallChanges DEF Calm
<1>. QED
  BY <1>3, <1>4, <1>5, <1>6, <1>7

\* What a screen has asked can be answered: there is room for one more upload.
LEMMA ScreenAnswerable ==
  ASSUME RecoveryInv, Commanded, MaxFaults < MaxUploads, call[Screen] # Idle
  PROVE  \E i \in Job : Answerable(i)
<1>1. Screen \in Caller /\ call[Screen] \in Request /\ call[Screen].op = "POLL"
  BY RecoveryAssumption DEF RecoveryInv, TypeOK, Commanded
<1>2. call[Screen].job \in Job
  <2>1. CASE call[Screen] \in [op: {"POLL"}, job: Job, digest: 0 .. MaxInventories]
    BY <2>1
  <2>2. CASE call[Screen] \in [op: {"START"}, target: Target, digest: 0 .. MaxInventories]
    BY <1>1, <2>2
  <2>3. CASE call[Screen] \in [op: {"REVIEW"}, target: HistoricalJob]
    BY <1>1, <2>3
  <2>. QED
    BY <1>1, <2>1, <2>2, <2>3 DEF Request, Idle
<1>3. PICK i \in Job : call[Screen].job = i
  BY <1>2
<1>4. /\ Sound(i) /\ faults \in 0 .. MaxFaults /\ MaxFaults \in Nat /\ MaxUploads \in Nat
      /\ export[i] \in CommandState /\ uploads[i] \in Seq(CommandState)
  BY BoundsAreNaturals DEF Commanded, RecoveryInv, TypeOK
<1>5. CASE job[i].status = "RECOVERING"
  <2>1. Command(i) \in CommandState /\ Command(i) # "none"
    BY <1>4, <1>5 DEF Sound, Command
  <2>2. job[i].upload # 0 \/ Len(uploads[i]) < MaxUploads
    BY <1>4 DEF Sound
  <2>. QED
    BY <1>1, <1>3, <2>1, <2>2 DEF Answerable, CommandState
<1>. QED
  BY <1>1, <1>3, <1>5 DEF Answerable

\* The command that a waiting job names is over once it ends, or once time has passed.
LEMMA CommandOver ==
  ASSUME RecoveryInv, Commanded, NEW j \in Job, Waits(j),
         \/ Queued(j) /\ CommandEnds(j, job[j].upload)
         \/ Lost(j) /\ Expire(j, job[j].upload)
  PROVE  Over(j)'
<1>1. Sound(j) /\ export \in [Job -> CommandState] /\ uploads \in [Job -> Seq(CommandState)]
  BY DEF Commanded, RecoveryInv, TypeOK
<1>2. job' = job
  BY DEF CommandEnds, ExportEnds, UploadEnds, Expire, requests
<1>3. CASE job[j].upload = 0
  <2>1. \E s \in {"success", "failed", "expired"} : export' = [export EXCEPT ![j] = s]
    <3>1. CASE CommandEnds(j, job[j].upload)
      BY <1>3, <3>1 DEF CommandEnds, ExportEnds
    <3>2. CASE Lost(j) /\ Expire(j, job[j].upload)
      <4>1. DOMAIN uploads[j] = 1 .. Len(uploads[j])
        BY <1>1
      <4>2. job[j].upload \notin DOMAIN uploads[j]
        BY <1>3, <4>1
      <4>. QED
        BY <1>3, <3>2, <4>2 DEF Expire
    <3>. QED
      BY <3>1, <3>2
  <2>. QED
    BY <1>1, <1>2, <1>3, <2>1 DEF Over, Command
<1>4. CASE job[j].upload # 0
  <2>1. job[j].upload \in DOMAIN uploads[j]
    BY <1>1, <1>4 DEF Sound
  <2>2. PICK s \in {"success", "failed", "expired"} :
          uploads' = [uploads EXCEPT ![j][job[j].upload] = s]
    BY <1>4 DEF CommandEnds, UploadEnds, Expire
  <2>3. uploads'[j][job[j].upload] = s
    BY <1>1, <2>1, <2>2
  <2>. QED
    BY <1>2, <1>4, <2>2, <2>3 DEF Over, Command
<1>. QED
  BY <1>3, <1>4

\* A poll of the screen asks about its job, and an answer leaves it free.
LEMMA ScreenSteps ==
  ASSUME RecoveryInv, Commanded
  PROVE  /\ \A j \in Job : Waits(j) /\ ScreenPolls(j) => Asked(j)'
         /\ Serve(Screen) => call'[Screen] = Idle
<1>1. Screen \in Caller /\ call \in [Caller -> Request]
  BY RecoveryAssumption DEF RecoveryInv, TypeOK
<1>2. ASSUME NEW j \in Job, Waits(j), ScreenPolls(j)  PROVE Asked(j)'
  <2>1. call'[Screen] = [op |-> "POLL", job |-> j, digest |-> inventory] /\ job' = job
    BY <1>1, <1>2 DEF ScreenPolls, BeginPoll
  <2>. QED
    BY <1>2, <2>1 DEF Asked, Waits, Unpollable
<1>3. ASSUME Serve(Screen)  PROVE call'[Screen] = Idle
  <2>1. Return(Screen)
    <3>1. CASE Poll(Screen)
      BY <1>1, <3>1, PollChanges DEF Poll
    <3>. QED
      BY <1>3, <3>1 DEF Serve, Start, Refused, Exclude
  <2>. QED
    BY <1>1, <2>1 DEF Return
<1>. QED
  BY <1>2, <1>3

\* After the last fault the recovery of job j ends: its command is over for
\* good, the screen asks about j, and the answer ends j.
LEMMA RecoveryEndsWhenCalm ==
  ASSUME MaxFaults < MaxUploads, NEW j \in Job
  PROVE  /\ Spec /\ []GuardsSuffice /\ JobFairness(j) /\ CallFairness(Screen)
         /\ <>[][faults' = faults]_vars
         => RecoveryEnds(j)
<1> DEFINE W == Waits(j)
           Q == Queued(j)
           L == Lost(j)
           O == Over(j)
           U == Late(j)
           A == Asked(j)
           I == call[Screen] = Idle
           I0 == RecoveryInv /\ Commanded
           Quiet == faults' = faults
<1>1. I0 /\ W => Q \/ L \/ O
  BY WaitingCommand
<1>2. I0 /\ W /\ W' /\ [Next]_vars /\ [Quiet]_vars =>
        /\ Q => Q' \/ O'
        /\ L => L' \/ O'
        /\ O => O' \/ (~U /\ U')
        /\ U => U'
  <2>1. ASSUME I0, W, W', [Next]_vars, [Quiet]_vars  PROVE Calm
    BY <2>1 DEF Calm, vars
  <2>. QED
    BY <2>1, JobStep DEF Queued, Lost, Over, Late
<1>3. <<CommandEnds(j, job[j].upload)>>_vars /\ I0 /\ W /\ Q => O'
  BY CommandOver
<1>4. <<Expire(j, job[j].upload)>>_vars /\ I0 /\ W /\ L => O'
  BY CommandOver
<1>5. I0 /\ W /\ W' /\ [Next]_vars /\ [Quiet]_vars /\ O /\ A => A' \/ (~U /\ U')
  <2>1. ASSUME I0, W, W', [Next]_vars, [Quiet]_vars  PROVE Calm
    BY <2>1 DEF Calm, vars
  <2>. QED
    BY <2>1, AskedStays
<1>6. W /\ <<ScreenPolls(j)>>_vars /\ I0 => A'
  BY ScreenSteps
<1>7. <<Serve(Screen)>>_vars /\ I0 => I'
  BY ScreenSteps
<1>8. A => ~I
  BY DEF Asked, Idle
<1>9. GuardsSuffice => (Q => ENABLED <<CommandEnds(j, job[j].upload)>>_vars)
  BY DEF GuardsSuffice, Queued
<1>10. GuardsSuffice => (L => ENABLED <<Expire(j, job[j].upload)>>_vars)
  BY DEF GuardsSuffice, Lost
<1>11. GuardsSuffice => (W /\ I => ENABLED <<ScreenPolls(j)>>_vars)
  BY DEF GuardsSuffice, Waits, Running, Unpollable, Askable
<1>12. GuardsSuffice /\ I0 => (~I => ENABLED <<Serve(Screen)>>_vars)
  BY ScreenAnswerable DEF GuardsSuffice
<1>13. Spec => []I0
  BY RecoveryInvariant, CommandedAlways, PTL
<1> HIDE DEF W, Q, L, O, U, A, I, I0, Quiet
<1>14. Spec /\ []GuardsSuffice /\ CallFairness(Screen) => []<>I
  BY <1>7, <1>12, <1>13, PTL DEF Spec, CallFairness
<1>15. /\ []I0 /\ [][Next]_vars /\ [][Quiet]_vars /\ []W /\ []GuardsSuffice
       /\ WF_vars(CommandEnds(j, job[j].upload)) /\ WF_vars(Expire(j, job[j].upload))
       => <>[]O
  BY <1>1, <1>2, <1>3, <1>4, <1>9, <1>10, PTL
<1>16. /\ []I0 /\ [][Next]_vars /\ [][Quiet]_vars /\ []W /\ []GuardsSuffice /\ []O
       /\ []<>I /\ SF_vars(ScreenPolls(j))
       => FALSE
  BY <1>2, <1>5, <1>6, <1>8, <1>11, PTL
<1>17. /\ Spec /\ []GuardsSuffice /\ JobFairness(j) /\ CallFairness(Screen) /\ <>[][Quiet]_vars
       => (W ~> ~W)
  BY <1>13, <1>14, <1>15, <1>16, PTL DEF Spec, JobFairness
<1>. QED
  BY <1>17 DEF W, Quiet, RecoveryEnds

\* An open screen sees the end of every recovery that it can poll, whatever
\* commands were lost and requests failed, once such faults cease.
THEOREM RecoveriesFinish ==
  ASSUME MaxFaults < MaxUploads
  PROVE  FairSpec /\ []GuardsSuffice /\ <>[][faults' = faults]_vars => RecoveriesEnd
BY RecoveryEndsWhenCalm, RecoveryAssumption DEF FairSpec, Fairness, RecoveriesEnd

=============================================================================
