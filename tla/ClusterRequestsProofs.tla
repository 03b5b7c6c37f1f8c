------------------------- MODULE ClusterRequestsProofs -------------------------
(***************************************************************************)
(* Theorems of EnvironmentLifecycle and of ClusterRequests, which extends  *)
(* it, for any users, configurations, clusters and numbers of overlapping  *)
(* transactions.                                                           *)
(*                                                                         *)
(* The profile: BaselineReviewed is not inductive, because activation      *)
(* trusts pending_approved_version, which approval set one transaction     *)
(* earlier, and approval trusts that nothing but a review followed the     *)
(* submission.  Approving and SubmissionStands say so, and Numbered says   *)
(* that older snapshots are left alone.                                    *)
(*                                                                         *)
(* The transactions: what one has read and decided on is still so when it  *)
(* commits (ProfileHeld, ClusterHeld), because a change would have needed  *)
(* a lock that excludes its own (ProfileExclusion, ClusterExclusion).      *)
(***************************************************************************)
EXTENDS ClusterRequests, TLAPS

\* One snapshot for each version up to the present one, which is the row.
Numbered ==
  /\ \A v \in versions : v.version \in 1 .. env.version
  /\ \A v, w \in versions : v.version = w.version => v = w
  /\ IF env.status = "NONE" THEN env.version = 0 ELSE env \in versions

\* What is submitted or under review is what was submitted last.
SubmissionStands ==
  env.status \in {"SUBMITTED", "UNDER_REVIEW"} =>
    /\ env.config \in Complete
    /\ \E s \in versions :
         /\ s.status = "SUBMITTED" /\ s.config = env.config /\ s.editor = env.submitter
         /\ \A w \in versions : s.version < w.version => w.status = "UNDER_REVIEW"

\* A version is pending exactly in APPROVED: the row's own.
Approving == IF env.status = "APPROVED" THEN env.pending = env.version /\ Reviewed(versions, env.version)
                                        ELSE env.pending = 0

Baseline == /\ env.approved <= env.version
            /\ BaselineReviewed /\ ProfileIsBaseline /\ WithdrawnStaysWithdrawn
            /\ env.status = "NONE" => env.standing = "NONE" /\ env.approved = 0

EnvironmentInv == EnvironmentTypeOK /\ Numbered /\ SubmissionStands /\ Approving /\ Baseline

-----------------------------------------------------------------------------

LEMMA Targets ==
  ASSUME NEW op \in Operation
  PROVE  /\ Target(op) \in Status
         /\ op \in {"activate", "suspend", "reactivate", "deactivate"} => Target(op) \in Standing
BY DEF Operation, Target, Status, Standing, Submits

\* What a decision changes of the baseline, field by field.
LEMMA DecidedFields ==
  ASSUME NEW row \in Row, NEW op \in Operation
  PROVE  LET new == Decided(row, op) IN
         /\ new \in Row
         /\ new.config = row.config /\ new.author = row.author /\ new.submitter = row.submitter
         /\ new.pending = IF op = "approve" THEN row.version + 1
                          ELSE IF op = "activate" THEN 0 ELSE row.pending
         /\ new.approved = IF op = "activate" THEN row.pending ELSE row.approved
         /\ new.standing = IF op \in {"activate", "suspend", "reactivate", "deactivate"}
                           THEN Target(op) ELSE row.standing
<1>. USE DEF Row
<1>1. CASE op = "approve"
  BY <1>1 DEF Decided
<1>2. CASE op = "activate"
  <2>. Target(op) = "ACTIVE"
    BY <1>2 DEF Target, Submits
  <2>. QED BY <1>2 DEF Decided, Standing
<1>3. CASE op \in {"suspend", "reactivate", "deactivate"}
  <2>. Target(op) \in Standing
    BY <1>3, Targets
  <2>. QED BY <1>3 DEF Decided
<1>4. CASE op \in {"revise", "submit", "resubmit", "review", "reject"}
  BY <1>4 DEF Decided
<1>. QED BY <1>1, <1>2, <1>3, <1>4 DEF Operation

\* What a transition writes, field by field.
LEMMA TransitionedFields ==
  ASSUME NEW row \in Row, NEW op \in Operation, NEW user \in User
  PROVE  LET new == Transitioned(row, op, user) IN
         /\ new \in Row
         /\ new.version = row.version + 1 /\ new.status = Target(op) /\ new.editor = user
         /\ new.config = row.config /\ new.author = row.author
         /\ new.submitter = IF Submits(op) THEN user ELSE row.submitter
         /\ new.pending = IF op = "approve" THEN row.version + 1
                          ELSE IF op = "activate" THEN 0 ELSE row.pending
         /\ new.approved = IF op = "activate" THEN row.pending ELSE row.approved
         /\ new.standing = IF op \in {"activate", "suspend", "reactivate", "deactivate"}
                           THEN Target(op) ELSE row.standing
<1>. DEFINE mid == Decided(row, op)
            u == IF Submits(op) THEN user ELSE row.submitter
            new == Transitioned(row, op, user)
<1>1. mid \in Row /\ Target(op) \in Status /\ row.version + 1 \in Nat /\ u \in User \cup {NoUser}
  BY DecidedFields, Targets DEF Row
<1>2. new = [mid EXCEPT !.status = Target(op), !.version = row.version + 1,
                        !.editor = user, !.submitter = u]
  BY DEF Transitioned
<1>. HIDE DEF mid, u, new
<1>3. new \in Row
  BY <1>1, <1>2 DEF Row
<1>4. /\ new.status = Target(op) /\ new.version = row.version + 1
      /\ new.editor = user /\ new.submitter = u
      /\ new.config = mid.config /\ new.author = mid.author /\ new.pending = mid.pending
      /\ new.approved = mid.approved /\ new.standing = mid.standing
  BY <1>1, <1>2 DEF Row
<1>. QED BY <1>3, <1>4, DecidedFields DEF mid, u, new

\* A later snapshot does not disturb what was reviewed.
LEMMA ReviewedStays ==
  ASSUME NEW snapshots, NEW row, NEW n, Reviewed(snapshots, n), row.version \in Nat,
         n \in Nat, n < row.version
  PROVE  Reviewed(snapshots \cup {row}, n)
BY DEF Reviewed

\* Saving a version adds a snapshot.
LEMMA SaveNumbers ==
  ASSUME Numbered, env \in Row, versions \subseteq Row, NEW row \in Row,
         row.version = env.version + 1, row.status # "NONE", Save(row)
  PROVE  Numbered' /\ versions' = versions \cup {env'} /\ env' = row /\ versions' \subseteq Row
<1>1. env' = row /\ versions' = versions \cup {row}
  BY DEF Save
<1>2. env.version \in Nat /\ row.version \in Nat
  BY DEF Row
<1>3. \A v \in versions' : v.version \in 1 .. env'.version
  BY <1>1, <1>2 DEF Numbered
<1>4. \A v, w \in versions' : v.version = w.version => v = w
  BY <1>1, <1>2 DEF Numbered
<1>. QED BY <1>1, <1>3, <1>4 DEF Numbered

LEMMA CreateInv ==
  ASSUME EnvironmentInv, NEW user \in User, NEW config \in Config, Create(user, config)
  PROVE  EnvironmentInv'
<1>. USE DEF EnvironmentInv, EnvironmentTypeOK
<1>. DEFINE row == Created(user, config)
<1>1. /\ row \in Row /\ row.status = "DRAFT" /\ row.version = 1 /\ row.pending = 0
      /\ row.approved = 0 /\ row.standing = "NONE"
  BY DEF Created, NoRow, Row, Status, Standing
<1>2. env.status = "NONE" /\ env.version = 0 /\ Save(row) /\ parent' = parent
  BY DEF Create, Numbered
<1>. HIDE DEF row
<1>3. Numbered' /\ env' = row /\ versions' \subseteq Row
  BY <1>1, <1>2, SaveNumbers
<1>. QED BY <1>1, <1>2, <1>3 DEF SubmissionStands, Approving, Baseline, BaselineReviewed,
                                   ProfileIsBaseline, WithdrawnStaysWithdrawn

LEMMA UpdatedFields ==
  ASSUME NEW row \in Row, NEW user \in User, NEW config \in Config
  PROVE  LET new == Updated(row, user, config) IN
         /\ new \in Row /\ new.version = row.version + 1 /\ new.status = row.status
         /\ new.pending = row.pending /\ new.approved = row.approved
         /\ new.standing = row.standing
<1>. DEFINE new == Updated(row, user, config)
<1>1. row.version + 1 \in Nat
  BY DEF Row
<1>2. new \in Row
  BY <1>1 DEF Updated, Row
<1>3. /\ new.version = row.version + 1 /\ new.status = row.status
      /\ new.pending = row.pending /\ new.approved = row.approved
      /\ new.standing = row.standing
  BY DEF Updated, Row
<1>. QED BY <1>2, <1>3

LEMMA UpdateInv ==
  ASSUME EnvironmentInv, NEW user \in User, NEW config \in Config, Update(user, config)
  PROVE  EnvironmentInv'
<1>. USE DEF EnvironmentInv, EnvironmentTypeOK
<1>. DEFINE row == Updated(env, user, config)
<1>1. /\ row \in Row /\ row.status = env.status /\ row.version = env.version + 1
      /\ row.pending = env.pending /\ row.approved = env.approved /\ row.standing = env.standing
  BY UpdatedFields
<1>2. env.status \in {"DRAFT", "REJECTED"} /\ Save(row) /\ parent' = parent
  BY DEF Update, Editable
<1>. HIDE DEF row
<1>3. Numbered' /\ versions' = versions \cup {env'} /\ env' = row /\ versions' \subseteq Row
  BY <1>1, <1>2, SaveNumbers
<1>4. SubmissionStands' /\ Approving'
  BY <1>1, <1>2, <1>3 DEF SubmissionStands, Approving
<1>5. env.version \in Nat /\ env'.version = env.version + 1
      /\ env.approved \in Nat /\ env.approved <= env.version
  BY <1>1, <1>3 DEF Baseline, Row
<1>6. BaselineReviewed'
  BY <1>1, <1>3, <1>5, ReviewedStays DEF Baseline, BaselineReviewed
<1>7. env'.approved <= env'.version
  BY <1>1, <1>3 DEF Baseline, Row
<1>8. Baseline'
  BY <1>1, <1>2, <1>3, <1>6, <1>7 DEF Baseline, ProfileIsBaseline, WithdrawnStaysWithdrawn
<1>. QED BY <1>2, <1>3, <1>1, <1>4, <1>8

\* Approval finds what was submitted still standing.
LEMMA ApproveReviews ==
  ASSUME EnvironmentInv, NEW user \in User, Permits(env, "approve", user),
         env'.version = env.version + 1, versions' = versions \cup {env'},
         env'.status = "APPROVED", env'.editor = user, env'.config = env.config,
         env'.author = env.author, env'.submitter = env.submitter
  PROVE  Reviewed(versions', env'.version)
<1>1. env.status \in {"SUBMITTED", "UNDER_REVIEW"} /\ user \notin {env.author, env.submitter}
  BY DEF Permits, Sources, Independent
<1>2. env.config \in Complete
  BY <1>1 DEF EnvironmentInv, SubmissionStands
<1>3. PICK s \in versions :
        /\ s.status = "SUBMITTED" /\ s.config = env.config /\ s.editor = env.submitter
        /\ \A w \in versions : s.version < w.version => w.status = "UNDER_REVIEW"
  BY <1>1 DEF EnvironmentInv, SubmissionStands
<1>4. env.version \in Nat /\ s.version \in 1 .. env.version
  BY DEF EnvironmentInv, EnvironmentTypeOK, Numbered, Row
<1>5. s.version < env'.version
  BY <1>4
<1>6. \A w \in versions' : s.version < w.version /\ w.version < env'.version
                             => w.status = "UNDER_REVIEW"
  BY <1>3, <1>4
<1>. QED BY <1>1, <1>2, <1>3, <1>5, <1>6 DEF Reviewed

LEMMA TransitInv ==
  ASSUME EnvironmentInv, NEW op \in Operation, NEW user \in User, Transit(op, user)
  PROVE  EnvironmentInv'
<1>. DEFINE row == Transitioned(env, op, user)
<1>. USE DEF EnvironmentInv, EnvironmentTypeOK
<1>1. /\ row \in Row
      /\ row.version = env.version + 1 /\ row.status = Target(op) /\ row.editor = user
      /\ row.config = env.config /\ row.author = env.author
      /\ row.submitter = IF Submits(op) THEN user ELSE env.submitter
      /\ row.pending = IF op = "approve" THEN env.version + 1
                       ELSE IF op = "activate" THEN 0 ELSE env.pending
      /\ row.approved = IF op = "activate" THEN env.pending ELSE env.approved
      /\ row.standing = IF op \in {"activate", "suspend", "reactivate", "deactivate"}
                        THEN Target(op) ELSE env.standing
  BY TransitionedFields
<1>2. Permits(env, op, user) /\ Save(row) /\ parent' = parent
  BY DEF Transit
<1>. HIDE DEF row
<1>3. env.status \in Sources(op) /\ (Validates(op) => env.config \in Complete)
  BY <1>2 DEF Permits
<1>4. row.status \in Status
  BY <1>1, Targets
<1>5. Numbered' /\ versions' = versions \cup {env'} /\ env' = row /\ versions' \subseteq Row
  BY <1>1, <1>2, <1>4, SaveNumbers DEF Status
<1>6. env.version \in Nat /\ env'.version = env.version + 1
  BY <1>1, <1>5 DEF Row
<1>7. SubmissionStands'
  <2>1. CASE Submits(op)
    <3>1. env'.config \in Complete /\ env'.status = "SUBMITTED" /\ env'.editor = env'.submitter
      BY <2>1, <1>1, <1>3, <1>5 DEF Validates, Target, Submits
    <3>2. \A w \in versions' : ~(env'.version < w.version)
      BY <1>5, <1>6 DEF Numbered
    <3>. QED BY <3>1, <3>2, <1>5 DEF SubmissionStands
  <2>2. CASE op = "review"
    <3>1. env.status = "SUBMITTED" /\ env'.status = "UNDER_REVIEW" /\ env'.submitter = env.submitter
      BY <2>2, <1>1, <1>3, <1>5 DEF Target, Sources, Submits
    <3>2. PICK s \in versions :
            /\ s.status = "SUBMITTED" /\ s.config = env.config /\ s.editor = env.submitter
            /\ \A w \in versions : s.version < w.version => w.status = "UNDER_REVIEW"
      BY <3>1 DEF SubmissionStands
    <3>3. \A w \in versions' : s.version < w.version => w.status = "UNDER_REVIEW"
      BY <3>1, <3>2, <1>5
    <3>. QED BY <3>1, <3>2, <3>3, <1>1, <1>5 DEF SubmissionStands
  <2>3. CASE ~Submits(op) /\ op # "review"
    <3>1. env'.status \notin {"SUBMITTED", "UNDER_REVIEW"}
      BY <2>3, <1>1, <1>5 DEF Target, Submits, Operation
    <3>. QED BY <3>1 DEF SubmissionStands
  <2>. QED BY <2>1, <2>2, <2>3
<1>8. Approving'
  <2>1. CASE op = "approve"
    <3>1. env'.status = "APPROVED" /\ env'.pending = env'.version /\ env'.submitter = env.submitter
      BY <2>1, <1>1, <1>5, <1>6 DEF Target, Submits
    <3>2. Reviewed(versions', env'.version)
      BY <3>1, <2>1, <1>1, <1>2, <1>5, <1>6, ApproveReviews
    <3>. QED BY <3>1, <3>2 DEF Approving
  <2>2. CASE op # "approve"
    <3>1. env'.status # "APPROVED"
      BY <2>2, <1>1, <1>5 DEF Target, Submits, Operation
    <3>2. env.status = "APPROVED" => op = "activate"
      BY <2>2, <1>3 DEF Sources, Operation
    <3>. QED BY <2>2, <3>1, <3>2, <1>1, <1>5 DEF Approving
  <2>. QED BY <2>1, <2>2
<1>9. env'.approved <= env'.version /\ BaselineReviewed'
  <2>1. \/ env'.approved = 0
        \/ env'.approved \in 1 .. env.version /\ Reviewed(versions, env'.approved)
    <3>1. CASE op = "activate"
      <4>1. env.status = "APPROVED"
        BY <3>1, <1>3 DEF Sources
      <4>2. env'.approved = env.version /\ Reviewed(versions, env.version) /\ env \in versions
        BY <3>1, <4>1, <1>1, <1>5 DEF Approving, Numbered
      <4>. QED BY <4>2, <1>6 DEF Numbered
    <3>2. CASE op # "activate"
      BY <3>2, <1>1, <1>5, <1>6 DEF Baseline, BaselineReviewed, Row
    <3>. QED BY <3>1, <3>2
  <2>2. CASE env'.approved = 0
    BY <2>2, <1>6 DEF BaselineReviewed
  <2>3. CASE env'.approved \in 1 .. env.version /\ Reviewed(versions, env'.approved)
    <3>1. env'.approved \in Nat /\ env'.approved < env'.version /\ env'.version \in Nat
      BY <2>3, <1>6
    <3>2. Reviewed(versions', env'.approved)
      BY <2>3, <3>1, <1>5, ReviewedStays
    <3>. QED BY <3>1, <3>2, <1>6 DEF BaselineReviewed
  <2>. QED BY <2>1, <2>2, <2>3
<1>10. ProfileIsBaseline'
  <2>1. CASE op = "activate"
    <3>1. env.status = "APPROVED" /\ env \in versions
      BY <2>1, <1>3 DEF Sources, Numbered
    <3>2. env.version = env'.approved /\ env.config = env'.config
      BY <3>1, <2>1, <1>1, <1>5 DEF Approving
    <3>. QED BY <3>1, <3>2, <1>5 DEF ProfileIsBaseline
  <2>2. CASE op \in {"suspend", "reactivate", "deactivate"}
    <3>1. env.status \in {"ACTIVE", "SUSPENDED"}
      BY <2>2, <1>3 DEF Sources
    <3>. QED BY <3>1, <2>2, <1>1, <1>5 DEF ProfileIsBaseline, Baseline
  <2>3. CASE op \notin {"activate", "suspend", "reactivate", "deactivate"}
    <3>1. env'.status \notin {"ACTIVE", "SUSPENDED", "DEACTIVATED"}
      BY <2>3, <1>1, <1>5 DEF Target, Operation, Submits
    <3>. QED BY <3>1 DEF ProfileIsBaseline
  <2>. QED BY <2>1, <2>2, <2>3
<1>11. WithdrawnStaysWithdrawn'
  <2>1. CASE op \in {"activate", "suspend", "reactivate", "deactivate"}
    BY <2>1, <1>1, <1>5 DEF WithdrawnStaysWithdrawn
  <2>2. CASE op \notin {"activate", "suspend", "reactivate", "deactivate"}
    <3>1. env.status \notin {"SUSPENDED", "DEACTIVATED"}
      BY <2>2, <1>3 DEF Sources, Operation
    <3>. QED BY <3>1, <2>2, <1>1, <1>5 DEF WithdrawnStaysWithdrawn, Baseline
  <2>. QED BY <2>1, <2>2
<1>12. env'.status # "NONE"
  BY <1>4, <1>5 DEF Status
<1>. QED BY <1>1, <1>2, <1>5, <1>7, <1>8, <1>9, <1>10, <1>11, <1>12 DEF Baseline

-----------------------------------------------------------------------------

LEMMA EnvironmentInitInv == EnvironmentInit => EnvironmentInv
<1>. SUFFICES ASSUME EnvironmentInit PROVE EnvironmentInv
  OBVIOUS
<1>1. EnvironmentTypeOK
  BY EnvironmentAssumption DEF EnvironmentInit, EnvironmentTypeOK, NoRow, Row, Standing
<1>. QED BY <1>1 DEF EnvironmentInit, EnvironmentInv, NoRow, Numbered, SubmissionStands, Approving,
                     Baseline, BaselineReviewed, ProfileIsBaseline, WithdrawnStaysWithdrawn

LEMMA EnvironmentStepInv == EnvironmentInv /\ [EnvironmentNext]_envVars => EnvironmentInv'
<1>. SUFFICES ASSUME EnvironmentInv, [EnvironmentNext]_envVars PROVE EnvironmentInv'
  OBVIOUS
<1>1. CASE UNCHANGED <<env, versions>> /\ parent' \in {"ACTIVE", "SUSPENDED", "DEACTIVATED"}
  BY <1>1 DEF EnvironmentInv, EnvironmentTypeOK, Numbered, SubmissionStands, Approving,
              Baseline, BaselineReviewed, ProfileIsBaseline, WithdrawnStaysWithdrawn
<1>2. CASE ParentMoves
  BY <1>1, <1>2 DEF ParentMoves
<1>3. CASE \E user \in User, config \in Config : Create(user, config) \/ Update(user, config)
  BY <1>3, CreateInv, UpdateInv
<1>4. CASE \E user \in User, op \in Operation : Transit(op, user)
  BY <1>4, TransitInv
<1>5. CASE UNCHANGED envVars
  BY <1>1, <1>5 DEF envVars, EnvironmentInv, EnvironmentTypeOK
<1>. QED BY <1>2, <1>3, <1>4, <1>5 DEF EnvironmentNext

\* The inductive invariant of change holds throughout.
THEOREM EnvironmentInvariance == EnvironmentSpec => []EnvironmentInv
BY EnvironmentInitInv, EnvironmentStepInv, PTL DEF EnvironmentSpec

\* The profile, the customer's status and the snapshots stay well typed.
THEOREM EnvironmentTypeCorrect == EnvironmentSpec => []EnvironmentTypeOK
<1>1. EnvironmentInv => EnvironmentTypeOK
  BY DEF EnvironmentInv
<1>. QED BY <1>1, EnvironmentInvariance, PTL

\* The baseline in force was reviewed, as submitted, by an independent
\* architect (approve and activate), for any users and any number of revisions.
THEOREM BaselineIsReviewed == EnvironmentSpec => []BaselineReviewed
<1>1. EnvironmentInv => BaselineReviewed
  BY DEF EnvironmentInv, Baseline
<1>. QED BY <1>1, EnvironmentInvariance, PTL

\* A profile shown as active or withdrawn shows the configuration of its
\* baseline (change, which edits only DRAFT and REJECTED).
THEOREM ProfileShowsBaseline == EnvironmentSpec => []ProfileIsBaseline
<1>1. EnvironmentInv => ProfileIsBaseline
  BY DEF EnvironmentInv, Baseline
<1>. QED BY <1>1, EnvironmentInvariance, PTL

\* Both: the baseline in force was reviewed, and the profile shows it (change).
THEOREM BaselineIsSound == EnvironmentSpec => []BaselineSound
BY BaselineIsReviewed, ProfileShowsBaseline, PTL DEF BaselineSound

\* A withdrawn baseline is brought back by reactivation only (approved_status
\* against status).
THEOREM WithdrawnStays == EnvironmentSpec => []WithdrawnStaysWithdrawn
<1>1. EnvironmentInv => WithdrawnStaysWithdrawn
  BY DEF EnvironmentInv, Baseline
<1>. QED BY <1>1, EnvironmentInvariance, PTL

-----------------------------------------------------------------------------
(* The transactions. *)

ProfileHeld ==
  \A e \in EnvironmentCall :
    LET call == environmentCalls[e] IN
    /\ call.pc = "parent" => AsksParent(call.op)
    /\ call.pc \in {"parent", "commit"} =>
         /\ Decides(call.op, call.user)
         /\ call.op # "create" => call.row = env
    /\ call.pc = "commit" => ParentAllows(call.op, parent)

ClusterHeld ==
  \A k \in ClusterCall :
    LET call == clusterCalls[k] IN
    /\ call.pc \in {"baseline", "commit"} =>
         ClusterPermits(clusters[call.cluster], call.op, call.user)
    /\ call.pc = "baseline" => call.row = clusters[call.cluster]
    /\ call.pc = "commit" /\ call.op # "create" => call.row = clusters[call.cluster]
    /\ call.pc = "commit" /\ NeedsEntitlement(call.op, call.row) => Entitled(call.row.pin)

ProfileExclusion ==
  /\ \A e, f \in EnvironmentCall : UpdatesProfile(e) /\ UpdatesProfile(f) => e = f
  /\ \A e, f \in EnvironmentCall : UpdatesParent(e) /\ UpdatesParent(f) => e = f
  /\ \A e \in EnvironmentCall, k \in ClusterCall :
       SharesBaseline(k) => ~UpdatesProfile(e) /\ ~UpdatesParent(e)

ClusterExclusion ==
  \A k, l \in ClusterCall, c \in Cluster : UpdatesCluster(k, c) /\ UpdatesCluster(l, c) => k = l

ClusterTypeOK ==
  /\ clusters \in [Cluster -> ClusterRow]
  /\ connected \in BOOLEAN
  /\ environmentCalls \in [EnvironmentCall -> EnvironmentTransaction \cup {Idle}]
  /\ clusterCalls \in [ClusterCall -> ClusterTransaction \cup {Idle}]

Inv == /\ EnvironmentInv /\ ClusterTypeOK
       /\ ProfileHeld /\ ProfileExclusion
       /\ ClusterHeld /\ ClusterExclusion
       /\ PinsReviewed

-----------------------------------------------------------------------------

LEMMA InitInv == Init => Inv
<1>. SUFFICES ASSUME Init PROVE Inv
  OBVIOUS
<1>1. EnvironmentInv
  BY EnvironmentInitInv DEF Init
<1>2. ClusterTypeOK
  BY DEF Init, ClusterTypeOK, NoCluster, ClusterRow
<1>3. /\ \A e \in EnvironmentCall : environmentCalls[e].pc = "idle"
      /\ \A k \in ClusterCall : clusterCalls[k].pc = "idle"
      /\ \A c \in Cluster : clusters[c].status = "NONE"
  BY DEF Init, Idle, NoCluster
<1>4. ProfileHeld /\ ClusterHeld
  BY <1>3 DEF ProfileHeld, ClusterHeld
<1>5. ProfileExclusion /\ ClusterExclusion
  BY <1>3 DEF ProfileExclusion, ClusterExclusion, UpdatesProfile, UpdatesParent, SharesBaseline,
              UpdatesCluster
<1>6. PinsReviewed
  BY <1>3 DEF PinsReviewed
<1>. QED BY <1>1, <1>2, <1>4, <1>5, <1>6 DEF Inv

\* The calls that are not idle.
LEMMA Calls ==
  ASSUME ClusterTypeOK
  PROVE  /\ \A e \in EnvironmentCall :
              \/ environmentCalls[e] = Idle /\ environmentCalls[e].pc = "idle"
              \/ environmentCalls[e] \in EnvironmentTransaction
         /\ \A k \in ClusterCall :
              \/ clusterCalls[k] = Idle /\ clusterCalls[k].pc = "idle"
              \/ clusterCalls[k] \in ClusterTransaction
BY DEF ClusterTypeOK, Idle

-----------------------------------------------------------------------------
(* Transactions on the profile. *)

\* A COMMIT performs the operation it began.
LEMMA CommitPerforms ==
  ASSUME Inv, NEW e \in EnvironmentCall, CommitEnvironment(e)
  PROVE  EnvironmentNext
<1>. DEFINE call == environmentCalls[e]
<1>1. call \in EnvironmentTransaction /\ call.pc = "commit"
  BY Calls DEF Inv, CommitEnvironment
<1>2. /\ Decides(call.op, call.user) /\ ParentAllows(call.op, parent)
      /\ call.op # "create" => call.row = env
  BY <1>1 DEF Inv, ProfileHeld
<1>3. Save(WrittenProfile(call)) /\ (call.op = "create" => env.status = "NONE") /\ parent' = parent
  BY DEF CommitEnvironment, RunEnvironment
<1>4. call.user \in User /\ call.config \in Config /\ call.op \in Operation \cup {"create", "update"}
  BY <1>1 DEF EnvironmentTransaction
<1>. HIDE DEF call
<1>5. CASE call.op = "create"
  <2>1. Create(call.user, call.config)
    BY <1>5, <1>2, <1>3 DEF Create, Decides, WrittenProfile
  <2>. QED BY <2>1, <1>4 DEF EnvironmentNext
<1>6. CASE call.op = "update"
  <2>1. Update(call.user, call.config)
    BY <1>6, <1>2, <1>3 DEF Update, Decides, WrittenProfile
  <2>. QED BY <2>1, <1>4 DEF EnvironmentNext
<1>7. CASE call.op \in Operation
  <2>1. call.op # "create" /\ call.op # "update"
    BY <1>7 DEF Operation
  <2>2. Transit(call.op, call.user)
    BY <2>1, <1>2, <1>3 DEF Transit, Decides, WrittenProfile
  <2>. QED BY <2>2, <1>4, <1>7 DEF EnvironmentNext
<1>. QED BY <1>4, <1>5, <1>6, <1>7

\* Every step is one of the profile's or leaves it alone.
LEMMA StepRefines == Inv /\ [Next]_vars => [EnvironmentNext]_envVars
<1>. SUFFICES ASSUME Inv, [Next]_vars PROVE [EnvironmentNext]_envVars
  OBVIOUS
<1>1. CASE CustomerMoves
  BY <1>1 DEF CustomerMoves, EnvironmentNext
<1>2. CASE \E e \in EnvironmentCall : CommitEnvironment(e)
  BY <1>2, CommitPerforms
<1>3. CASE \E e \in EnvironmentCall :
             \/ \E op \in Operation \cup {"create", "update"}, user \in User, config \in Config :
                  BeginEnvironment(e, op, user, config)
             \/ LockParent(e) \/ AbortEnvironment(e)
  BY <1>3 DEF BeginEnvironment, LockParent, AbortEnvironment, RunEnvironment, envVars
<1>4. CASE \E k \in ClusterCall :
             \/ \E c \in Cluster, op \in ClusterOperation, user \in User : BeginCluster(k, c, op, user)
             \/ CheckBaseline(k) \/ CommitCluster(k) \/ AbortCluster(k)
  BY <1>4 DEF BeginCluster, CheckBaseline, CommitCluster, AbortCluster, RunCluster, envVars
<1>5. CASE (\E c \in Cluster : BuildEnds(c)) \/ UNCHANGED vars
  BY <1>5 DEF BuildEnds, vars, envVars
<1>. QED BY <1>1, <1>2, <1>3, <1>4, <1>5 DEF Next

-----------------------------------------------------------------------------
(* The steps of one transaction on the profile that leave the rows alone. *)

\* What one of them has to establish of its own call, to preserve Inv.
LEMMA EnvironmentCallInv ==
  ASSUME Inv, EnvironmentInv', NEW e \in EnvironmentCall,
         NEW call \in EnvironmentTransaction \cup {Idle},
         RunEnvironment(e, call), UNCHANGED <<env, versions>>,
         call.pc = "parent" => AsksParent(call.op),
         call.pc \in {"parent", "commit"} =>
           Decides(call.op, call.user) /\ (call.op # "create" => call.row = env),
         call.pc = "commit" => ParentAllows(call.op, parent),
         call.pc \in {"parent", "commit"} /\ call.op # "create" => UpdatesProfile(e) \/ ProfileFree,
         call.pc = "commit" /\ AsksParent(call.op) => ParentFree
  PROVE  Inv'
<1>1. /\ environmentCalls'[e] = call
      /\ \A f \in EnvironmentCall \ {e} : environmentCalls'[f] = environmentCalls[f]
      /\ UNCHANGED <<parent, clusters, connected, clusterCalls>>
  BY DEF RunEnvironment, Inv, ClusterTypeOK
<1>2. ClusterTypeOK'
  BY DEF RunEnvironment, Inv, ClusterTypeOK
<1>3. ProfileHeld'
  <2>1. \A op, user : Decides(op, user) <=> Decides(op, user)'
    BY DEF Decides
  <2>. QED BY <1>1, <2>1 DEF Inv, ProfileHeld
<1>4. ProfileExclusion'
  <2>1. \A f \in EnvironmentCall \ {e} :
          /\ UpdatesProfile(f)' <=> UpdatesProfile(f)
          /\ UpdatesParent(f)' <=> UpdatesParent(f)
    BY <1>1 DEF UpdatesProfile, UpdatesParent
  <2>2. \A k \in ClusterCall : SharesBaseline(k)' <=> SharesBaseline(k)
    BY <1>1 DEF SharesBaseline
  <2>3. UpdatesProfile(e)' => UpdatesProfile(e) \/ ProfileFree
    BY <1>1 DEF UpdatesProfile
  <2>4. UpdatesParent(e)' => ParentFree
    BY <1>1 DEF UpdatesParent
  <2>5. /\ \A f \in EnvironmentCall \ {e} : UpdatesProfile(e)' => ~UpdatesProfile(f)
        /\ \A k \in ClusterCall : UpdatesProfile(e)' => ~SharesBaseline(k)
    BY <2>3 DEF Inv, ProfileExclusion, ProfileFree
  <2>6. /\ \A f \in EnvironmentCall \ {e} : UpdatesParent(e)' => ~UpdatesParent(f)
        /\ \A k \in ClusterCall : UpdatesParent(e)' => ~SharesBaseline(k)
    BY <2>4 DEF ParentFree
  <2>. QED BY <2>1, <2>2, <2>5, <2>6 DEF Inv, ProfileExclusion
<1>5. ClusterHeld' /\ ClusterExclusion' /\ PinsReviewed'
  BY <1>1 DEF Inv, ClusterHeld, ClusterExclusion, UpdatesCluster, PinsReviewed, Entitled
<1>. QED BY <1>2, <1>3, <1>4, <1>5 DEF Inv

LEMMA BeginEnvironmentInv ==
  ASSUME Inv, EnvironmentInv', NEW e \in EnvironmentCall,
         NEW op \in Operation \cup {"create", "update"}, NEW user \in User,
         NEW config \in Config, BeginEnvironment(e, op, user, config)
  PROVE  Inv'
<1>. DEFINE call == [pc |-> IF AsksParent(op) THEN "parent" ELSE "commit",
                     op |-> op, user |-> user, config |-> config, row |-> env]
<1>1. env \in Row
  BY DEF Inv, EnvironmentInv, EnvironmentTypeOK
<1>2. call \in EnvironmentTransaction
  BY <1>1 DEF EnvironmentTransaction
<1>3. RunEnvironment(e, call) /\ UNCHANGED <<env, versions>> /\ Decides(op, user)
      /\ (op # "create" => ProfileFree)
  BY DEF BeginEnvironment
<1>4. /\ call.op = op /\ call.user = user /\ call.row = env
      /\ call.pc = "parent" => AsksParent(op)
      /\ call.pc = "commit" => ~AsksParent(op)
  OBVIOUS
<1>5. ~AsksParent(op) => ParentAllows(op, parent)
  BY DEF ParentAllows, AsksParent
<1>. HIDE DEF call
<1>. QED BY <1>2, <1>3, <1>4, <1>5, EnvironmentCallInv

LEMMA LockParentInv ==
  ASSUME Inv, EnvironmentInv', NEW e \in EnvironmentCall, LockParent(e)
  PROVE  Inv'
<1>. DEFINE old == environmentCalls[e]
            call == [old EXCEPT !.pc = "commit"]
<1>1. old \in EnvironmentTransaction /\ old.pc = "parent"
  BY Calls DEF Inv, LockParent
<1>2. /\ call \in EnvironmentTransaction /\ call.pc = "commit" /\ call.op = old.op
      /\ call.user = old.user /\ call.row = old.row
  BY <1>1 DEF EnvironmentTransaction
<1>3. /\ RunEnvironment(e, call) /\ UNCHANGED <<env, versions>>
      /\ ParentFree /\ ParentAllows(old.op, parent)
  BY DEF LockParent
<1>4. Decides(old.op, old.user) /\ (old.op # "create" => old.row = env)
  BY <1>1 DEF Inv, ProfileHeld
<1>5. old.op # "create" => UpdatesProfile(e)
  BY <1>1 DEF UpdatesProfile
<1>. HIDE DEF old, call
<1>. QED BY <1>2, <1>3, <1>4, <1>5, EnvironmentCallInv

LEMMA AbortEnvironmentInv ==
  ASSUME Inv, EnvironmentInv', NEW e \in EnvironmentCall, AbortEnvironment(e)
  PROVE  Inv'
<1>1. Idle.pc = "idle"
  BY DEF Idle
<1>. QED BY <1>1, EnvironmentCallInv DEF AbortEnvironment

-----------------------------------------------------------------------------
(* The steps that change the profile or the customer. *)

\* What is reviewed stays so when a version is saved.
LEMMA PinsStay ==
  ASSUME Inv, NEW row \in Row, row.version = env.version + 1, versions' = versions \cup {row},
         NEW n \in Nat, Reviewed(versions, n)
  PROVE  Reviewed(versions', n)
<1>1. PICK v \in versions : v.version = n
  BY DEF Reviewed
<1>2. env.version \in Nat /\ n \in 1 .. env.version
  BY <1>1 DEF Inv, EnvironmentInv, EnvironmentTypeOK, Numbered, Row
<1>. QED BY <1>2, ReviewedStays DEF Row

\* What a COMMIT writes is the next version.
LEMMA WrittenNext ==
  ASSUME Inv, NEW e \in EnvironmentCall, CommitEnvironment(e)
  PROVE  env' \in Row /\ env'.version = env.version + 1 /\ versions' = versions \cup {env'}
<1>. DEFINE call == environmentCalls[e]
<1>1. call \in EnvironmentTransaction /\ call.pc = "commit"
  BY Calls DEF Inv, CommitEnvironment
<1>2. /\ call.op # "create" => call.row = env
      /\ call.op = "create" => env.version = 0
      /\ env \in Row
  BY <1>1 DEF Inv, ProfileHeld, CommitEnvironment, EnvironmentInv, EnvironmentTypeOK, Numbered
<1>3. env' = WrittenProfile(call) /\ versions' = versions \cup {env'}
  BY DEF CommitEnvironment, Save
<1>4. call.user \in User /\ call.config \in Config /\ call.op \in Operation \cup {"create", "update"}
  BY <1>1 DEF EnvironmentTransaction
<1>. HIDE DEF call
<1>5. CASE call.op = "create"
  <2>1. env' = Created(call.user, call.config)
    BY <1>3, <1>5 DEF WrittenProfile
  <2>2. env' \in Row /\ env'.version = 1
    BY <2>1, <1>4 DEF Created, NoRow, Row, Status, Standing
  <2>. QED BY <2>2, <1>2, <1>3, <1>5
<1>6. CASE call.op = "update"
  <2>1. env' = Updated(env, call.user, call.config)
    BY <1>2, <1>3, <1>6 DEF WrittenProfile
  <2>2. LET new == Updated(env, call.user, call.config) IN
        new \in Row /\ new.version = env.version + 1
    BY <1>2, <1>4, UpdatedFields
  <2>. QED BY <2>1, <2>2, <1>3
<1>7. CASE call.op \in Operation
  <2>1. call.op # "create" /\ call.op # "update"
    BY <1>7 DEF Operation
  <2>2. env' = Transitioned(env, call.op, call.user)
    BY <1>2, <1>3, <2>1 DEF WrittenProfile
  <2>3. LET new == Transitioned(env, call.op, call.user) IN
        new \in Row /\ new.version = env.version + 1
    BY <1>2, <1>4, <1>7, TransitionedFields
  <2>. QED BY <2>2, <2>3, <1>3
<1>. QED BY <1>4, <1>5, <1>6, <1>7

\* Nobody else has decided on the profile that a COMMIT replaces.
LEMMA CommitAlone ==
  ASSUME Inv, NEW e \in EnvironmentCall, CommitEnvironment(e)
  PROVE  /\ \A f \in EnvironmentCall \ {e} : ~UpdatesProfile(f)
         /\ \A k \in ClusterCall :
              ~(clusterCalls[k].pc = "commit" /\ NeedsEntitlement(clusterCalls[k].op, clusterCalls[k].row))
<1>1. environmentCalls[e].pc = "commit" /\ (environmentCalls[e].op = "create" => env.status = "NONE")
  BY DEF CommitEnvironment
<1>2. CASE environmentCalls[e].op = "create"
  <2>1. env.status = "NONE" /\ env.standing = "NONE"
    BY <1>1, <1>2 DEF Inv, EnvironmentInv, Baseline
  <2>2. ASSUME NEW f \in EnvironmentCall \ {e}, UpdatesProfile(f)
        PROVE  FALSE
    <3>1. /\ environmentCalls[f].op \in Operation \cup {"update"}
          /\ Decides(environmentCalls[f].op, environmentCalls[f].user)
      BY <2>2, Calls DEF Inv, ProfileHeld, UpdatesProfile, EnvironmentTransaction
    <3>. QED BY <3>1, <2>1 DEF Decides, Editable, Permits, Sources, Operation
  <2>3. \A pin : ~Entitled(pin)
    BY <2>1 DEF Entitled
  <2>. QED BY <2>2, <2>3 DEF Inv, ClusterHeld
<1>3. CASE environmentCalls[e].op # "create"
  <2>1. UpdatesProfile(e)
    BY <1>1, <1>3 DEF UpdatesProfile
  <2>2. \A k \in ClusterCall : ~SharesBaseline(k)
    BY <2>1 DEF Inv, ProfileExclusion
  <2>. QED BY <2>1, <2>2 DEF Inv, ProfileExclusion, SharesBaseline, NeedsEntitlement
<1>. QED BY <1>2, <1>3

LEMMA CommitEnvironmentInv ==
  ASSUME Inv, EnvironmentInv', NEW e \in EnvironmentCall, CommitEnvironment(e)
  PROVE  Inv'
<1>1. /\ environmentCalls'[e] = Idle
      /\ \A f \in EnvironmentCall \ {e} : environmentCalls'[f] = environmentCalls[f]
      /\ UNCHANGED <<parent, clusters, connected, clusterCalls>>
  BY DEF CommitEnvironment, RunEnvironment, Inv, ClusterTypeOK
<1>2. ClusterTypeOK'
  BY DEF CommitEnvironment, RunEnvironment, Inv, ClusterTypeOK
<1>3. environmentCalls'[e].pc = "idle"
  BY <1>1 DEF Idle
<1>4. ProfileHeld'
  <2>1. ASSUME NEW f \in EnvironmentCall \ {e}, environmentCalls[f].pc \in {"parent", "commit"}
        PROVE  environmentCalls[f].op = "create" /\ environmentCalls[f].user \in Engineers
    BY <2>1, CommitAlone DEF UpdatesProfile, Inv, ProfileHeld, Decides
  <2>. QED BY <1>1, <1>3, <2>1 DEF Inv, ProfileHeld, Decides
<1>5. ProfileExclusion'
  <2>1. \A f \in EnvironmentCall : /\ UpdatesProfile(f)' => UpdatesProfile(f)
                                   /\ UpdatesParent(f)' => UpdatesParent(f)
    BY <1>1, <1>3 DEF UpdatesProfile, UpdatesParent
  <2>2. \A k \in ClusterCall : SharesBaseline(k)' <=> SharesBaseline(k)
    BY <1>1 DEF SharesBaseline
  <2>. QED BY <2>1, <2>2 DEF Inv, ProfileExclusion
<1>6. ClusterHeld' /\ ClusterExclusion'
  BY <1>1, CommitAlone DEF Inv, ClusterHeld, ClusterExclusion, UpdatesCluster
<1>7. PinsReviewed'
  <2>1. \A c \in Cluster : clusters[c].pin \in Nat
    BY DEF Inv, ClusterTypeOK, ClusterRow
  <2>. QED BY <1>1, <2>1, WrittenNext, PinsStay DEF Inv, PinsReviewed
<1>. QED BY <1>2, <1>4, <1>5, <1>6, <1>7 DEF Inv

LEMMA CustomerMovesInv ==
  ASSUME Inv, EnvironmentInv', CustomerMoves
  PROVE  Inv'
<1>1. ParentFree /\ UNCHANGED <<env, versions, clusters, connected, environmentCalls, clusterCalls>>
  BY DEF CustomerMoves, ParentMoves
<1>2. ClusterTypeOK' /\ ClusterExclusion' /\ PinsReviewed'
  BY <1>1 DEF Inv, ClusterTypeOK, ClusterExclusion, UpdatesCluster, PinsReviewed
<1>3. ProfileExclusion'
  BY <1>1 DEF Inv, ProfileExclusion, UpdatesProfile, UpdatesParent, SharesBaseline
<1>4. ProfileHeld'
  <2>1. \A op, user : Decides(op, user)' <=> Decides(op, user)
    BY <1>1 DEF Decides
  <2>2. \A e \in EnvironmentCall :
          environmentCalls[e].pc = "commit" => ~AsksParent(environmentCalls[e].op)
    BY <1>1 DEF ParentFree, UpdatesParent
  <2>3. \A op : ~AsksParent(op) => ParentAllows(op, parent')
    BY DEF AsksParent, ParentAllows
  <2>. QED BY <1>1, <2>1, <2>2, <2>3 DEF Inv, ProfileHeld
<1>5. ClusterHeld'
  BY <1>1 DEF Inv, ClusterHeld, ParentFree, SharesBaseline, NeedsEntitlement
<1>. QED BY <1>2, <1>3, <1>4, <1>5 DEF Inv

-----------------------------------------------------------------------------
(* The steps of one transaction on a cluster that leave the rows alone. *)

\* What one of them has to establish of its own call, to preserve Inv.
LEMMA ClusterCallInv ==
  ASSUME Inv, EnvironmentInv', NEW k \in ClusterCall,
         NEW call \in ClusterTransaction \cup {Idle},
         RunCluster(k, call), UNCHANGED <<clusters, connected>>,
         call.pc \in {"baseline", "commit"} =>
           /\ ClusterPermits(clusters[call.cluster], call.op, call.user)
           /\ UpdatesCluster(k, call.cluster) \/ ClusterFree(call.cluster),
         call.pc = "baseline" \/ (call.pc = "commit" /\ call.op # "create") =>
           call.row = clusters[call.cluster],
         call.pc = "commit" /\ NeedsEntitlement(call.op, call.row) => Entitled(call.row.pin),
         call.pc = "commit" /\ LooksUp(call.op, call.row) => ProfileShareable
  PROVE  Inv'
<1>1. /\ clusterCalls'[k] = call
      /\ \A l \in ClusterCall \ {k} : clusterCalls'[l] = clusterCalls[l]
      /\ UNCHANGED <<parent, env, versions, environmentCalls>>
  BY DEF RunCluster, Inv, ClusterTypeOK
<1>2. ClusterTypeOK'
  BY DEF RunCluster, Inv, ClusterTypeOK
<1>3. ProfileHeld' /\ PinsReviewed'
  <2>1. \A op, user : Decides(op, user)' <=> Decides(op, user)
    BY <1>1 DEF Decides
  <2>. QED BY <1>1, <2>1 DEF Inv, ProfileHeld, PinsReviewed
<1>4. ProfileExclusion'
  <2>1. \A e \in EnvironmentCall : /\ UpdatesProfile(e)' <=> UpdatesProfile(e)
                                   /\ UpdatesParent(e)' <=> UpdatesParent(e)
    BY <1>1 DEF UpdatesProfile, UpdatesParent
  <2>2. \A l \in ClusterCall \ {k} : SharesBaseline(l)' <=> SharesBaseline(l)
    BY <1>1 DEF SharesBaseline
  <2>3. SharesBaseline(k)' => ProfileShareable
    BY <1>1 DEF SharesBaseline
  <2>. QED BY <2>1, <2>2, <2>3 DEF Inv, ProfileExclusion, ProfileShareable
<1>5. ClusterHeld'
  <2>1. \A pin : Entitled(pin)' <=> Entitled(pin)
    BY <1>1 DEF Entitled
  <2>. QED BY <1>1, <2>1 DEF Inv, ClusterHeld
<1>6. ClusterExclusion'
  <2>1. \A l \in ClusterCall \ {k}, c \in Cluster : UpdatesCluster(l, c)' <=> UpdatesCluster(l, c)
    BY <1>1 DEF UpdatesCluster
  <2>2. \A c \in Cluster : UpdatesCluster(k, c)' => UpdatesCluster(k, c) \/ ClusterFree(c)
    BY <1>1 DEF UpdatesCluster
  <2>. QED BY <2>1, <2>2 DEF Inv, ClusterExclusion, ClusterFree
<1>. QED BY <1>2, <1>3, <1>4, <1>5, <1>6 DEF Inv

LEMMA BeginClusterInv ==
  ASSUME Inv, EnvironmentInv', NEW k \in ClusterCall, NEW c \in Cluster,
         NEW op \in ClusterOperation, NEW user \in User, BeginCluster(k, c, op, user)
  PROVE  Inv'
<1>. DEFINE call == [pc |-> "baseline", op |-> op, user |-> user, cluster |-> c,
                     row |-> clusters[c], linked |-> FALSE]
<1>1. clusters[c] \in ClusterRow
  BY DEF Inv, ClusterTypeOK
<1>2. call \in ClusterTransaction
  BY <1>1 DEF ClusterTransaction
<1>3. /\ RunCluster(k, call) /\ UNCHANGED <<clusters, connected>>
      /\ ClusterFree(c) /\ ClusterPermits(clusters[c], op, user)
  BY DEF BeginCluster
<1>4. /\ call.pc = "baseline" /\ call.op = op /\ call.user = user
      /\ call.cluster = c /\ call.row = clusters[c]
  OBVIOUS
<1>. HIDE DEF call
<1>. QED BY <1>2, <1>3, <1>4, ClusterCallInv

LEMMA CheckBaselineInv ==
  ASSUME Inv, EnvironmentInv', NEW k \in ClusterCall, CheckBaseline(k)
  PROVE  Inv'
<1>. DEFINE old == clusterCalls[k]
            call == [old EXCEPT !.pc = "commit", !.row = Pinned(old), !.linked = connected]
<1>1. old \in ClusterTransaction /\ old.pc = "baseline"
  BY Calls DEF Inv, CheckBaseline
<1>2. env.approved \in Nat /\ connected \in BOOLEAN
  BY DEF Inv, ClusterTypeOK, EnvironmentInv, EnvironmentTypeOK, Row
<1>3. /\ Pinned(old) \in ClusterRow
      /\ IF old.op = "create" THEN Pinned(old).pin = env.approved ELSE Pinned(old) = old.row
  BY <1>1, <1>2 DEF Pinned, ClusterTransaction, ClusterRow
<1>4. /\ call \in ClusterTransaction /\ call.pc = "commit" /\ call.op = old.op
      /\ call.user = old.user /\ call.cluster = old.cluster /\ call.row = Pinned(old)
  BY <1>1, <1>2, <1>3 DEF ClusterTransaction
<1>5. /\ RunCluster(k, call) /\ UNCHANGED <<clusters, connected>>
      /\ LooksUp(old.op, old.row) => ProfileShareable
      /\ NeedsEntitlement(old.op, old.row) =>
           Entitled(IF old.op = "create" THEN env.approved ELSE old.row.pin)
  BY DEF CheckBaseline
<1>6. /\ ClusterPermits(clusters[old.cluster], old.op, old.user)
      /\ old.row = clusters[old.cluster] /\ UpdatesCluster(k, old.cluster)
  BY <1>1 DEF Inv, ClusterHeld, UpdatesCluster
<1>7. \A row : old.op = "create" => LooksUp(old.op, row) /\ NeedsEntitlement(old.op, row)
  BY DEF LooksUp, NeedsEntitlement
<1>. HIDE DEF old, call
<1>8. NeedsEntitlement(call.op, call.row) => Entitled(call.row.pin)
  BY <1>3, <1>4, <1>5, <1>7
<1>9. LooksUp(call.op, call.row) => ProfileShareable
  BY <1>3, <1>4, <1>5, <1>7
<1>10. call.op # "create" => call.row = clusters[call.cluster]
  BY <1>3, <1>4, <1>6
<1>. QED BY <1>4, <1>5, <1>6, <1>8, <1>9, <1>10, ClusterCallInv

LEMMA AbortClusterInv ==
  ASSUME Inv, EnvironmentInv', NEW k \in ClusterCall, AbortCluster(k)
  PROVE  Inv'
<1>1. Idle.pc = "idle"
  BY DEF Idle
<1>. QED BY <1>1, ClusterCallInv DEF AbortCluster

-----------------------------------------------------------------------------
(* The steps that change a cluster. *)

\* What a COMMIT writes: a well typed row under the pin it was decided on.
LEMMA WrittenRow ==
  ASSUME Inv, NEW k \in ClusterCall, CommitCluster(k)
  PROVE  LET call == clusterCalls[k] IN
         /\ call \in ClusterTransaction /\ call.pc = "commit"
         /\ WrittenCluster(call) \in ClusterRow
         /\ WrittenCluster(call).pin = call.row.pin
<1>. DEFINE call == clusterCalls[k]
<1>1. call \in ClusterTransaction /\ call.pc = "commit"
  BY Calls DEF Inv, CommitCluster
<1>2. call.row \in ClusterRow /\ call.user \in User /\ call.op \in ClusterOperation
  BY <1>1 DEF ClusterTransaction
<1>. HIDE DEF call
<1>3. WrittenCluster(call) \in ClusterRow /\ WrittenCluster(call).pin = call.row.pin
  <2>. USE <1>2 DEF ClusterRow, Requested, Planned
  <2>1. CASE call.op \in {"create", "submit"}
    BY <2>1 DEF WrittenCluster
  <2>2. CASE call.op \in {"review", "reject", "plan", "apply"}
    BY <2>2 DEF WrittenCluster
  <2>3. CASE call.op = "approve"
    BY <2>3 DEF WrittenCluster
  <2>4. CASE call.op = "complete"
    BY <2>4 DEF WrittenCluster
  <2>. QED BY <2>1, <2>2, <2>3, <2>4 DEF ClusterOperation
<1>. QED BY <1>1, <1>3 DEF call

LEMMA CommitClusterInv ==
  ASSUME Inv, EnvironmentInv', NEW k \in ClusterCall, CommitCluster(k)
  PROVE  Inv'
<1>. DEFINE call == clusterCalls[k]
            c == call.cluster
            row == WrittenCluster(call)
<1>1. /\ call \in ClusterTransaction /\ call.pc = "commit" /\ c \in Cluster
      /\ row \in ClusterRow /\ row.pin = call.row.pin
  BY WrittenRow DEF ClusterTransaction
<1>2. /\ clusterCalls'[k] = Idle
      /\ \A l \in ClusterCall \ {k} : clusterCalls'[l] = clusterCalls[l]
      /\ clusters' = [clusters EXCEPT ![c] = row]
      /\ UNCHANGED <<parent, env, versions, environmentCalls>>
  BY DEF CommitCluster, RunCluster, Inv, ClusterTypeOK
<1>3. clusterCalls'[k].pc = "idle"
  BY <1>2 DEF Idle
<1>4. ClusterTypeOK'
  BY <1>1 DEF CommitCluster, RunCluster, Inv, ClusterTypeOK
<1>5. \A l \in ClusterCall \ {k} : ~UpdatesCluster(l, c)
  BY <1>1 DEF Inv, ClusterExclusion, UpdatesCluster
<1>7. Reviewed(versions, call.row.pin)
  <2>1. CASE call.op = "create"
    <3>1. Entitled(call.row.pin)
      BY <2>1, <1>1 DEF Inv, ClusterHeld, NeedsEntitlement, LooksUp
    <3>. QED BY <3>1 DEF Entitled, Inv, EnvironmentInv, Baseline, BaselineReviewed
  <2>2. CASE call.op # "create"
    <3>1. call.row = clusters[c] /\ clusters[c].status \in ClusterSources(call.op)
      BY <2>2, <1>1 DEF Inv, ClusterHeld, ClusterPermits
    <3>2. clusters[c].status # "NONE"
      BY <3>1, <2>2, <1>1 DEF ClusterSources, ClusterTransaction, ClusterOperation, Requested, Planned
    <3>. QED BY <3>1, <3>2, <1>1 DEF Inv, PinsReviewed
  <2>. QED BY <2>1, <2>2
<1>. HIDE DEF call, c, row
<1>8. PinsReviewed'
  <2>1. \A d \in Cluster : clusters'[d] = IF d = c THEN row ELSE clusters[d]
    BY <1>2 DEF Inv, ClusterTypeOK
  <2>. QED BY <2>1, <1>1, <1>2, <1>7 DEF Inv, PinsReviewed
<1>9. ProfileHeld'
  <2>1. \A op, user : Decides(op, user)' <=> Decides(op, user)
    BY <1>2 DEF Decides
  <2>. QED BY <1>2, <2>1 DEF Inv, ProfileHeld
<1>10. ProfileExclusion'
  <2>1. \A e \in EnvironmentCall : /\ UpdatesProfile(e)' <=> UpdatesProfile(e)
                                   /\ UpdatesParent(e)' <=> UpdatesParent(e)
    BY <1>2 DEF UpdatesProfile, UpdatesParent
  <2>2. \A l \in ClusterCall : SharesBaseline(l)' => SharesBaseline(l)
    BY <1>2, <1>3 DEF SharesBaseline
  <2>. QED BY <2>1, <2>2 DEF Inv, ProfileExclusion
<1>11. ClusterExclusion'
  BY <1>2, <1>3 DEF Inv, ClusterExclusion, UpdatesCluster
<1>12. ClusterHeld'
  <2>1. \A pin : Entitled(pin)' <=> Entitled(pin)
    BY <1>2 DEF Entitled
  <2>2. ASSUME NEW l \in ClusterCall \ {k}, clusterCalls[l].pc \in {"baseline", "commit"}
        PROVE  clusters'[clusterCalls[l].cluster] = clusters[clusterCalls[l].cluster]
    <3>1. clusterCalls[l].cluster \in Cluster /\ clusterCalls[l].cluster # c
      BY <2>2, <1>5, Calls DEF Inv, UpdatesCluster, ClusterTransaction
    <3>. QED BY <3>1, <1>2 DEF Inv, ClusterTypeOK
  <2>. QED BY <1>2, <1>3, <2>1, <2>2 DEF Inv, ClusterHeld
<1>. QED BY <1>4, <1>8, <1>9, <1>10, <1>11, <1>12 DEF Inv

LEMMA BuildEndsInv ==
  ASSUME Inv, EnvironmentInv', NEW c \in Cluster, BuildEnds(c)
  PROVE  Inv'
<1>1. /\ ClusterFree(c)
      /\ UNCHANGED <<parent, env, versions, connected, environmentCalls, clusterCalls>>
  BY DEF BuildEnds
<1>2. PICK s \in Planned : clusters' = [clusters EXCEPT ![c].status = s]
  BY DEF BuildEnds, Planned
<1>3. clusters[c].status # "NONE"
  BY DEF BuildEnds
<1>4. /\ clusters'[c].pin = clusters[c].pin
      /\ \A d \in Cluster \ {c} : clusters'[d] = clusters[d]
      /\ clusters' \in [Cluster -> ClusterRow]
  BY <1>2 DEF Inv, ClusterTypeOK, ClusterRow
<1>5. ClusterTypeOK' /\ ClusterExclusion'
  BY <1>1, <1>4 DEF Inv, ClusterTypeOK, ClusterExclusion, UpdatesCluster
<1>6. PinsReviewed'
  BY <1>1, <1>3, <1>4 DEF Inv, PinsReviewed
<1>7. ProfileHeld'
  <2>1. \A op, user : Decides(op, user)' <=> Decides(op, user)
    BY <1>1 DEF Decides
  <2>. QED BY <1>1, <2>1 DEF Inv, ProfileHeld
<1>8. ProfileExclusion'
  BY <1>1 DEF Inv, ProfileExclusion, UpdatesProfile, UpdatesParent, SharesBaseline
<1>9. ClusterHeld'
  <2>1. \A pin : Entitled(pin)' <=> Entitled(pin)
    BY <1>1 DEF Entitled
  <2>2. ASSUME NEW l \in ClusterCall, clusterCalls[l].pc \in {"baseline", "commit"}
        PROVE  clusters'[clusterCalls[l].cluster] = clusters[clusterCalls[l].cluster]
    BY <2>2, <1>1, <1>4, Calls DEF Inv, ClusterFree, UpdatesCluster, ClusterTransaction
  <2>. QED BY <1>1, <2>1, <2>2 DEF Inv, ClusterHeld
<1>. QED BY <1>5, <1>6, <1>7, <1>8, <1>9 DEF Inv

-----------------------------------------------------------------------------

LEMMA StepInv == Inv /\ [Next]_vars => Inv'
<1>. SUFFICES ASSUME Inv, [Next]_vars PROVE Inv'
  OBVIOUS
<1>1. EnvironmentInv'
  BY StepRefines, EnvironmentStepInv DEF Inv
<1>2. CASE CustomerMoves
  BY <1>1, <1>2, CustomerMovesInv
<1>3. CASE \E e \in EnvironmentCall :
             \E op \in Operation \cup {"create", "update"}, user \in User, config \in Config :
               BeginEnvironment(e, op, user, config)
  BY <1>1, <1>3, BeginEnvironmentInv
<1>4. CASE \E e \in EnvironmentCall : LockParent(e) \/ CommitEnvironment(e) \/ AbortEnvironment(e)
  BY <1>1, <1>4, LockParentInv, CommitEnvironmentInv, AbortEnvironmentInv
<1>5. CASE \E k \in ClusterCall :
             \E c \in Cluster, op \in ClusterOperation, user \in User : BeginCluster(k, c, op, user)
  BY <1>1, <1>5, BeginClusterInv
<1>6. CASE \E k \in ClusterCall : CheckBaseline(k) \/ CommitCluster(k) \/ AbortCluster(k)
  BY <1>1, <1>6, CheckBaselineInv, CommitClusterInv, AbortClusterInv
<1>7. CASE \E c \in Cluster : BuildEnds(c)
  BY <1>1, <1>7, BuildEndsInv
<1>8. CASE UNCHANGED vars
  <2>1. UNCHANGED <<parent, env, versions, clusters, connected, environmentCalls, clusterCalls>>
    BY <1>8 DEF vars
  <2>2. ClusterTypeOK' /\ PinsReviewed' /\ ClusterExclusion'
    BY <2>1 DEF Inv, ClusterTypeOK, PinsReviewed, ClusterExclusion, UpdatesCluster
  <2>3. ProfileExclusion'
    BY <2>1 DEF Inv, ProfileExclusion, UpdatesProfile, UpdatesParent, SharesBaseline
  <2>4. ProfileHeld'
    <3>1. \A op, user : Decides(op, user)' <=> Decides(op, user)
      BY <2>1 DEF Decides
    <3>. QED BY <2>1, <3>1 DEF Inv, ProfileHeld
  <2>5. ClusterHeld'
    BY <2>1 DEF Inv, ClusterHeld, Entitled
  <2>. QED BY <1>1, <2>2, <2>3, <2>4, <2>5 DEF Inv
<1>. QED BY <1>2, <1>3, <1>4, <1>5, <1>6, <1>7, <1>8 DEF Next

\* The inductive invariant holds throughout: the rows are well formed and every
\* open transaction still finds what it read under its locks.
THEOREM Invariance == Spec => []Inv
BY InitInv, StepInv, PTL DEF Spec

\* The rows and the transactions stay well typed.
THEOREM TypeCorrect == Spec => []TypeOK
<1>1. Inv => TypeOK
  BY DEF Inv, ClusterTypeOK, EnvironmentInv, TypeOK
<1>. QED BY <1>1, Invariance, PTL

\* Everything requested, planned or applied pins a reviewed snapshot (create,
\* active_environment_snapshot).
THEOREM PinnedReviewed == Spec => []PinsReviewed
<1>1. Inv => PinsReviewed
  BY DEF Inv
<1>. QED BY <1>1, Invariance, PTL

\* The transactions on the profile implement its indivisible operations
\* (Service.change: FOR UPDATE of the profile, then of the customer).
THEOREM Implementation == Spec => ImplementsEnvironment
<1>1. Init => EnvironmentInit
  BY DEF Init
<1>. QED BY <1>1, Invariance, StepRefines, PTL DEF Spec, EnvironmentSpec, ImplementsEnvironment

-----------------------------------------------------------------------------
(* The action properties. *)

\* Call k, about to commit, gives cluster c its next status.
Moves(k, c) ==
  /\ clusterCalls[k].op \in ClusterOperation
  /\ clusters'[c].status = WrittenCluster(clusterCalls[k]).status
  /\ clusters[c].status \in ClusterSources(clusterCalls[k].op)
  /\ clusterCalls[k].op # "create" =>
       /\ clusterCalls[k].row = clusters[c]
       /\ NeedsEntitlement(clusterCalls[k].op, clusterCalls[k].row) => Entitled(clusters[c].pin)

\* Creation, plan and apply take no request that waits to be planned.
LEMMA RequestSources ==
  ASSUME NEW op \in ClusterOperation, NEW status \in Requested, status \in ClusterSources(op)
  PROVE  op \notin {"create", "plan", "apply"}
<1>1. op = "create" => ClusterSources(op) = {"NONE"}
  BY DEF ClusterSources
<1>2. op = "plan" => ClusterSources(op) = {"FAILED", "PLAN_READY"}
  BY DEF ClusterSources
<1>3. op = "apply" => ClusterSources(op) = {"PLAN_READY"}
  BY DEF ClusterSources
<1>. QED BY <1>1, <1>2, <1>3 DEF Requested

\* A step that moves a cluster is the COMMIT of the one transaction on it,
\* which still finds what it read, or the end of its build.
LEMMA ClusterMoves ==
  ASSUME Inv, [Next]_vars, NEW c \in Cluster, clusters'[c].status # clusters[c].status
  PROVE  \/ clusters[c].status \in {"PLAN_RUNNING", "APPLYING"} /\ clusters'[c].status # "PLAN_RUNNING"
         \/ \E k \in ClusterCall : Moves(k, c)
<1>1. (\E d \in Cluster : BuildEnds(d)) \/ (\E k \in ClusterCall : CommitCluster(k))
  <2>1. clusters' # clusters
    OBVIOUS
  <2>. QED BY <2>1 DEF Next, CustomerMoves, BeginEnvironment, LockParent, CommitEnvironment,
                       AbortEnvironment, RunEnvironment, BeginCluster, CheckBaseline, AbortCluster, vars
<1>2. CASE \E d \in Cluster : BuildEnds(d)
  <2>1. PICK d \in Cluster : BuildEnds(d)
    BY <1>2
  <2>2. PICK s \in Planned \ {"PLAN_RUNNING"} : clusters' = [clusters EXCEPT ![d].status = s]
    BY <2>1 DEF BuildEnds, Planned
  <2>3. clusters \in [Cluster -> ClusterRow]
    BY DEF Inv, ClusterTypeOK
  <2>4. d = c
    BY <2>2, <2>3
  <2>5. clusters'[c].status = s
    BY <2>2, <2>3, <2>4 DEF ClusterRow
  <2>. QED BY <2>1, <2>4, <2>5 DEF BuildEnds
<1>3. CASE \E k \in ClusterCall : CommitCluster(k)
  <2>1. PICK k \in ClusterCall : CommitCluster(k)
    BY <1>3
  <2>. DEFINE call == clusterCalls[k]
  <2>2. call \in ClusterTransaction /\ call.pc = "commit"
    BY <2>1, WrittenRow
  <2>3. clusters' = [clusters EXCEPT ![call.cluster] = WrittenCluster(call)]
    BY <2>1 DEF CommitCluster
  <2>4. call.cluster = c /\ clusters'[c] = WrittenCluster(call)
    BY <2>2, <2>3 DEF Inv, ClusterTypeOK, ClusterTransaction
  <2>5. /\ ClusterPermits(clusters[c], call.op, call.user)
        /\ call.op # "create" => call.row = clusters[c]
        /\ NeedsEntitlement(call.op, call.row) => Entitled(call.row.pin)
    BY <2>2, <2>4 DEF Inv, ClusterHeld
  <2>6. call.op \in ClusterOperation
    BY <2>2 DEF ClusterTransaction
  <2>. QED BY <2>4, <2>5, <2>6 DEF ClusterPermits, Moves
<1>. QED BY <1>1, <1>2, <1>3

\* No cluster gets its first plan under a withdrawn or superseded baseline
\* (FOR SHARE in active_environment_snapshot).
THEOREM FirstPlans == Spec => FirstPlanEntitled
<1>1. ASSUME Inv, [Next]_vars
      PROVE  [\A c \in Cluster :
                clusters[c].status \in Requested /\ clusters'[c].status = "PLAN_RUNNING"
                  => Entitled(clusters[c].pin)]_vars
  <2>. SUFFICES ASSUME NEW c \in Cluster, clusters[c].status \in Requested,
                       clusters'[c].status = "PLAN_RUNNING"
                PROVE  Entitled(clusters[c].pin)
    OBVIOUS
  <2>1. clusters[c].status \notin {"PLAN_RUNNING", "APPLYING", "NONE"}
    BY DEF Requested
  <2>2. PICK k \in ClusterCall : Moves(k, c)
    BY <1>1, <2>1, ClusterMoves
  <2>. DEFINE call == clusterCalls[k]
  <2>3. call.op \notin {"create", "plan", "apply"}
    BY <2>2, RequestSources DEF Moves
  <2>4. call.row = clusters[c] /\ (NeedsEntitlement(call.op, call.row) => Entitled(clusters[c].pin))
    BY <2>2, <2>3 DEF Moves
  <2>5. clusters[c] \in ClusterRow
    BY <1>1 DEF Inv, ClusterTypeOK
  <2>6. CASE call.op = "complete"
    <3>1. WrittenCluster(call).status = IF clusters[c].status = "APPROVED" THEN "PLAN_RUNNING"
                                                                          ELSE clusters[c].status
      BY <2>4, <2>5, <2>6 DEF WrittenCluster, ClusterRow
    <3>2. clusters[c].status = "APPROVED"
      BY <3>1, <2>1, <2>2 DEF Moves
    <3>. QED BY <3>2, <2>3, <2>4 DEF NeedsEntitlement, LooksUp
  <2>7. CASE call.op # "complete"
    BY <2>3, <2>4, <2>7 DEF NeedsEntitlement, LooksUp
  <2>. QED BY <2>6, <2>7
<1>. QED BY <1>1, Invariance, PTL DEF Spec, FirstPlanEntitled

\* The approved version only grows.
LEMMA ApprovedGrows ==
  ASSUME EnvironmentInv, [EnvironmentNext]_envVars PROVE env'.approved >= env.approved
<1>1. env \in Row /\ env.approved \in Nat /\ env.approved <= env.version
  BY DEF EnvironmentInv, EnvironmentTypeOK, Baseline, Row
<1>2. CASE UNCHANGED env
  BY <1>1, <1>2
<1>3. CASE \E user \in User, config \in Config : Create(user, config)
  <2>1. env.approved = 0 /\ env'.approved = 0
    BY <1>3 DEF Create, Save, Created, NoRow, EnvironmentInv, Baseline
  <2>. QED BY <2>1
<1>4. CASE \E user \in User, config \in Config : Update(user, config)
  <2>1. PICK user \in User, config \in Config : env' = Updated(env, user, config)
    BY <1>4 DEF Update, Save
  <2>2. Updated(env, user, config).approved = env.approved
    BY <1>1, UpdatedFields
  <2>. QED BY <2>1, <2>2, <1>1
<1>5. CASE \E user \in User, op \in Operation : Transit(op, user)
  <2>1. PICK user \in User, op \in Operation : Transit(op, user)
    BY <1>5
  <2>2. env' = Transitioned(env, op, user) /\ env.status \in Sources(op)
    BY <2>1 DEF Transit, Save, Permits
  <2>3. Transitioned(env, op, user).approved = IF op = "activate" THEN env.pending ELSE env.approved
    BY <1>1, TransitionedFields
  <2>4. op = "activate" => env.pending = env.version
    BY <2>2 DEF Sources, EnvironmentInv, Approving
  <2>5. env.version \in Nat
    BY <1>1 DEF Row
  <2>. QED BY <2>2, <2>3, <2>4, <2>5, <1>1
<1>. QED BY <1>2, <1>3, <1>4, <1>5 DEF EnvironmentNext, ParentMoves, envVars

\* An unplanned request under a superseded baseline never moves again (the
\* entitlement that change asks before any transition).
THEOREM Superseded == Spec => SupersededFrozen
<1>1. ASSUME Inv, [Next]_vars
      PROVE  [/\ env'.approved >= env.approved
              /\ \A c \in Cluster :
                   clusters[c].status \in Requested /\ clusters[c].pin # env.approved
                     => clusters'[c].status = clusters[c].status]_vars
  <2>1. env'.approved >= env.approved
    BY <1>1, StepRefines, ApprovedGrows DEF Inv
  <2>2. ASSUME NEW c \in Cluster, clusters[c].status \in Requested, clusters[c].pin # env.approved,
               clusters'[c].status # clusters[c].status
        PROVE  FALSE
    <3>1. clusters[c].status \notin {"PLAN_RUNNING", "APPLYING", "NONE"}
      BY <2>2 DEF Requested
    <3>2. PICK k \in ClusterCall : Moves(k, c)
      BY <1>1, <3>1, <2>2, ClusterMoves
    <3>. DEFINE call == clusterCalls[k]
    <3>3. call.op \notin {"create", "plan", "apply"}
      BY <2>2, <3>2, RequestSources DEF Moves
    <3>4. call.row = clusters[c] /\ ~NeedsEntitlement(call.op, call.row)
      BY <2>2, <3>2, <3>3 DEF Entitled, Moves
    <3>5. call.op = "complete" /\ clusters[c].status # "APPROVED"
      BY <3>3, <3>4 DEF NeedsEntitlement, LooksUp
    <3>6. clusters[c] \in ClusterRow
      BY <1>1 DEF Inv, ClusterTypeOK
    <3>7. WrittenCluster(call).status = clusters[c].status
      BY <3>4, <3>5, <3>6 DEF WrittenCluster, ClusterRow
    <3>. QED BY <3>2, <3>7, <2>2 DEF Moves
  <2>. QED BY <2>1, <2>2
<1>. QED BY <1>1, Invariance, PTL DEF Spec, SupersededFrozen

\* With overlapping transactions, too, the baseline in force was approved by somebody
\* independent, as it was submitted, and the profile shows it (Service.change),
THEOREM BaselineIsSoundHere == Spec => []BaselineSound
BY Implementation, BaselineIsSound, PTL DEF ImplementsEnvironment

\* and only a reactivation brings a withdrawn baseline back.
THEOREM WithdrawnStaysHere == Spec => []WithdrawnStaysWithdrawn
BY Implementation, WithdrawnStays, PTL DEF ImplementsEnvironment

=============================================================================
