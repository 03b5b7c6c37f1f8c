----------------------- MODULE MigrationAssessmentProofs -----------------------
(***************************************************************************)
(* Theorems of MigrationAssessment, for any migrations, sources, users,    *)
(* connectors, faults and limits.  The rows of a migration, its versions   *)
(* and its evidence are inductive by themselves (Tables); of the           *)
(* connectors, that a report which is being handled belongs to the newest  *)
(* connector and came while it was valid (CallCurrent), since its row is   *)
(* locked while the report is handled.                                     *)
(***************************************************************************)
EXTENDS MigrationAssessment, SequenceTheorems, TLAPS

MigrationRow == [status: Status, version: Nat, config: Config,
                 draft: [on: Nat, sourceFirst: BOOLEAN], deleted: BOOLEAN]
Assessment == [digest: 0 .. MaxDrift, version: Nat]

\* The statuses in which a reviewer sees a migration.
Reviewed == {"ASSESSMENT_READY", "SUBMITTED", "UNDER_REVIEW", "APPROVED"}

\* AsAssessed, of a row, its evidence and its versions.
Assessed(r, assessments, configs, sourceOnly) ==
  /\ assessments # <<>>
  /\ Last(assessments).version \in DOMAIN configs
  /\ LET c == configs[Last(assessments).version] IN
     /\ [c EXCEPT !.target = NoTarget] = [r.config EXCEPT !.target = NoTarget]
     /\ sourceOnly \/ c.target = r.config.target

\* What a row owes its evidence.
Founded(r, assessments, configs) ==
  /\ r.status \in Reviewed => Assessed(r, assessments, configs, r.draft.sourceFirst)
  /\ r.draft.on # 0 => r.draft.on = Len(assessments)

\* Every version of a row is kept, the present one as well.
Kept(r, configs) ==
  /\ Len(configs) = r.version
  /\ r.status # "NONE" => r.version # 0 /\ configs[r.version] = r.config

Tables ==
  /\ row \in [Migration -> MigrationRow]
  /\ evidence \in [Migration -> Seq(Assessment)]
  /\ versions \in [Migration -> Seq(Config)]
  /\ \A m \in Migration : Founded(row[m], evidence[m], versions[m]) /\ Kept(row[m], versions[m])

\* The report that is being handled came while its connector was valid, and that
\* connector is still the newest one.
CallCurrent ==
  \A o \in Origin :
    call[o] # NoCall => call[o].by.live /\ call[o].by.number = connector[o].number

Connectors ==
  /\ digest \in [Source -> 0 .. MaxDrift]
  /\ connector \in [Origin -> [number: Nat, live: BOOLEAN]]
  /\ call = [o \in Origin |-> call[o]]
  /\ \A o \in Origin : call[o] # NoCall => call[o].digest \in 0 .. MaxDrift
  /\ CallCurrent

MigrationInv == Tables /\ Connectors

LEMMA BoundsAreNaturals ==
  /\ MaxDrift \in Nat /\ Scope # {}
  /\ NoTarget \notin Target
BY MigrationAssumption

-----------------------------------------------------------------------------
(* Rows. *)

\* Saving gives a row its next version and changes nothing else of it.
LEMMA SavedRow ==
  ASSUME NEW new \in MigrationRow, NEW v \in Nat
  PROVE  /\ [new EXCEPT !.version = v] \in MigrationRow
         /\ [new EXCEPT !.version = v].status = new.status
         /\ [new EXCEPT !.version = v].config = new.config
         /\ [new EXCEPT !.version = v].draft = new.draft
BY DEF MigrationRow

\* What was kept stays kept, and one more version is.
LEMMA KeptVersions ==
  ASSUME NEW configs \in Seq(Config), NEW c \in Config
  PROVE  /\ Append(configs, c) \in Seq(Config)
         /\ Len(Append(configs, c)) = Len(configs) + 1 /\ Len(configs) \in Nat
         /\ Append(configs, c)[Len(configs) + 1] = c
         /\ \A v \in DOMAIN configs : /\ v \in DOMAIN Append(configs, c)
                                      /\ Append(configs, c)[v] = configs[v]
OBVIOUS

\* A step that saves one row, founded on the evidence there is.
LEMMA SavedStep ==
  ASSUME Tables, NEW m, NEW new, Saved(m, new), UNCHANGED evidence,
         m \in Migration => new \in MigrationRow /\ Founded(new, evidence[m], versions[m])
  PROVE  Tables'
<1>. DEFINE saved == [new EXCEPT !.version = row[m].version + 1]
            configs == Append(versions[m], new.config)
<1>1. row' = [row EXCEPT ![m] = saved] /\ versions' = [versions EXCEPT ![m] = configs]
  BY DEF Saved
<1>2. ASSUME m \in Migration
      PROVE  /\ saved \in MigrationRow /\ configs \in Seq(Config)
             /\ Founded(saved, evidence[m], configs) /\ Kept(saved, configs)
  <2>1. row[m].version \in Nat /\ Len(versions[m]) = row[m].version /\ versions[m] \in Seq(Config)
    BY <1>2 DEF Tables, MigrationRow, Kept
  <2>2. /\ saved \in MigrationRow /\ saved.version = row[m].version + 1
        /\ saved.status = new.status /\ saved.config = new.config /\ saved.draft = new.draft
    BY <1>2, <2>1, SavedRow DEF MigrationRow
  <2>3. new.config \in Config
    BY <1>2 DEF MigrationRow
  <2>4. /\ configs \in Seq(Config) /\ Len(configs) = row[m].version + 1
        /\ configs[row[m].version + 1] = new.config
        /\ \A v \in DOMAIN versions[m] : v \in DOMAIN configs /\ configs[v] = versions[m][v]
    BY <2>1, <2>3, KeptVersions
  <2>. HIDE DEF saved, configs
  <2>5. Founded(saved, evidence[m], configs)
    BY <1>2, <2>2, <2>4 DEF Founded, Assessed
  <2>6. Kept(saved, configs)
    BY <2>1, <2>2, <2>4 DEF Kept
  <2>. QED
    BY <2>2, <2>4, <2>5, <2>6
<1>. HIDE DEF saved, configs
<1>3. row' \in [Migration -> MigrationRow] /\ versions' \in [Migration -> Seq(Config)]
  BY <1>1, <1>2 DEF Tables
<1>4. ASSUME NEW n \in Migration
      PROVE  Founded(row'[n], evidence[n], versions'[n]) /\ Kept(row'[n], versions'[n])
  BY <1>1, <1>2 DEF Tables
<1>. QED
  BY <1>3, <1>4 DEF Tables

LEMMA TablesKept ==
  ASSUME Tables, UNCHANGED <<row, versions, evidence>>
  PROVE  Tables'
BY DEF Tables

\* The row that a connector's transition writes has no planning draft.
LEMMA ReportedRow ==
  ASSUME NEW r \in MigrationRow, NEW status \in Status
  PROVE  /\ Reported(r, status) \in MigrationRow
         /\ Reported(r, status).status = status
         /\ Reported(r, status).config = r.config
         /\ Reported(r, status).draft = NoDraft
BY DEF Reported, NoDraft, MigrationRow

-----------------------------------------------------------------------------
(* The calls of users. *)

LEMMA CreateStep ==
  ASSUME Tables, NEW m \in Migration, NEW c \in Requested[m], Create(m, c)
  PROVE  Tables'
<1>. DEFINE new == [row[m] EXCEPT !.status = "DRAFT", !.config = c]
<1>1. c \in Config /\ row[m] \in MigrationRow
  BY MigrationAssumption DEF Tables
<1>2. /\ new \in MigrationRow /\ new.status = "DRAFT" /\ new.draft = row[m].draft
  BY <1>1 DEF MigrationRow, Status
<1>3. Saved(m, new) /\ UNCHANGED evidence
  BY DEF Create
<1>. HIDE DEF new
<1>4. Founded(new, evidence[m], versions[m])
  BY <1>2 DEF Tables, Founded, Reviewed
<1>. QED
  BY <1>2, <1>3, <1>4, SavedStep

LEMMA UpdateStep ==
  ASSUME Tables, NEW m \in Migration, NEW c \in Requested[m], Update(m, c)
  PROVE  Tables'
<1>. DEFINE new == [row[m] EXCEPT !.config = c]
<1>1. c \in Config /\ row[m] \in MigrationRow
  BY MigrationAssumption DEF Tables
<1>2. /\ new \in MigrationRow /\ new.status = row[m].status /\ new.draft = row[m].draft
  BY <1>1 DEF MigrationRow
<1>3. Saved(m, new) /\ UNCHANGED evidence /\ row[m].status \notin Reviewed
  BY DEF Update, Editable, Reviewed
<1>. HIDE DEF new
<1>4. Founded(new, evidence[m], versions[m])
  BY <1>2, <1>3 DEF Tables, Founded
<1>. QED
  BY <1>2, <1>3, <1>4, SavedStep

LEMMA SelectTargetStep ==
  ASSUME Tables, NEW m \in Migration, NEW t \in Target, SelectTarget(m, t)
  PROVE  Tables'
<1>. DEFINE new == [row[m] EXCEPT !.config.target = t]
<1>1. row[m] \in MigrationRow /\ row[m].config \in Config
  BY DEF Tables, MigrationRow
<1>2. [row[m].config EXCEPT !.target = t] \in Config
  BY <1>1 DEF Config
<1>3. /\ new \in MigrationRow /\ new.status = row[m].status /\ new.draft = row[m].draft
      /\ new.config = [row[m].config EXCEPT !.target = t]
  BY <1>1, <1>2 DEF MigrationRow
<1>4. /\ Saved(m, new) /\ UNCHANGED evidence
      /\ row[m].draft.sourceFirst /\ AsAssessed(m, TRUE)
  BY DEF SelectTarget
<1>. HIDE DEF new
<1>5. [new.config EXCEPT !.target = NoTarget] = [row[m].config EXCEPT !.target = NoTarget]
  BY <1>1, <1>3 DEF Config
<1>6. Founded(new, evidence[m], versions[m])
  BY <1>3, <1>4, <1>5 DEF Tables, Founded, Assessed, AsAssessed
<1>. QED
  BY <1>3, <1>4, <1>6, SavedStep

LEMMA SavePlanningDraftStep ==
  ASSUME Tables, NEW m \in Migration, NEW k \in 1 .. Len(evidence[m]),
         NEW sourceFirst \in BOOLEAN, SavePlanningDraft(m, k, sourceFirst)
  PROVE  Tables'
<1>. DEFINE new == [row[m] EXCEPT !.draft = [on |-> k, sourceFirst |-> sourceFirst]]
<1>1. row[m] \in MigrationRow /\ k \in Nat
  BY DEF Tables
<1>2. /\ new \in MigrationRow /\ new.status = row[m].status /\ new.config = row[m].config
      /\ new.draft = [on |-> k, sourceFirst |-> sourceFirst]
  BY <1>1 DEF MigrationRow
<1>3. /\ Saved(m, new) /\ UNCHANGED evidence
      /\ AsAssessed(m, sourceFirst) /\ k = Len(evidence[m])
  BY DEF SavePlanningDraft
<1>. HIDE DEF new
<1>4. Founded(new, evidence[m], versions[m])
  BY <1>2, <1>3 DEF Founded, Assessed, AsAssessed
<1>. QED
  BY <1>2, <1>3, <1>4, SavedStep

\* The status changes along TRANSITIONS: what becomes a reviewed status was one,
\* and the rest of the row stays.
LEMMA ChangesStep ==
  ASSUME Tables, NEW m \in Migration, NEW u \in User, NEW a \in Action, Changes(m, u, a)
  PROVE  Tables'
<1>. DEFINE new == [row[m] EXCEPT !.status = Goal(a), !.deleted = (a = "delete")]
<1>1. row[m] \in MigrationRow /\ Goal(a) \in Status /\ (a = "delete") \in BOOLEAN
  BY DEF Tables, Goal, Action, Status
<1>2. /\ new \in MigrationRow /\ new.status = Goal(a)
      /\ new.config = row[m].config /\ new.draft = row[m].draft
  BY <1>1 DEF MigrationRow
<1>3. Saved(m, new) /\ UNCHANGED evidence
  BY DEF Changes
<1>4. Goal(a) \in Reviewed => row[m].status \in Reviewed
  <2>1. row[m].status \in Sources(a)
    BY DEF Changes
  <2>2. CASE a = "submit"
    BY <2>1, <2>2 DEF Sources, Reviewed
  <2>3. CASE a = "review"
    BY <2>1, <2>3 DEF Sources, Reviewed
  <2>4. CASE a = "approve"
    BY <2>1, <2>4 DEF Sources, Reviewed
  <2>5. CASE a \in {"discover", "assess", "reject", "cancel", "delete"}
    BY <2>5 DEF Goal, Reviewed
  <2>. QED
    BY <2>2, <2>3, <2>4, <2>5 DEF Action
<1>. HIDE DEF new
<1>5. Founded(new, evidence[m], versions[m])
  BY <1>2, <1>4 DEF Tables, Founded, Assessed
<1>. QED
  BY <1>2, <1>3, <1>5, SavedStep

\* A refresh leaves the statuses that a reviewer sees, and keeps the draft.
LEMMA RefreshStep ==
  ASSUME Tables, NEW m \in Migration, RefreshEvidence(m)
  PROVE  Tables'
<1>. DEFINE new == [row[m] EXCEPT !.status = "DISCOVERY_PENDING"]
<1>1. row[m] \in MigrationRow
  BY DEF Tables
<1>2. /\ new \in MigrationRow /\ new.status = "DISCOVERY_PENDING" /\ new.draft = row[m].draft
  BY <1>1 DEF MigrationRow, Status
<1>3. Saved(m, new) /\ UNCHANGED evidence
  BY DEF RefreshEvidence
<1>. HIDE DEF new
<1>4. Founded(new, evidence[m], versions[m])
  BY <1>2 DEF Tables, Founded, Reviewed
<1>. QED
  BY <1>2, <1>3, <1>4, SavedStep

-----------------------------------------------------------------------------
(* The steps of connectors that write a migration. *)

LEMMA AssignmentStep ==
  ASSUME Tables, NEW o, Assignment(o)
  PROVE  Tables'
<1>1. PICK m \in AssignmentOf(o), goal \in {"DISCOVERING", "INVENTORY_DISCOVERING"} :
        \/ UNCHANGED <<row, versions>>
        \/ Saved(m, Reported(row[m], goal))
  <2>1. PICK m \in AssignmentOf(o) :
          LET type == IF row[m].status \in Inventories THEN "inventory" ELSE "catalogue"
              goal == IF type = "inventory" THEN "DISCOVERING" ELSE "INVENTORY_DISCOVERING" IN
          IF row[m].status = goal THEN UNCHANGED <<row, versions, earlier>>
                                  ELSE Saved(m, Reported(row[m], goal))
    BY DEF Assignment
  <2>2. CASE row[m].status \in Inventories
    BY <2>1, <2>2
  <2>3. CASE row[m].status \notin Inventories
    BY <2>1, <2>3
  <2>. QED
    BY <2>2, <2>3
<1>2. UNCHANGED evidence
  BY DEF Assignment
<1>3. CASE UNCHANGED <<row, versions>>
  BY <1>2, <1>3, TablesKept
<1>4. CASE Saved(m, Reported(row[m], goal))
  <2>1. goal \in Status /\ goal \notin Reviewed
    BY DEF Status, Reviewed
  <2>2. ASSUME m \in Migration
        PROVE  /\ Reported(row[m], goal) \in MigrationRow
               /\ Founded(Reported(row[m], goal), evidence[m], versions[m])
    <3>1. /\ Reported(row[m], goal) \in MigrationRow
          /\ Reported(row[m], goal).status = goal /\ Reported(row[m], goal).draft = NoDraft
      BY <2>1, <2>2, ReportedRow DEF Tables
    <3>2. Reported(row[m], goal).draft.on = 0
      BY <3>1 DEF NoDraft
    <3>. QED
      BY <2>1, <3>1, <3>2 DEF Founded
  <2>. QED
    BY <1>2, <1>4, <2>2, SavedStep
<1>. QED
  BY <1>1, <1>3, <1>4

LEMMA CatalogueStep ==
  ASSUME Tables, NEW o, SubmitCatalogue(o)
  PROVE  Tables'
<1>1. PICK m : Saved(m, Reported(row[m], "INVENTORY_READY"))
  BY DEF SubmitCatalogue
<1>2. UNCHANGED evidence
  BY DEF SubmitCatalogue
<1>3. "INVENTORY_READY" \in Status /\ "INVENTORY_READY" \notin Reviewed
  BY DEF Status, Reviewed
<1>4. ASSUME m \in Migration
      PROVE  /\ Reported(row[m], "INVENTORY_READY") \in MigrationRow
             /\ Founded(Reported(row[m], "INVENTORY_READY"), evidence[m], versions[m])
  <2>1. /\ Reported(row[m], "INVENTORY_READY") \in MigrationRow
        /\ Reported(row[m], "INVENTORY_READY").status = "INVENTORY_READY"
        /\ Reported(row[m], "INVENTORY_READY").draft = NoDraft
    BY <1>3, <1>4, ReportedRow DEF Tables
  <2>. QED
    BY <1>3, <2>1 DEF Founded, NoDraft
<1>. QED
  BY <1>1, <1>2, <1>4, SavedStep

\* The assessment that is added names the version the row has.
LEMMA InventoryStep ==
  ASSUME MigrationInv, NEW o \in Origin, SubmitSourceInventory(o)
  PROVE  Tables'
<1>1. PICK m \in call[o].for :
        /\ Accepted(m, call[o]) /\ call[o].type = "inventory"
        /\ evidence' = [evidence EXCEPT ![m] = Append(@,
                          [digest |-> call[o].digest, version |-> call[o].version])]
        /\ row' = [row EXCEPT ![m] = [Reported(row[m], "ASSESSMENT_READY")
                                        EXCEPT !.version = row[m].version + 2]]
        /\ versions' = [versions EXCEPT ![m] = Append(Append(@, row[m].config), row[m].config)]
  BY DEF SubmitSourceInventory
<1>. DEFINE saved == [Reported(row[m], "ASSESSMENT_READY") EXCEPT !.version = row[m].version + 2]
            entry == [digest |-> call[o].digest, version |-> call[o].version]
            assessments == Append(evidence[m], entry)
            once == Append(versions[m], row[m].config)
            configs == Append(once, row[m].config)
<1>2. call[o] # NoCall
  BY <1>1 DEF NoCall
<1>3. ASSUME m \in Migration
      PROVE  /\ saved \in MigrationRow /\ assessments \in Seq(Assessment)
             /\ configs \in Seq(Config)
             /\ Founded(saved, assessments, configs) /\ Kept(saved, configs)
  <2>1. "ASSESSMENT_READY" \in Status /\ row[m] \in MigrationRow
    BY <1>3 DEF Status, MigrationInv, Tables
  <2>2. /\ Reported(row[m], "ASSESSMENT_READY") \in MigrationRow
        /\ Reported(row[m], "ASSESSMENT_READY").config = row[m].config
        /\ Reported(row[m], "ASSESSMENT_READY").draft = NoDraft
    BY <2>1, ReportedRow
  <2>3. row[m].version \in Nat /\ row[m].version + 2 \in Nat /\ row[m].config \in Config
    BY <2>1 DEF MigrationRow
  <2>4. /\ saved \in MigrationRow /\ saved.config = row[m].config /\ saved.draft = NoDraft
        /\ saved.version = row[m].version + 2
    BY <2>2, <2>3, SavedRow DEF MigrationRow
  <2>5. row[m].version = call[o].version /\ row[m].status # "NONE"
    BY <1>1 DEF Accepted, Discovers
  <2>6. /\ Len(versions[m]) = row[m].version /\ versions[m] \in Seq(Config)
        /\ row[m].version # 0 /\ versions[m][row[m].version] = row[m].config
    BY <1>3, <2>5 DEF MigrationInv, Tables, Kept
  <2>7. entry \in Assessment /\ entry.version = row[m].version
    BY <1>2, <2>3, <2>5 DEF Assessment, MigrationInv, Connectors
  <2>8. evidence[m] \in Seq(Assessment)
    BY <1>3 DEF MigrationInv, Tables
  <2>9. row[m].version \in DOMAIN versions[m]
    BY <2>3, <2>6
  <2>. HIDE DEF entry, saved
  <2>10. /\ assessments \in Seq(Assessment) /\ assessments # <<>>
         /\ Last(assessments) = entry
    BY <2>7, <2>8, AppendProperties DEF Last
  <2>. HIDE DEF assessments, configs, once
  <2>11. /\ once \in Seq(Config) /\ Len(once) = row[m].version + 1
         /\ row[m].version \in DOMAIN once /\ once[row[m].version] = row[m].config
    BY <2>3, <2>6, <2>9, KeptVersions DEF once
  <2>12. /\ configs \in Seq(Config) /\ Len(configs) = row[m].version + 2
         /\ row[m].version \in DOMAIN configs /\ configs[row[m].version] = row[m].config
         /\ configs[row[m].version + 2] = row[m].config
    <3>1. Len(configs) = Len(once) + 1 /\ Len(once) + 1 = row[m].version + 2
      BY <2>3, <2>11, KeptVersions DEF configs
    <3>. QED
      BY <2>3, <2>11, <3>1, KeptVersions DEF configs
  <2>13. Founded(saved, assessments, configs)
    <3>1. /\ Last(assessments).version = row[m].version
          /\ configs[Last(assessments).version] = saved.config
      BY <2>4, <2>7, <2>10, <2>12
    <3>2. Assessed(saved, assessments, configs, TRUE) /\ Assessed(saved, assessments, configs, FALSE)
      BY <2>10, <2>12, <3>1 DEF Assessed
    <3>. QED
      BY <2>4, <3>2 DEF Founded, NoDraft, Assessed
  <2>14. Kept(saved, configs)
    BY <2>3, <2>4, <2>12 DEF Kept
  <2>. QED
    BY <2>4, <2>10, <2>12, <2>13, <2>14
<1>4. /\ row' = [row EXCEPT ![m] = saved] /\ evidence' = [evidence EXCEPT ![m] = assessments]
      /\ versions' = [versions EXCEPT ![m] = configs]
  BY <1>1
<1>. HIDE DEF saved, assessments, configs
<1>5. /\ row' \in [Migration -> MigrationRow] /\ evidence' \in [Migration -> Seq(Assessment)]
      /\ versions' \in [Migration -> Seq(Config)]
  BY <1>3, <1>4 DEF MigrationInv, Tables
<1>6. ASSUME NEW n \in Migration
      PROVE  Founded(row'[n], evidence'[n], versions'[n]) /\ Kept(row'[n], versions'[n])
  <2>1. CASE n = m
    BY <1>3, <1>4, <2>1 DEF MigrationInv, Tables
  <2>2. CASE n # m
    BY <1>4, <2>2 DEF MigrationInv, Tables
  <2>. QED
    BY <2>1, <2>2
<1>. QED
  BY <1>5, <1>6 DEF Tables

-----------------------------------------------------------------------------
(* Connectors. *)

\* A connector is replaced only while no report of it is being handled.
LEMMA ReplacedStep ==
  ASSUME Connectors, NEW o \in Origin, Replaced(o), call[o] = NoCall, UNCHANGED <<call, digest>>
  PROVE  Connectors'
<1>1. connector' = [connector EXCEPT ![o] = [number |-> connector[o].number + 1, live |-> TRUE]]
  BY DEF Replaced
<1>2. /\ connector' \in [Origin -> [number: Nat, live: BOOLEAN]]
      /\ \A p \in Origin \ {o} : connector'[p] = connector[p]
  BY <1>1 DEF Connectors
<1>3. CallCurrent'
  BY <1>2 DEF Connectors, CallCurrent
<1>. QED
  BY <1>2, <1>3 DEF Connectors

\* Validity ends, and a report has been handled.
LEMMA LiveStep ==
  ASSUME Connectors, NEW o \in Origin, UNCHANGED digest,
         connector' = connector \/ connector' = [connector EXCEPT ![o].live = FALSE],
         call' = call \/ call' = [call EXCEPT ![o] = NoCall]
  PROVE  Connectors'
<1>1. /\ connector' \in [Origin -> [number: Nat, live: BOOLEAN]]
      /\ \A p \in Origin : connector'[p].number = connector[p].number
  <2>1. CASE connector' = connector
    BY <2>1 DEF Connectors
  <2>2. CASE connector' = [connector EXCEPT ![o].live = FALSE]
    <3>1. connector[o] \in [number: Nat, live: BOOLEAN]
      BY DEF Connectors
    <3>2. connector' = [connector EXCEPT ![o] = [number |-> connector[o].number, live |-> FALSE]]
      BY <2>2, <3>1
    <3>. QED
      BY <3>1, <3>2 DEF Connectors
  <2>. QED
    BY <2>1, <2>2
<1>2. /\ call' = [p \in Origin |-> call'[p]]
      /\ \A p \in Origin : call'[p] = call[p] \/ call'[p] = NoCall
  BY DEF Connectors
<1>3. CallCurrent'
  BY <1>1, <1>2 DEF Connectors, CallCurrent
<1>4. \A p \in Origin : call'[p] # NoCall => call'[p].digest \in 0 .. MaxDrift
  BY <1>2 DEF Connectors
<1>. QED
  BY <1>1, <1>2, <1>3, <1>4 DEF Connectors

LEMMA ReportStep ==
  ASSUME Connectors, NEW o \in Origin, NEW s \in Source, Report(o, s)
  PROVE  Connectors'
<1>1. PICK r : /\ call' = [call EXCEPT ![o] = r]
               /\ r.by = connector[o] /\ r.digest = digest[s]
  <2>. DEFINE report ==
         [for |-> IF o \in Source THEN SourceMigration(o, {Discovers(agent[o].type)}) ELSE {o},
          by |-> connector[o], type |-> agent[o].type, version |-> agent[o].version,
          digest |-> digest[s]]
  <2>1. call' = [call EXCEPT ![o] = report]
    BY DEF Report
  <2>2. report.by = connector[o] /\ report.digest = digest[s]
    OBVIOUS
  <2>. HIDE DEF report
  <2>. QED
    BY <2>1, <2>2
<1>2. UNCHANGED <<digest, connector>> /\ connector[o].live
  BY DEF Report, Authentic
<1>3. /\ call' = [p \in Origin |-> call'[p]]
      /\ call'[o] = r /\ \A p \in Origin \ {o} : call'[p] = call[p]
  BY <1>1 DEF Connectors
<1>4. digest[s] \in 0 .. MaxDrift
  BY DEF Connectors
<1>. QED
  BY <1>1, <1>2, <1>3, <1>4 DEF Connectors, CallCurrent

LEMMA ConnectorsKept ==
  ASSUME Connectors, UNCHANGED <<connector, call, digest>>
  PROVE  Connectors'
BY DEF Connectors, CallCurrent

LEMMA DriftStep ==
  ASSUME Connectors, NEW s \in Source, Drift(s)
  PROVE  Connectors'
<1>1. digest' \in [Source -> 0 .. MaxDrift]
  BY BoundsAreNaturals DEF Connectors, Drift
<1>. QED
  BY <1>1 DEF Connectors, CallCurrent, Drift, agents

-----------------------------------------------------------------------------
(* The invariant. *)

LEMMA MigrationInit == Init => MigrationInv
<1>. SUFFICES ASSUME Init  PROVE MigrationInv
  OBVIOUS
<1>1. (CHOOSE c \in Config : TRUE) \in Config
  <2>1. \A x \in Scope : [source |-> NoSource, manual |-> TRUE, scope |-> x,
                          target |-> NoTarget] \in Config
    BY DEF Config
  <2>. QED
    BY <2>1, BoundsAreNaturals
<1>. DEFINE new == [status |-> "NONE", version |-> 0, draft |-> NoDraft,
                    config |-> CHOOSE c \in Config : TRUE, deleted |-> FALSE]
<1>2. /\ new \in MigrationRow /\ new.status = "NONE" /\ new.draft = NoDraft
  BY <1>1 DEF MigrationRow, Status, NoDraft
<1>3. /\ row = [m \in Migration |-> new] /\ evidence = [m \in Migration |-> <<>>]
      /\ versions = [m \in Migration |-> <<>>] /\ new.version = 0
  BY DEF Init
<1>. HIDE DEF new
<1>4. Founded(new, <<>>, <<>>) /\ Kept(new, <<>>)
  BY <1>2, <1>3 DEF Founded, Kept, Reviewed, NoDraft
<1>5. Tables
  BY <1>2, <1>3, <1>4 DEF Tables
<1>6. Connectors
  BY BoundsAreNaturals DEF Init, Connectors, CallCurrent
<1>. QED
  BY <1>5, <1>6 DEF MigrationInv

LEMMA UserSteps ==
  ASSUME MigrationInv, NEW m \in Migration,
         \/ \E c \in Requested[m] : Create(m, c) \/ Update(m, c)
         \/ \E u \in User, a \in Action : Change(m, u, a) \/ ChangeWithToken(m, u, a)
         \/ RefreshEvidence(m)
         \/ \E t \in Target : SelectTarget(m, t)
         \/ \E k \in 1 .. Len(evidence[m]), b \in BOOLEAN : SavePlanningDraft(m, k, b)
  PROVE  MigrationInv'
<1>1. ASSUME NEW c \in Requested[m], Create(m, c) \/ Update(m, c)  PROVE MigrationInv'
  BY <1>1, CreateStep, UpdateStep, ConnectorsKept DEF Create, Update, agents, MigrationInv
<1>2. ASSUME NEW u \in User, NEW a \in Action, Change(m, u, a)  PROVE MigrationInv'
  BY <1>2, ChangesStep, ConnectorsKept DEF Change, Changes, agents, MigrationInv
<1>3. ASSUME NEW u \in User, NEW a \in Action, ChangeWithToken(m, u, a)  PROVE MigrationInv'
  <2>1. /\ Changes(m, u, a) /\ Replaced(m) /\ call[m] = NoCall
        /\ UNCHANGED <<call, digest>>
    BY <1>3 DEF ChangeWithToken, Changes
  <2>. QED
    BY <2>1, ChangesStep, ReplacedStep DEF MigrationInv, Origin
<1>4. ASSUME NEW t \in Target, SelectTarget(m, t)  PROVE MigrationInv'
  BY <1>4, SelectTargetStep, ConnectorsKept DEF SelectTarget, agents, MigrationInv
<1>5. ASSUME NEW k \in 1 .. Len(evidence[m]), NEW b \in BOOLEAN, SavePlanningDraft(m, k, b)
      PROVE  MigrationInv'
  BY <1>5, SavePlanningDraftStep, ConnectorsKept DEF SavePlanningDraft, agents, MigrationInv
<1>6. ASSUME RefreshEvidence(m)  PROVE MigrationInv'
  BY <1>6, RefreshStep, ConnectorsKept DEF RefreshEvidence, agents, MigrationInv
<1>. QED
  BY <1>1, <1>2, <1>3, <1>4, <1>5, <1>6

LEMMA OriginSteps ==
  ASSUME MigrationInv, NEW o \in Origin,
         \/ Assignment(o) \/ Lose(o) \/ Handle(o) \/ Expire(o)
         \/ \E s \in Source : Report(o, s)
  PROVE  MigrationInv'
<1>1. CASE Assignment(o)
  BY <1>1, AssignmentStep, ConnectorsKept DEF Assignment, MigrationInv
<1>2. CASE Lose(o)
  BY <1>2, TablesKept, ConnectorsKept DEF Lose, tables, MigrationInv
<1>3. CASE SubmitCatalogue(o)
  BY <1>3, CatalogueStep, LiveStep DEF SubmitCatalogue, Marked, Ended, MigrationInv
<1>4. CASE SubmitSourceInventory(o)
  BY <1>4, InventoryStep, LiveStep DEF SubmitSourceInventory, Marked, Ended, MigrationInv
<1>5. CASE Refused(o)
  BY <1>5, TablesKept, LiveStep DEF Refused, Ended, tables, MigrationInv
<1>6. CASE Expire(o)
  BY <1>6, TablesKept, LiveStep DEF Expire, tables, MigrationInv
<1>7. ASSUME NEW s \in Source, Report(o, s)  PROVE MigrationInv'
  <2>1. UNCHANGED tables
    BY <1>7 DEF Report
  <2>. QED
    BY <1>7, <2>1, TablesKept, ReportStep DEF tables, MigrationInv
<1>. QED
  BY <1>1, <1>2, <1>3, <1>4, <1>5, <1>6, <1>7 DEF Handle

LEMMA MigrationNext == MigrationInv /\ [Next]_vars => MigrationInv'
<1>. SUFFICES ASSUME MigrationInv, [Next]_vars  PROVE MigrationInv'
  OBVIOUS
<1>1. CASE UNCHANGED vars
  BY <1>1, TablesKept, ConnectorsKept DEF vars, MigrationInv
<1>2. ASSUME NEW s \in Source, EnrollSourceConnector(s)  PROVE MigrationInv'
  BY <1>2, TablesKept, ReplacedStep DEF EnrollSourceConnector, tables, Origin, MigrationInv
<1>3. ASSUME NEW s \in Source, Drift(s)  PROVE MigrationInv'
  <2>1. UNCHANGED tables
    BY <1>3 DEF Drift
  <2>. QED
    BY <1>3, <2>1, TablesKept, DriftStep DEF tables, MigrationInv
<1>. QED
  BY <1>1, <1>2, <1>3, UserSteps, OriginSteps DEF Next

\* The inductive invariant holds whatever users, connectors and faults do.
THEOREM MigrationInvariant == Spec => []MigrationInv
BY MigrationInit, MigrationNext, PTL DEF Spec

-----------------------------------------------------------------------------
(* Types. *)

Assigned == [type: {"catalogue", "inventory"}, version: Nat]
Reports == [for: SUBSET Migration, by: [number: Nat, live: BOOLEAN],
            type: {"catalogue", "inventory"}, version: Nat, digest: 0 .. MaxDrift]

\* UNIQUE(migration_id, inventory_digest).
DigestsDiffer(assessments) == \A j, k \in DOMAIN assessments :
                                assessments[j].digest = assessments[k].digest => j = k

\* Agents and the reports they have posted.
Posts ==
  /\ agent \in [Origin -> Assigned \cup {Idle}]
  /\ \A o \in Origin : call[o] \in Reports \cup {NoCall}
  /\ faults \in 0 .. MaxFaults

Rows == Ordered /\ \A m \in Migration : DigestsDiffer(evidence[m])

TypeInv == MigrationInv /\ Rows /\ Posts

\* The row that was updated last comes after all others, which keep their order.
LEMMA LatestOrdered ==
  ASSUME Ordered, NEW m \in Migration, Latest(m), row \in [Migration -> MigrationRow],
         NEW new, new.status # "NONE", row' = [row EXCEPT ![m] = new]
  PROVE  Ordered'
<1>1. Created' = Created \cup {m}
  BY DEF Created
<1>. DEFINE kept == {p \in earlier : m \notin {p[1], p[2]}}
            added == {<<n, m>> : n \in Created \ {m}}
<1>2. earlier' = kept \cup added
  BY DEF Latest
<1>3. \A a, b \in Created \ {m} : <<a, b>> \in earlier' <=> <<a, b>> \in earlier
  <2>. SUFFICES ASSUME NEW a \in Created \ {m}, NEW b \in Created \ {m}
                PROVE  <<a, b>> \in earlier' <=> <<a, b>> \in earlier
    OBVIOUS
  <2>1. <<a, b>> \in kept <=> <<a, b>> \in earlier
    OBVIOUS
  <2>2. <<a, b>> \notin added
    OBVIOUS
  <2>. QED
    BY <1>2, <2>1, <2>2
<1>4. \A a \in Created \ {m} : <<a, m>> \in earlier'
  BY <1>2
<1>5. \A b \in Created' : <<m, b>> \notin earlier'
  <2>. SUFFICES ASSUME NEW b, <<m, b>> \in earlier'  PROVE FALSE
    OBVIOUS
  <2>1. <<m, b>> \notin kept
    OBVIOUS
  <2>2. <<m, b>> \notin added
    OBVIOUS
  <2>. QED
    BY <1>2, <2>1, <2>2
<1>6. earlier' \subseteq Created' \X Created'
  <2>1. kept \subseteq Created' \X Created'
    BY <1>1 DEF Ordered
  <2>2. added \subseteq Created' \X Created'
    BY <1>1
  <2>. QED
    BY <1>2, <2>1, <2>2
<1>. HIDE DEF kept, added
<1>. QED
  BY <1>1, <1>3, <1>4, <1>5, <1>6 DEF Ordered

LEMMA RowsKept ==
  ASSUME Rows, UNCHANGED tables
  PROVE  Rows'
BY DEF Rows, Ordered, Created, tables

LEMMA AssignedAreMigrations ==
  ASSUME NEW o \in Origin
  PROVE  /\ AssignmentOf(o) \subseteq Migration
         /\ \A statuses : SourceMigration(o, statuses) \subseteq Migration
BY DEF AssignmentOf, SourceMigration, Origin

\* Users' calls, connectors' polls and everything else that is not a report.
LEMMA PostsKept ==
  ASSUME Posts, UNCHANGED <<agent, call, faults>>
  PROVE  Posts'
BY DEF Posts

LEMMA ReplacedPosts ==
  ASSUME Posts, NEW o \in Origin, Replaced(o), UNCHANGED <<call, faults>>
  PROVE  Posts'
BY DEF Posts, Replaced

\* An agent that has nothing to do, or goes on, a call that has ended, or goes
\* on, and at most one fault more.
LEMMA EndedPosts ==
  ASSUME Posts, NEW o \in Origin,
         agent' = agent \/ agent' = [agent EXCEPT ![o] = Idle],
         call' = call \/ call' = [call EXCEPT ![o] = NoCall],
         faults' = faults \/ (faults < MaxFaults /\ faults' = faults + 1),
         call = [p \in Origin |-> call[p]]
  PROVE  Posts'
<1>1. agent' \in [Origin -> Assigned \cup {Idle}]
  BY DEF Posts
<1>2. \A p \in Origin : call'[p] \in Reports \cup {NoCall}
  BY DEF Posts
<1>3. faults' \in 0 .. MaxFaults
  BY MigrationAssumption DEF Posts
<1>. QED
  BY <1>1, <1>2, <1>3 DEF Posts

\* Whatever is saved has a status of its own, or the one it had.
LEMMA UserRows ==
  ASSUME Tables, Rows, NEW m \in Migration, NEW new, Saved(m, new), UNCHANGED evidence,
         \/ \E c : new = [row[m] EXCEPT !.status = "DRAFT", !.config = c]
         \/ /\ row[m].status # "NONE"
            /\ \/ \E c : new = [row[m] EXCEPT !.config = c]
               \/ \E t : new = [row[m] EXCEPT !.config.target = t]
               \/ \E d : new = [row[m] EXCEPT !.draft = d]
         \/ \E a \in Action : \E d : new = [row[m] EXCEPT !.status = Goal(a), !.deleted = d]
         \/ \E status \in Status \ {"NONE"} :
              new \in {Reported(row[m], status), [row[m] EXCEPT !.status = status]}
  PROVE  Rows'
<1>. DEFINE saved == [new EXCEPT !.version = row[m].version + 1]
<1>1. \A a \in Action : Goal(a) # "NONE"
  BY DEF Action, Goal
<1>2. row[m] \in MigrationRow
  BY DEF Tables
<1>3. saved.status # "NONE"
  <2>1. CASE \E c : new = [row[m] EXCEPT !.status = "DRAFT", !.config = c]
    BY <1>2, <2>1 DEF MigrationRow
  <2>2. CASE row[m].status # "NONE" /\ \E c : new = [row[m] EXCEPT !.config = c]
    BY <1>2, <2>2 DEF MigrationRow
  <2>3. CASE row[m].status # "NONE" /\ \E t : new = [row[m] EXCEPT !.config.target = t]
    BY <1>2, <2>3 DEF MigrationRow
  <2>4. CASE row[m].status # "NONE" /\ \E d : new = [row[m] EXCEPT !.draft = d]
    BY <1>2, <2>4 DEF MigrationRow
  <2>5. CASE \E a \in Action : \E d : new = [row[m] EXCEPT !.status = Goal(a), !.deleted = d]
    <3>1. PICK a \in Action : \E d : new = [row[m] EXCEPT !.status = Goal(a), !.deleted = d]
      BY <2>5
    <3>2. saved.status = Goal(a)
      BY <1>2, <3>1 DEF MigrationRow
    <3>. QED
      BY <1>1, <3>2
  <2>6. CASE \E status \in Status \ {"NONE"} :
               new \in {Reported(row[m], status), [row[m] EXCEPT !.status = status]}
    BY <1>2, <2>6 DEF MigrationRow, Reported
  <2>. QED
    BY <2>1, <2>2, <2>3, <2>4, <2>5, <2>6
<1>4. row' = [row EXCEPT ![m] = saved] /\ Latest(m)
  BY DEF Saved
<1>. HIDE DEF saved
<1>. QED
  BY <1>3, <1>4, LatestOrdered DEF Rows, Tables

LEMMA UserTypes ==
  ASSUME TypeInv, NEW m \in Migration,
         \/ \E c \in Requested[m] : Create(m, c) \/ Update(m, c)
         \/ \E u \in User, a \in Action : Change(m, u, a) \/ ChangeWithToken(m, u, a)
         \/ RefreshEvidence(m)
         \/ \E t \in Target : SelectTarget(m, t)
         \/ \E k \in 1 .. Len(evidence[m]), b \in BOOLEAN : SavePlanningDraft(m, k, b)
  PROVE  Rows' /\ Posts'
<1>. USE DEF TypeInv, MigrationInv
<1>1. ASSUME NEW c \in Requested[m], Create(m, c)  PROVE Rows' /\ Posts'
  BY <1>1, UserRows, PostsKept DEF Create, agents
<1>2. ASSUME NEW c \in Requested[m], Update(m, c)  PROVE Rows' /\ Posts'
  BY <1>2, UserRows, PostsKept DEF Update, Open, Exists, agents
<1>3. ASSUME NEW u \in User, NEW a \in Action, Changes(m, u, a)  PROVE Rows'
  BY <1>3, UserRows DEF Changes
<1>4. ASSUME NEW u \in User, NEW a \in Action, Change(m, u, a)  PROVE Rows' /\ Posts'
  BY <1>3, <1>4, PostsKept DEF Change, agents
<1>5. ASSUME NEW u \in User, NEW a \in Action, ChangeWithToken(m, u, a)  PROVE Rows' /\ Posts'
  BY <1>3, <1>5, ReplacedPosts DEF ChangeWithToken, Origin
<1>6. ASSUME NEW t \in Target, SelectTarget(m, t)  PROVE Rows' /\ Posts'
  BY <1>6, UserRows, PostsKept DEF SelectTarget, Open, Exists, agents
<1>7. ASSUME NEW k \in 1 .. Len(evidence[m]), NEW b \in BOOLEAN, SavePlanningDraft(m, k, b)
      PROVE  Rows' /\ Posts'
  BY <1>7, UserRows, PostsKept DEF SavePlanningDraft, Open, Exists, agents
<1>8. ASSUME RefreshEvidence(m)  PROVE Rows' /\ Posts'
  BY <1>8, UserRows, PostsKept DEF RefreshEvidence, Status, agents
<1>. QED
  BY <1>1, <1>2, <1>4, <1>5, <1>6, <1>7, <1>8

LEMMA AssignmentTypes ==
  ASSUME TypeInv, MigrationInv', NEW o \in Origin, Assignment(o)
  PROVE  Rows' /\ Posts'
<1>. USE DEF TypeInv, MigrationInv
<1>1. PICK m \in AssignmentOf(o) :
        LET type == IF row[m].status \in Inventories THEN "inventory" ELSE "catalogue"
            goal == IF type = "inventory" THEN "DISCOVERING" ELSE "INVENTORY_DISCOVERING" IN
        /\ IF row[m].status = goal THEN UNCHANGED <<row, versions, earlier>>
                                   ELSE Saved(m, Reported(row[m], goal))
        /\ agent' = [agent EXCEPT ![o] = [type |-> type, version |-> row'[m].version]]
  BY DEF Assignment
<1>2. m \in Migration
  BY <1>1, AssignedAreMigrations
<1>3. UNCHANGED <<evidence, call, faults>>
  BY DEF Assignment
<1>4. PICK type \in {"catalogue", "inventory"}, goal \in {"DISCOVERING", "INVENTORY_DISCOVERING"} :
        /\ UNCHANGED <<row, versions, earlier>> \/ Saved(m, Reported(row[m], goal))
        /\ agent' = [agent EXCEPT ![o] = [type |-> type, version |-> row'[m].version]]
  <2>1. CASE row[m].status \in Inventories
    BY <1>1, <2>1
  <2>2. CASE row[m].status \notin Inventories
    BY <1>1, <2>2
  <2>. QED
    BY <2>1, <2>2
<1>5. goal \in Status \ {"NONE"}
  BY DEF Status
<1>6. Rows'
  <2>1. CASE UNCHANGED <<row, versions, earlier>>
    BY <1>3, <2>1, RowsKept DEF tables
  <2>2. CASE Saved(m, Reported(row[m], goal))
    BY <1>2, <1>3, <1>5, <2>2, UserRows
  <2>. QED
    BY <1>4, <2>1, <2>2
<1>7. row'[m].version \in Nat
  BY <1>2 DEF Tables, MigrationRow
<1>8. agent' \in [Origin -> Assigned \cup {Idle}]
  BY <1>4, <1>7 DEF Posts, Assigned
<1>. QED
  BY <1>3, <1>6, <1>8 DEF Posts

LEMMA ReportTypes ==
  ASSUME TypeInv, NEW o \in Origin, NEW s \in Source, Report(o, s)
  PROVE  Posts'
<1>. USE DEF TypeInv, MigrationInv
<1>. DEFINE for == IF o \in Source THEN SourceMigration(o, {Discovers(agent[o].type)}) ELSE {o}
            report == [for |-> for, by |-> connector[o], type |-> agent[o].type,
                       version |-> agent[o].version, digest |-> digest[s]]
<1>1. call' = [call EXCEPT ![o] = report]
  BY DEF Report
<1>2. for \in SUBSET Migration
  BY AssignedAreMigrations DEF Origin
<1>. HIDE DEF for
<1>3. agent[o] \in Assigned
  BY DEF Report, Posts
<1>4. connector[o] \in [number: Nat, live: BOOLEAN] /\ digest[s] \in 0 .. MaxDrift
  BY DEF Connectors
<1>5. report \in Reports
  BY <1>2, <1>3, <1>4 DEF Reports, Assigned
<1>. HIDE DEF report
<1>6. \A p \in Origin : call'[p] \in Reports \cup {NoCall}
  BY <1>1, <1>5 DEF Posts, Connectors
<1>7. agent' \in [Origin -> Assigned \cup {Idle}]
  BY DEF Report, Posts
<1>8. faults' \in 0 .. MaxFaults
  BY MigrationAssumption DEF Report, Posts
<1>. QED
  BY <1>6, <1>7, <1>8 DEF Posts

\* A report is accepted once: its evidence is new.
LEMMA InventoryRows ==
  ASSUME TypeInv, NEW o \in Origin, SubmitSourceInventory(o)
  PROVE  Rows'
<1>. USE DEF TypeInv, MigrationInv
<1>1. PICK m \in call[o].for :
        /\ call[o].type = "inventory" /\ Accepted(m, call[o])
        /\ evidence' = [evidence EXCEPT ![m] = Append(@,
                          [digest |-> call[o].digest, version |-> call[o].version])]
        /\ row' = [row EXCEPT ![m] = [Reported(row[m], "ASSESSMENT_READY")
                                        EXCEPT !.version = row[m].version + 2]]
        /\ Latest(m)
  BY DEF SubmitSourceInventory
<1>2. call[o] \in Reports
  BY <1>1 DEF Posts, NoCall
<1>3. m \in Migration
  BY <1>1, <1>2 DEF Reports
<1>. DEFINE saved == [Reported(row[m], "ASSESSMENT_READY") EXCEPT !.version = row[m].version + 2]
            entry == [digest |-> call[o].digest, version |-> call[o].version]
<1>4. saved.status # "NONE"
  <2>1. row[m] \in MigrationRow
    BY <1>3 DEF Tables
  <2>. QED
    BY <2>1 DEF MigrationRow, Reported
<1>5. row' = [row EXCEPT ![m] = saved] /\ evidence' = [evidence EXCEPT ![m] = Append(@, entry)]
  BY <1>1
<1>. HIDE DEF saved
<1>6. Ordered'
  BY <1>1, <1>3, <1>4, <1>5, LatestOrdered DEF Rows, Tables
<1>7. DigestsDiffer(Append(evidence[m], entry))
  <2>1. \A k \in DOMAIN evidence[m] : evidence[m][k].digest # entry.digest
    BY <1>1 DEF Accepted
  <2>2. evidence[m] \in Seq(Assessment) /\ DigestsDiffer(evidence[m])
    BY <1>3 DEF Tables, Rows
  <2>. HIDE DEF entry
  <2>3. /\ DOMAIN Append(evidence[m], entry) = 1 .. Len(evidence[m]) + 1
        /\ \A k \in 1 .. Len(evidence[m]) : Append(evidence[m], entry)[k] = evidence[m][k]
        /\ Append(evidence[m], entry)[Len(evidence[m]) + 1] = entry
        /\ DOMAIN evidence[m] = 1 .. Len(evidence[m]) /\ Len(evidence[m]) \in Nat
    BY <2>2
  <2>. QED
    BY <2>1, <2>2, <2>3 DEF DigestsDiffer
<1>8. \A n \in Migration : DigestsDiffer(evidence'[n])
  BY <1>3, <1>5, <1>7 DEF Rows, Tables
<1>. QED
  BY <1>6, <1>8 DEF Rows

LEMMA OriginTypes ==
  ASSUME TypeInv, MigrationInv', NEW o \in Origin,
         \/ Assignment(o) \/ Lose(o) \/ Handle(o) \/ Expire(o)
         \/ \E s \in Source : Report(o, s)
  PROVE  Rows' /\ Posts'
<1>. USE DEF TypeInv, MigrationInv
<1>1. CASE Assignment(o)
  BY <1>1, AssignmentTypes
<1>2. CASE Lose(o)
  <2>1. Posts'
    BY <1>2, EndedPosts DEF Lose, Connectors
  <2>. QED
    BY <1>2, <2>1, RowsKept DEF Lose
<1>3. CASE SubmitCatalogue(o)
  <2>1. PICK m \in call[o].for : Saved(m, Reported(row[m], "INVENTORY_READY"))
    BY <1>3 DEF SubmitCatalogue
  <2>2. m \in Migration
    BY <2>1 DEF Posts, Reports, NoCall
  <2>3. Rows'
    BY <1>3, <2>1, <2>2, UserRows DEF SubmitCatalogue, Status
  <2>. QED
    BY <1>3, <2>3, EndedPosts DEF SubmitCatalogue, Ended, Connectors
<1>4. CASE SubmitSourceInventory(o)
  BY <1>4, InventoryRows, EndedPosts DEF SubmitSourceInventory, Ended, Connectors
<1>5. CASE Refused(o)
  <2>1. Posts'
    BY <1>5, EndedPosts DEF Refused, Ended, Connectors
  <2>. QED
    BY <1>5, <2>1, RowsKept DEF Refused
<1>6. CASE Expire(o)
  <2>1. Posts'
    BY <1>6, EndedPosts DEF Expire, Connectors
  <2>. QED
    BY <1>6, <2>1, RowsKept DEF Expire
<1>7. ASSUME NEW s \in Source, Report(o, s)  PROVE Rows' /\ Posts'
  BY <1>7, ReportTypes, RowsKept DEF Report
<1>. QED
  BY <1>1, <1>2, <1>3, <1>4, <1>5, <1>6, <1>7 DEF Handle

LEMMA TypeNext == TypeInv /\ [Next]_vars => TypeInv'
<1>. SUFFICES ASSUME TypeInv, [Next]_vars  PROVE TypeInv'
  OBVIOUS
<1>1. MigrationInv'
  BY MigrationNext DEF TypeInv
<1>2. CASE UNCHANGED vars
  BY <1>1, <1>2, RowsKept, PostsKept DEF vars, tables, TypeInv
<1>3. ASSUME NEW s \in Source, EnrollSourceConnector(s)  PROVE Rows' /\ Posts'
  BY <1>3, RowsKept, ReplacedPosts DEF EnrollSourceConnector, Origin, TypeInv
<1>4. ASSUME NEW s \in Source, Drift(s)  PROVE Rows' /\ Posts'
  BY <1>4, RowsKept, PostsKept DEF Drift, agents, TypeInv
<1>. QED
  BY <1>1, <1>2, <1>3, <1>4, UserTypes, OriginTypes DEF Next, TypeInv

LEMMA TypeInit == Init => TypeInv
<1>. SUFFICES ASSUME Init  PROVE TypeInv
  OBVIOUS
<1>1. Created = {}
  BY DEF Init, Created
<1>2. Ordered
  BY <1>1 DEF Init, Ordered
<1>3. \A m \in Migration : DigestsDiffer(evidence[m])
  BY DEF Init, DigestsDiffer
<1>4. Posts
  BY BoundsAreNaturals, MigrationAssumption DEF Init, Posts
<1>. QED
  BY <1>2, <1>3, <1>4, MigrationInit DEF TypeInv, Rows

\* Types, for any number of migrations and connectors; the rows have a strict
\* order by updated_at, and no inventory is recorded twice for a migration
\* (UNIQUE (migration_id, inventory_digest)).
THEOREM TypeCorrect == Spec => []TypeOK
<1>1. TypeInv => TypeOK
  <2>. SUFFICES ASSUME TypeInv  PROVE TypeOK
    OBVIOUS
  <2>. USE DEF TypeInv, MigrationInv
  <2>1. row \in [Migration -> [status: Status, version: Nat, config: Config,
                               draft: [on: Nat, sourceFirst: BOOLEAN], deleted: BOOLEAN]]
    BY DEF Tables, MigrationRow
  <2>2. ASSUME NEW m \in Migration
        PROVE  /\ Len(versions[m]) = row[m].version
               /\ evidence[m] \in Seq([digest: 0 .. MaxDrift, version: Nat])
               /\ IsInjective([k \in DOMAIN evidence[m] |-> evidence[m][k].digest])
    BY DEF Tables, Assessment, Kept, Rows, DigestsDiffer, IsInjective
  <2>3. agent \in [Origin -> [type: {"none", "catalogue", "inventory"}, version: Nat]]
    BY DEF Posts, Assigned, Idle
  <2>4. ASSUME NEW o \in Origin, call[o] # NoCall
        PROVE  call[o] \in [for: SUBSET Migration, by: [number: Nat, live: BOOLEAN],
                            type: {"catalogue", "inventory"}, version: Nat,
                            digest: 0 .. MaxDrift]
    BY <2>4 DEF Posts, Reports
  <2>. QED
    BY <2>1, <2>2, <2>3, <2>4 DEF TypeOK, Tables, Rows, Posts, Connectors
<1>. QED
  BY <1>1, TypeInit, TypeNext, PTL DEF Spec

\* From the assessment to the approval the configuration of a migration is the
\* one kept under the version its newest assessment names
\* (require_planning_configuration).
THEOREM ReviewedWereAssessed == Spec => []ReviewedAsAssessed
<1>1. MigrationInv => ReviewedAsAssessed
  BY DEF MigrationInv, Tables, Founded, Assessed, Reviewed, ReviewedAsAssessed, AsAssessed
<1>. QED
  BY <1>1, MigrationInvariant, PTL

\* No planning draft outlives the assessment it was made for: connectors'
\* transitions write {} (Repository.save).
THEOREM DraftsRestOnLatest == Spec => []DraftOnLatest
<1>1. MigrationInv => DraftOnLatest
  BY DEF MigrationInv, Tables, Founded, DraftOnLatest
<1>. QED
  BY <1>1, MigrationInvariant, PTL

\* A migration is moved only by a report that came from a valid connector, which
\* is still the newest one (authenticate_connector with the lock of its row).
THEOREM OnlyNewestReports == Spec => RevokedReportNothing
<1>1. ASSUME MigrationInv, NEW o \in Origin, SubmitCatalogue(o) \/ SubmitSourceInventory(o)
      PROVE  call[o].by.live /\ connector[o].number = call[o].by.number
  <2>1. call[o] # NoCall
    <3>1. \E m \in call[o].for : TRUE
      BY <1>1 DEF SubmitCatalogue, SubmitSourceInventory
    <3>. QED
      BY <3>1 DEF NoCall
  <2>. QED
    BY <1>1, <2>1 DEF MigrationInv, Connectors, CallCurrent
<1>2. MigrationInv => [\A o \in Origin : SubmitCatalogue(o) \/ SubmitSourceInventory(o) =>
                         call[o].by.live /\ connector[o].number = call[o].by.number]_vars
  BY <1>1
<1>. QED
  BY <1>2, MigrationInvariant, PTL DEF RevokedReportNothing

-----------------------------------------------------------------------------
(* Liveness: discoveries proceed.  While rows, connectors, sources and faults *)
(* stay as they are, the agent of a source is given one migration of those    *)
(* that wait, the first one updated, and its report on it has to be accepted: *)
(* so they do not stay as they are while a migration waits with hope.         *)

\* Whatever is saved changes its row.
LEMMA SavedMoves ==
  ASSUME Tables, NEW m \in Migration, NEW new, Saved(m, new),
         \/ \E c : new = [row[m] EXCEPT !.status = "DRAFT", !.config = c]
         \/ \E c : new = [row[m] EXCEPT !.config = c]
         \/ \E t : new = [row[m] EXCEPT !.config.target = t]
         \/ \E d : new = [row[m] EXCEPT !.draft = d]
         \/ \E status, d : new = [row[m] EXCEPT !.status = status, !.deleted = d]
         \/ \E status : new \in {Reported(row[m], status), [row[m] EXCEPT !.status = status]}
  PROVE  row' # row
<1>. DEFINE saved == [new EXCEPT !.version = row[m].version + 1]
<1>1. row[m] \in MigrationRow
  BY DEF Tables
<1>2. saved.version = row[m].version + 1
  <2>1. CASE \E c : new = [row[m] EXCEPT !.status = "DRAFT", !.config = c]
    BY <1>1, <2>1 DEF MigrationRow
  <2>2. CASE \E c : new = [row[m] EXCEPT !.config = c]
    BY <1>1, <2>2 DEF MigrationRow
  <2>3. CASE \E t : new = [row[m] EXCEPT !.config.target = t]
    BY <1>1, <2>3 DEF MigrationRow
  <2>4. CASE \E d : new = [row[m] EXCEPT !.draft = d]
    BY <1>1, <2>4 DEF MigrationRow
  <2>5. CASE \E status, d : new = [row[m] EXCEPT !.status = status, !.deleted = d]
    BY <1>1, <2>5 DEF MigrationRow
  <2>6. CASE \E status : new \in {Reported(row[m], status), [row[m] EXCEPT !.status = status]}
    BY <1>1, <2>6 DEF MigrationRow, Reported
  <2>. QED BY <2>1, <2>2, <2>3, <2>4, <2>5, <2>6
<1>3. row' = [row EXCEPT ![m] = saved]
  BY DEF Saved
<1>. HIDE DEF saved
<1>4. row'[m].version = row[m].version + 1
  BY <1>2, <1>3 DEF Tables
<1>5. row[m].version \in Nat
  BY <1>1 DEF MigrationRow
<1>6. ASSUME row' = row  PROVE FALSE
  BY ONLY <1>4, <1>5, <1>6
<1>. QED BY <1>6

\* A step at which nothing but agents and their reports moves.
SteadyStep == TypeInv /\ [Next]_vars /\ [UNCHANGED <<row, connector, digest, faults>>]_vars

LEMMA SteadyRows ==
  SteadyStep => UNCHANGED <<row, connector, digest, faults>>
BY DEF SteadyStep, vars

LEMMA UsersMove ==
  ASSUME TypeInv, NEW m \in Migration,
         \/ \E c \in Requested[m] : Create(m, c) \/ Update(m, c)
         \/ \E u \in User, a \in Action : Change(m, u, a) \/ ChangeWithToken(m, u, a)
         \/ RefreshEvidence(m)
         \/ \E t \in Target : SelectTarget(m, t)
         \/ \E k \in 1 .. Len(evidence[m]), b \in BOOLEAN : SavePlanningDraft(m, k, b)
  PROVE  row' # row
<1>. USE DEF TypeInv, MigrationInv
<1>1. ASSUME NEW c \in Requested[m], Create(m, c)  PROVE row' # row
  BY <1>1, SavedMoves DEF Create
<1>2. ASSUME NEW c \in Requested[m], Update(m, c)  PROVE row' # row
  BY <1>2, SavedMoves DEF Update
<1>3. ASSUME NEW u \in User, NEW a \in Action, Change(m, u, a) \/ ChangeWithToken(m, u, a)
      PROVE  row' # row
  <2>1. Changes(m, u, a)
    BY <1>3 DEF Change, ChangeWithToken
  <2>. QED BY <2>1, SavedMoves DEF Changes
<1>4. ASSUME NEW t \in Target, SelectTarget(m, t)  PROVE row' # row
  BY <1>4, SavedMoves DEF SelectTarget
<1>5. ASSUME NEW k \in 1 .. Len(evidence[m]), NEW b \in BOOLEAN, SavePlanningDraft(m, k, b)
      PROVE  row' # row
  BY <1>5, SavedMoves DEF SavePlanningDraft
<1>6. ASSUME RefreshEvidence(m)  PROVE row' # row
  BY <1>6, SavedMoves DEF RefreshEvidence
<1>. QED BY <1>1, <1>2, <1>3, <1>4, <1>5, <1>6

\* A report that is accepted changes its migration.
LEMMA AcceptedMoves ==
  ASSUME TypeInv, NEW o \in Origin, SubmitCatalogue(o) \/ SubmitSourceInventory(o)
  PROVE  row' # row
<1>. USE DEF TypeInv, MigrationInv
<1>1. CASE SubmitCatalogue(o)
  <2>1. PICK m \in call[o].for : Saved(m, Reported(row[m], "INVENTORY_READY"))
    BY <1>1 DEF SubmitCatalogue
  <2>2. m \in Migration
    BY <2>1 DEF Posts, Reports, NoCall
  <2>. QED BY <2>1, <2>2, SavedMoves
<1>2. CASE SubmitSourceInventory(o)
  <2>1. PICK m \in call[o].for :
          row' = [row EXCEPT ![m] = [Reported(row[m], "ASSESSMENT_READY")
                                       EXCEPT !.version = row[m].version + 2]]
    BY <1>2 DEF SubmitSourceInventory
  <2>2. m \in Migration
    BY <2>1 DEF Posts, Reports, NoCall
  <2>3. row[m] \in MigrationRow /\ row[m].version \in Nat
    BY <2>2 DEF Tables, MigrationRow
  <2>4. row'[m].version = row[m].version + 2
    BY <2>1, <2>2, <2>3 DEF Tables, MigrationRow, Reported
  <2>. QED BY <2>3, <2>4
<1>. QED BY <1>1, <1>2

\* What is left for the connector of a source: to be given a migration that does
\* its discovery already, to report, and to be refused; or to be invalid.
LEMMA SteadyMoves ==
  ASSUME SteadyStep, NEW s \in Source
  PROVE  /\ UNCHANGED <<evidence, earlier>>
         /\ \/ UNCHANGED <<agent[s], call[s]>>
            \/ Assignment(s) /\ UNCHANGED call[s]
            \/ Report(s, s) /\ agent'[s] = Idle
            \/ Refused(s) /\ UNCHANGED agent[s] /\ call'[s] = NoCall
                 /\ \A m \in call[s].for : ~Accepted(m, call[s])
            \/ ~connector[s].live /\ UNCHANGED call[s] /\ agent'[s] = Idle
<1>. USE DEF TypeInv, MigrationInv
<1>0. /\ TypeInv /\ UNCHANGED <<row, connector, digest, faults>>
      /\ s \in Origin /\ faults \in Nat /\ faults + 1 # faults
  <2>1. TypeInv /\ UNCHANGED <<row, connector, digest, faults>>
    BY SteadyRows DEF SteadyStep
  <2>2. faults \in Nat
    BY <2>1, MigrationAssumption DEF Posts
  <2>. QED BY <2>1, <2>2 DEF Origin
<1>1. CASE UNCHANGED vars
  BY <1>1 DEF vars
<1>2. ASSUME NEW o \in Origin, Replaced(o)  PROVE FALSE
  <2>1. connector[o] \in [number: Nat, live: BOOLEAN]
    BY <1>0 DEF Connectors
  <2>2. connector'[o].number = connector[o].number + 1 /\ connector[o].number \in Nat
    BY <1>0, <1>2, <2>1 DEF Replaced, Connectors
  <2>. QED BY <1>0, <2>2
<1>3. ASSUME NEW x \in Source, EnrollSourceConnector(x) \/ Drift(x)
      PROVE  UNCHANGED <<evidence, earlier, agent, call>>
  BY <1>2, <1>3 DEF EnrollSourceConnector, Drift, Origin, agents, tables
<1>4. ASSUME NEW o \in Origin, Expire(o) \/ SubmitCatalogue(o) \/ SubmitSourceInventory(o)
      PROVE  FALSE
  BY <1>0, <1>4, AcceptedMoves DEF Expire
<1>5. ASSUME NEW o \in Origin, Assignment(o)
      PROVE  /\ UNCHANGED <<evidence, earlier, call>>
             /\ o = s \/ UNCHANGED agent[s]
  <2>1. PICK m \in AssignmentOf(o) :
          LET type == IF row[m].status \in Inventories THEN "inventory" ELSE "catalogue"
              goal == IF type = "inventory" THEN "DISCOVERING" ELSE "INVENTORY_DISCOVERING" IN
          /\ IF row[m].status = goal THEN UNCHANGED <<row, versions, earlier>>
                                     ELSE Saved(m, Reported(row[m], goal))
          /\ agent' = [agent EXCEPT ![o] = [type |-> type, version |-> row'[m].version]]
    BY <1>5 DEF Assignment
  <2>2. m \in Migration
    BY <1>5, <2>1, AssignedAreMigrations
  <2>3. \A goal : ~Saved(m, Reported(row[m], goal))
    BY <1>0, <2>2, SavedMoves
  <2>4. UNCHANGED earlier
    BY <2>1, <2>3
  <2>5. o = s \/ UNCHANGED agent[s]
    BY <1>0, <2>1 DEF Posts
  <2>. QED BY <1>5, <2>4, <2>5 DEF Assignment
<1>6. ASSUME NEW o \in Origin, Lose(o)
      PROVE  /\ UNCHANGED <<evidence, earlier, call>>
             /\ UNCHANGED agent[s] \/ (o = s /\ ~connector[s].live /\ agent'[s] = Idle)
  <2>1. ~connector[o].live
    BY <1>0, <1>6 DEF Lose
  <2>2. agent' = [agent EXCEPT ![o] = Idle]
    BY <1>6 DEF Lose
  <2>. QED BY <1>0, <1>6, <2>1, <2>2 DEF Lose, tables, Posts
<1>7. ASSUME NEW o \in Origin, Refused(o)
      PROVE  /\ UNCHANGED <<evidence, earlier, agent>>
             /\ \/ UNCHANGED call[s]
                \/ o = s /\ call'[s] = NoCall /\ \A m \in call[s].for : ~Accepted(m, call[s])
  <2>1. \A m \in call[o].for : ~Accepted(m, call[o])
    BY <1>0, <1>7 DEF Refused
  <2>2. call' = [call EXCEPT ![o] = NoCall]
    BY <1>7 DEF Refused, Ended
  <2>. QED BY <1>0, <1>7, <2>1, <2>2 DEF Refused, tables, Connectors
<1>8. ASSUME NEW o \in Origin, NEW x \in Source, Report(o, x)
      PROVE  /\ UNCHANGED <<evidence, earlier>>
             /\ \/ UNCHANGED <<agent[s], call[s]>>
                \/ Report(s, s) /\ agent'[s] = Idle
  <2>1. agent' = [agent EXCEPT ![o] = Idle]
    BY <1>0, <1>8 DEF Report
  <2>2. \E r : call' = [call EXCEPT ![o] = r]
    BY <1>8 DEF Report
  <2>3. UNCHANGED <<evidence, earlier>>
    BY <1>8 DEF Report, tables
  <2>4. CASE o = s
    <3>1. x = s
      BY <1>8, <2>4 DEF Report
    <3>2. agent'[s] = Idle
      BY <1>0, <2>1, <2>4 DEF Posts
    <3>. QED BY <1>8, <2>3, <2>4, <3>1, <3>2
  <2>5. CASE o # s
    BY <1>0, <2>1, <2>2, <2>3, <2>5 DEF Posts, Connectors
  <2>. QED BY <2>4, <2>5
<1>9. ASSUME NEW m \in Migration,
             \/ \E c \in Requested[m] : Create(m, c) \/ Update(m, c)
             \/ \E u \in User, a \in Action : Change(m, u, a) \/ ChangeWithToken(m, u, a)
             \/ RefreshEvidence(m)
             \/ \E t \in Target : SelectTarget(m, t)
             \/ \E k \in 1 .. Len(evidence[m]), b \in BOOLEAN : SavePlanningDraft(m, k, b)
      PROVE  FALSE
  BY <1>0, <1>9, UsersMove
<1>10. CASE \E m \in Migration :
              \/ \E c \in Requested[m] : Create(m, c) \/ Update(m, c)
              \/ \E u \in User, a \in Action : Change(m, u, a) \/ ChangeWithToken(m, u, a)
              \/ RefreshEvidence(m)
              \/ \E t \in Target : SelectTarget(m, t)
              \/ \E k \in 1 .. Len(evidence[m]), b \in BOOLEAN : SavePlanningDraft(m, k, b)
  BY <1>9, <1>10
<1>11. CASE \E x \in Source : EnrollSourceConnector(x) \/ Drift(x)
  BY <1>3, <1>11
<1>12. CASE \E o \in Origin : \/ Assignment(o) \/ Lose(o) \/ Handle(o) \/ Expire(o)
                              \/ \E x \in Source : Report(o, x)
  BY <1>4, <1>5, <1>6, <1>7, <1>8, <1>12 DEF Handle
<1>. QED BY <1>1, <1>10, <1>11, <1>12 DEF SteadyStep, Next

\* A report that is being handled, and has to be accepted.
Heard(s) == call[s] # NoCall /\ \E n \in call[s].for : Accepted(n, call[s])

\* An assignment on which the report will have to be.
Chosen(s) == SourceMigration(s, {Discovers(agent[s].type)})
Fits(s, n) ==
  Accepted(n, [type |-> agent[s].type, version |-> agent[s].version, digest |-> digest[s]])
Promising(s) == agent[s] # Idle /\ \E n \in Chosen(s) : Fits(s, n)

\* m waits for s, with hope.
Stuck(m, s) == ~GotOn(m) /\ row[m].config.source = s

LEMMA HeardStays ==
  ASSUME SteadyStep, NEW s \in Source, Heard(s)
  PROVE  Heard(s)' /\ ~Handle(s)
<1>1. TypeInv /\ UNCHANGED <<row, evidence, connector, digest, faults>>
  BY SteadyRows, SteadyMoves DEF SteadyStep
<1>2. UNCHANGED call[s]
  <2>1. ~Report(s, s)
    BY DEF Heard, Report
  <2>. QED BY <2>1, SteadyMoves DEF Heard
<1>3. Heard(s)'
  BY <1>1, <1>2 DEF Heard, Accepted
<1>4. ~Refused(s)
  <2>1. faults \in Nat
    BY <1>1, MigrationAssumption DEF TypeInv, Posts
  <2>. QED BY <1>1, <2>1 DEF Refused, Heard
<1>5. ~SubmitCatalogue(s) /\ ~SubmitSourceInventory(s)
  BY <1>1, AcceptedMoves DEF Origin
<1>. QED BY <1>3, <1>4, <1>5 DEF Handle

LEMMA PromiseIsHeard ==
  ASSUME SteadyStep, NEW s \in Source, Promising(s), connector[s].live
  PROVE  /\ Promising(s)' \/ Heard(s)'
         /\ Report(s, s) => Heard(s)'
<1>1. TypeInv /\ UNCHANGED <<row, evidence, earlier, connector, digest, faults>>
  BY SteadyRows, SteadyMoves DEF SteadyStep
<1>2. ASSUME Report(s, s)  PROVE Heard(s)'
  <2>. DEFINE waiting == SourceMigration(s, {Discovers(agent[s].type)})
              report == [for |-> waiting, by |-> connector[s], type |-> agent[s].type,
                         version |-> agent[s].version, digest |-> digest[s]]
  <2>1. call' = [call EXCEPT ![s] = report]
    BY <1>2 DEF Report
  <2>2. call'[s] = report
    BY <1>1, <2>1 DEF TypeInv, MigrationInv, Connectors, Origin
  <2>3. report # NoCall
    <3>1. agent[s] \in Assigned
      BY <1>1 DEF Promising, TypeInv, Posts, Origin
    <3>2. waiting # {}
      BY DEF Promising, Chosen
    <3>. QED BY <3>2 DEF NoCall
  <2>4. PICK n \in waiting : Fits(s, n)
    BY DEF Promising, Chosen
  <2>5. Accepted(n, report)
    BY <2>4 DEF Accepted, Fits
  <2>6. n \in report.for
    BY <2>4
  <2>. HIDE DEF report
  <2>. QED BY <1>1, <2>2, <2>3, <2>5, <2>6 DEF Heard, Accepted
<1>3. ASSUME UNCHANGED agent[s]  PROVE Promising(s)'
  <2>1. Chosen(s)' = Chosen(s)
    BY <1>1, <1>3 DEF Chosen, SourceMigration, Waits
  <2>2. PICK n \in Chosen(s) : Fits(s, n)
    BY DEF Promising
  <2>3. Fits(s, n)'
    BY <1>1, <1>3, <2>2 DEF Fits, Accepted
  <2>. QED BY <1>3, <2>1, <2>2, <2>3 DEF Promising
<1>4. ~Assignment(s)
  BY DEF Promising, Assignment
<1>. QED BY <1>2, <1>3, <1>4, SteadyMoves

\* What the agent is given is a discovery that is under way, of the migration that
\* was updated first: it is the one the report will be for.
LEMMA AssignedIsPromising ==
  ASSUME SteadyStep, NEW s \in Source, NEW m \in Migration, Stuck(m, s), Assignment(s)
  PROVE  Promising(s)'
<1>1. TypeInv /\ UNCHANGED <<row, evidence, earlier, connector, digest, faults>>
  BY SteadyRows, SteadyMoves DEF SteadyStep
<1>. DEFINE type(n) == IF row[n].status \in Inventories THEN "inventory" ELSE "catalogue"
<1>2. PICK n \in SourceMigration(s, {"DRAFT"} \cup Catalogues \cup Inventories) :
        /\ row[n].status = Discovers(type(n))
        /\ agent' = [agent EXCEPT ![s] = [type |-> type(n), version |-> row[n].version]]
  <2>1. PICK n \in AssignmentOf(s) :
          /\ row[n].status # Discovers(type(n)) => Saved(n, Reported(row[n], Discovers(type(n))))
          /\ agent' = [agent EXCEPT ![s] = [type |-> type(n), version |-> row'[n].version]]
    BY DEF Assignment, Discovers
  <2>2. n \in Migration
    BY AssignedAreMigrations DEF Origin
  <2>3. ~Saved(n, Reported(row[n], Discovers(type(n))))
    BY <1>1, <2>2, SavedMoves DEF TypeInv, MigrationInv
  <2>. QED BY <1>1, <2>1, <2>3 DEF AssignmentOf
<1>. HIDE DEF type
<1>3. agent'[s] = [type |-> type(n), version |-> row[n].version]
  BY <1>1, <1>2 DEF TypeInv, Posts, Origin
<1>4. type(n) \in {"catalogue", "inventory"}
  BY DEF type
<1>5. n \in Migration /\ Waits(s, {Discovers(type(n))}, n)
  BY <1>2 DEF SourceMigration, Waits
<1>6. \A l \in Migration : Waits(s, {Discovers(type(n))}, l)
        => Waits(s, {"DRAFT"} \cup Catalogues \cup Inventories, l)
  BY <1>4 DEF Waits, Discovers, Catalogues, Inventories
<1>7. n \in SourceMigration(s, {Discovers(type(n))})
  BY <1>2, <1>5, <1>6 DEF SourceMigration
<1>8. type(n) = "inventory" => TargetResolved(row[n].config)
                                /\ \A k \in DOMAIN evidence[n] : evidence[n][k].digest # digest[s]
  <2>. SUFFICES ASSUME type(n) = "inventory"
                PROVE  TargetResolved(row[n].config)
                       /\ \A k \in DOMAIN evidence[n] : evidence[n][k].digest # digest[s]
    OBVIOUS
  <2>1. row[n].status = "DISCOVERING" /\ row[n].config.source = s
    BY <1>2, <1>5 DEF Discovers, Waits
  <2>2. ~Hopeless(n) /\ s # NoSource
    BY <1>5, <2>1, MigrationAssumption DEF Stuck, GotOn
  <2>. QED BY <2>1, <2>2 DEF Hopeless
<1>9. Fits(s, n)'
  BY <1>1, <1>2, <1>3, <1>8 DEF Fits, Accepted
<1>10. agent'[s] # Idle
  BY <1>3, <1>4 DEF Idle
<1>11. n \in Chosen(s)'
  BY <1>1, <1>3, <1>7 DEF Chosen, SourceMigration, Waits
<1>. QED BY <1>9, <1>10, <1>11 DEF Promising

\* The connector of a source comes back to where it can be given a migration.
LEMMA SteadyAgent ==
  ASSUME SteadyStep, NEW s \in Source
  PROVE  /\ agent[s] = Idle => agent'[s] = Idle \/ <<Assignment(s)>>_vars
         /\ call[s] = NoCall => call'[s] = NoCall \/ (agent[s] # Idle /\ agent'[s] = Idle)
         /\ Report(s, s) => agent'[s] = Idle
         /\ <<Handle(s)>>_vars => call'[s] = NoCall
<1>1. TypeInv /\ UNCHANGED <<row, evidence, earlier, connector, digest, faults>> /\ s \in Origin
  BY SteadyRows, SteadyMoves DEF SteadyStep, Origin
<1>2. agent[s] = Idle => agent'[s] = Idle \/ <<Assignment(s)>>_vars
  <2>. SUFFICES ASSUME agent[s] = Idle, agent'[s] # Idle  PROVE <<Assignment(s)>>_vars
    OBVIOUS
  <2>1. Assignment(s)
    BY SteadyMoves
  <2>. QED BY <2>1 DEF vars
<1>3. call[s] = NoCall => call'[s] = NoCall \/ (agent[s] # Idle /\ agent'[s] = Idle)
  BY SteadyMoves DEF Report
<1>4. Report(s, s) => agent'[s] = Idle
  BY <1>1 DEF Report, TypeInv, Posts
<1>5. Handle(s) => call'[s] = NoCall
  BY <1>1 DEF Handle, SubmitCatalogue, SubmitSourceInventory, Refused, Ended, TypeInv,
              MigrationInv, Connectors
<1>. QED BY <1>2, <1>3, <1>4, <1>5

\* What a suffix of a behaviour knows of its steps.
Watched == []TypeInv /\ []MigrationGuardsSuffice /\ [][Next]_vars

Steady == [][UNCHANGED <<row, connector, digest, faults>>]_vars

LEMMA NobodyStaysStuck ==
  ASSUME NEW s \in Source, NEW m \in Migration
  PROVE  Watched /\ PollFairness(s) => [](Steady => ~[]Stuck(m, s))
<1>. DEFINE Free == call[s] = NoCall
            Rests == agent[s] = Idle
            Live == connector[s].live
<1>1. SteadyStep => (Heard(s) => Heard(s)' /\ ~Handle(s))
  BY HeardStays
<1>2. SteadyStep => (Promising(s) /\ Live => Promising(s)' \/ Heard(s)')
  BY PromiseIsHeard
<1>3. SteadyStep => (Promising(s) /\ Live /\ Report(s, s) => Heard(s)')
  BY PromiseIsHeard
<1>4. SteadyStep => (Stuck(m, s) /\ Assignment(s) => Promising(s)')
  BY AssignedIsPromising
<1>5. SteadyStep => (Rests => Rests' \/ <<Assignment(s)>>_vars)
  BY SteadyAgent
<1>6. SteadyStep => (Free => Free' \/ (~Rests /\ Rests'))
  BY SteadyAgent
<1>7. SteadyStep => (Report(s, s) => Rests') /\ (<<Handle(s)>>_vars => Free')
  BY SteadyAgent
<1>8. Stuck(m, s) => Live
  BY DEF Stuck, GotOn
<1>9. (Heard(s) => ~Free) /\ (Promising(s) => ~Rests)
  BY DEF Heard, Promising
<1>10. MigrationGuardsSuffice => (~Free => ENABLED <<Handle(s)>>_vars)
  BY DEF MigrationGuardsSuffice
<1>11. MigrationGuardsSuffice => (Live /\ Free /\ ~Rests => ENABLED <<Report(s, s)>>_vars)
  BY DEF MigrationGuardsSuffice
<1>12. MigrationGuardsSuffice =>
         (Live /\ Free /\ Rests /\ Stuck(m, s) => ENABLED <<Assignment(s)>>_vars)
  <2>1. Stuck(m, s) => row[m].config.source = s /\ Awaits(m)
    BY DEF Stuck, GotOn
  <2>. QED BY <2>1 DEF MigrationGuardsSuffice
<1>. HIDE DEF Free, Rests, Live
<1>13. Watched /\ PollFairness(s) => [](Steady => []~Heard(s))
  BY <1>1, <1>9, <1>10, PTL DEF Watched, Steady, PollFairness, SteadyStep
<1>14. Watched /\ PollFairness(s) => [](Steady /\ []Stuck(m, s) => []~Promising(s))
  BY <1>2, <1>3, <1>6, <1>7, <1>8, <1>9, <1>10, <1>11, <1>13, PTL
     DEF Watched, Steady, PollFairness, SteadyStep
<1>15. Watched /\ PollFairness(s) => [](Steady /\ []Stuck(m, s) => <>[](Free /\ Rests))
  BY <1>4, <1>5, <1>6, <1>7, <1>8, <1>10, <1>11, <1>14, PTL
     DEF Watched, Steady, PollFairness, SteadyStep
<1>. QED BY <1>4, <1>8, <1>12, <1>14, <1>15, PTL DEF Watched, Steady, PollFairness, SteadyStep

LEMMA StuckStays ==
  ASSUME SteadyStep, NEW s \in Source, NEW m \in Migration, Stuck(m, s), ~GotOn(m)'
  PROVE  Stuck(m, s)'
BY SteadyRows DEF Stuck

LEMMA WaitsForSome ==
  ASSUME TypeInv, NEW m \in Migration, ~GotOn(m)
  PROVE  \E s \in Source : Stuck(m, s)
<1>1. row[m].config \in Config
  BY DEF TypeInv, MigrationInv, Tables, MigrationRow
<1>2. row[m].config.source \in Source
  BY <1>1 DEF Config, GotOn, Awaits
<1>. QED BY <1>2 DEF Stuck

LEMMA EachProceeds ==
  ASSUME NEW m \in Migration
  PROVE  Watched /\ Fairness /\ ChangesCease => ProceedsAtLast(m)
<1>1. Watched /\ Fairness => \A s \in Source : [](Steady => [](Stuck(m, s) => <>GotOn(m)))
  <2>. SUFFICES ASSUME NEW s \in Source
                PROVE  Watched /\ PollFairness(s) => [](Steady => [](Stuck(m, s) => <>GotOn(m)))
    BY DEF Fairness
  <2>1. SteadyStep => (Stuck(m, s) => Stuck(m, s)' \/ GotOn(m)')
    BY StuckStays
  <2>. QED BY <2>1, NobodyStaysStuck, PTL DEF Watched, Steady, PollFairness, SteadyStep
<1>2. (\A s \in Source : [](Steady => [](Stuck(m, s) => <>GotOn(m))))
      => [](\A s \in Source : (Steady => [](Stuck(m, s) => <>GotOn(m))))
  OBVIOUS
<1>3. (\A s \in Source : (Steady => [](Stuck(m, s) => <>GotOn(m))))
      => (Steady => (\A s \in Source : [](Stuck(m, s) => <>GotOn(m))))
  OBVIOUS
<1>4. (\A s \in Source : [](Stuck(m, s) => <>GotOn(m)))
      => [](\A s \in Source : (Stuck(m, s) => <>GotOn(m)))
  OBVIOUS
<1>5. (\A s \in Source : (Stuck(m, s) => <>GotOn(m)))
      => ((\E s \in Source : Stuck(m, s)) => <>GotOn(m))
  OBVIOUS
<1>6. TypeInv /\ ~GotOn(m) => \E s \in Source : Stuck(m, s)
  BY WaitsForSome
<1>. QED
  BY <1>1, <1>2, <1>3, <1>4, <1>5, <1>6, PTL DEF Watched, Steady, ChangesCease, ProceedsAtLast

\* Every discovery gets on, of whichever migration of a source the connector works
\* first, unless its connector is not valid or its reports can only be refused.  What
\* it needs is that nothing but its own guard keeps a step from being taken, and that
\* calls of users, faults and the changes they bring about come to an end
\* (source_assignment, submit_catalogue, submit_source_inventory).
THEOREM DiscoveriesGetOn ==
  FairSpec /\ []MigrationGuardsSuffice /\ ChangesCease => DiscoveriesProceed
<1>1. Spec => []TypeInv
  BY TypeInit, TypeNext, PTL DEF Spec
<1>2. FairSpec /\ []MigrationGuardsSuffice => Watched /\ Fairness
  BY <1>1, PTL DEF FairSpec, Spec, Watched
<1>. QED BY <1>2, EachProceeds DEF DiscoveriesProceed

=============================================================================
