------------------------------ MODULE HomeProofs ------------------------------
(* What the initialisation of a home, the markets of skills and the cleanup   *)
(* guarantee, for any processes, columns, markets, skills, versions and runs. *)
EXTENDS InitLock, StorageCleanup, TLAPS

LOCAL INSTANCE SequencesExt

-----------------------------------------------------------------------------
(* Skills of markets: what a registration writes.                            *)

LEMMA WithExtensionTyped ==
    ASSUME NEW t \in Tables, NEW s \in Skills, NEW status \in Statuses, NEW version \in Versions \cup {Broken},
           NEW from \in Markets
    PROVE  WithExtension(t, s, status, version, from) \in Tables
           /\ WithExtension(t, s, status, version, from).skill = t.skill
<1> DEFINE ext == [t.ext EXCEPT ![s] = [status |-> status, version |-> version]]
           row == IF version \in Versions /\ t.snapshot[s][version] = NoMarket /\ status # "quarantined"
                  THEN [t.snapshot[s] EXCEPT ![version] = from] ELSE t.snapshot[s]
           snapshot == [t.snapshot EXCEPT ![s] = row]
<1>1. /\ t.skill \in [Skills -> SkillRow \cup {NoSkill}]
      /\ t.ext \in [Skills -> [status : Statuses, version : Versions \cup {Broken}] \cup {NoSkill}]
      /\ t.snapshot \in [Skills -> [Versions -> MarketOrNone]]
  BY DEF Tables
<1>2. ext \in [Skills -> [status : Statuses, version : Versions \cup {Broken}] \cup {NoSkill}]
  BY <1>1
<1>3. row \in [Versions -> MarketOrNone]
  BY <1>1 DEF MarketOrNone
<1>4. snapshot \in [Skills -> [Versions -> MarketOrNone]]
  <2> HIDE DEF row
  <2> QED
    BY <1>1, <1>3
<1>5. WithExtension(t, s, status, version, from) = [t EXCEPT !.ext = ext, !.snapshot = snapshot]
  BY <1>1 DEF WithExtension, Tables
<1> HIDE DEF ext, snapshot, row
<1> QED
  BY <1>2, <1>4, <1>5 DEF Tables

LEMMA SkillsPut ==
    ASSUME NEW t \in Tables, NEW skill \in [Skills -> SkillRow \cup {NoSkill}]
    PROVE  [t EXCEPT !.skill = skill] \in Tables /\ [t EXCEPT !.skill = skill].skill = skill
BY DEF Tables

UpsertedRow(t, s, version, from) ==
    [there |-> TRUE, on |-> IF t.skill[s].there THEN t.skill[s].on ELSE TRUE, version |-> version, from |-> from]

LEMMA RowTyped ==
    ASSUME NEW t \in Tables, NEW s \in Skills
    PROVE  /\ t.skill \in [Skills -> SkillRow \cup {NoSkill}]
           /\ t.skill[s].there \in BOOLEAN
           /\ t.skill[s].there => t.skill[s] \in SkillRow
           /\ ~t.skill[s].there => t.skill[s] = NoSkill
<1>1. t.skill \in [Skills -> SkillRow \cup {NoSkill}]
  BY DEF Tables
<1>2. CASE t.skill[s] \in SkillRow
  BY <1>1, <1>2 DEF SkillRow
<1>3. CASE t.skill[s] = NoSkill
  BY <1>1, <1>3 DEF NoSkill
<1> QED
  BY <1>1, <1>2, <1>3

LEMMA UpsertedTyped ==
    ASSUME NEW t \in Tables, NEW s \in Skills, NEW version \in Versions, NEW from \in Markets
    PROVE  /\ Upserted(t, s, version, from) \in Tables
           /\ Upserted(t, s, version, from).skill = [t.skill EXCEPT ![s] = UpsertedRow(t, s, version, from)]
<1> DEFINE row == UpsertedRow(t, s, version, from)
           skill == [t.skill EXCEPT ![s] = row]
           put == [t EXCEPT !.skill = skill]
           on == IF t.skill[s].there THEN t.skill[s].on ELSE TRUE
           status == IF on THEN "enabled" ELSE "disabled"
<1>1. row \in SkillRow
  BY RowTyped DEF UpsertedRow, SkillRow
<1>2. skill \in [Skills -> SkillRow \cup {NoSkill}]
  <2> HIDE DEF row
  <2> QED
    BY <1>1, RowTyped
<1>3. Upserted(t, s, version, from) = WithExtension(put, s, status, version, from)
  BY DEF Upserted, UpsertedRow, Tables
<1>4. status \in Statuses
  BY DEF Statuses
<1>5. put \in Tables /\ put.skill = skill
  <2> HIDE DEF skill
  <2> QED
    BY <1>2, SkillsPut
<1> HIDE DEF put, status
<1>6. WithExtension(put, s, status, version, from) \in Tables /\ WithExtension(put, s, status, version, from).skill = skill
  BY <1>4, <1>5, WithExtensionTyped
<1> QED
  BY <1>3, <1>6

QuarantinedRow(t, s) == IF t.skill[s].there THEN [t.skill[s] EXCEPT !.on = FALSE] ELSE t.skill[s]

LEMMA QuarantinedTyped ==
    ASSUME NEW t \in Tables, NEW s \in Skills, NEW from \in Markets
    PROVE  /\ Quarantined(t, s, from) \in Tables
           /\ Quarantined(t, s, from).skill = [t.skill EXCEPT ![s] = QuarantinedRow(t, s)]
<1> DEFINE row == QuarantinedRow(t, s)
           skill == [t.skill EXCEPT ![s] = row]
           put == [t EXCEPT !.skill = skill]
<1>1. row \in SkillRow \cup {NoSkill}
  BY RowTyped DEF QuarantinedRow, SkillRow
<1>2. skill \in [Skills -> SkillRow \cup {NoSkill}]
  <2> HIDE DEF row
  <2> QED
    BY <1>1, RowTyped
<1>3. Quarantined(t, s, from) = WithExtension(put, s, "quarantined", Broken, from)
  BY RowTyped DEF Quarantined, QuarantinedRow, Tables
<1>4. "quarantined" \in Statuses
  BY DEF Statuses
<1>5. put \in Tables /\ put.skill = skill
  <2> HIDE DEF skill
  <2> QED
    BY <1>2, SkillsPut
<1> HIDE DEF put
<1>6. /\ WithExtension(put, s, "quarantined", Broken, from) \in Tables
      /\ WithExtension(put, s, "quarantined", Broken, from).skill = skill
  BY <1>4, <1>5, WithExtensionTyped
<1> QED
  BY <1>3, <1>6

LEMMA SwitchedTyped ==
    ASSUME NEW t \in Tables, NEW s \in Skills, NEW on \in BOOLEAN, t.skill[s].there
    PROVE  /\ Switched(t, s, on) \in Tables
           /\ Switched(t, s, on).skill = [t.skill EXCEPT ![s] = [t.skill[s] EXCEPT !.on = on]]
<1> DEFINE row == [t.skill[s] EXCEPT !.on = on]
           skill == [t.skill EXCEPT ![s] = row]
           record == IF t.ext[s] = NoSkill THEN t.ext[s]
                     ELSE [t.ext[s] EXCEPT !.status = IF on THEN "enabled" ELSE "disabled"]
           ext == [t.ext EXCEPT ![s] = record]
<1>1. row \in SkillRow
  <2>1. t.skill[s] \in SkillRow
    BY RowTyped
  <2> QED
    BY <2>1 DEF SkillRow
<1>2. skill \in [Skills -> SkillRow \cup {NoSkill}]
  <2> HIDE DEF row
  <2> QED
    BY <1>1, RowTyped
<1>3. t.ext \in [Skills -> [status : Statuses, version : Versions \cup {Broken}] \cup {NoSkill}]
  BY DEF Tables
<1>4. record \in [status : Statuses, version : Versions \cup {Broken}] \cup {NoSkill}
  BY <1>3 DEF Statuses
<1>5. ext \in [Skills -> [status : Statuses, version : Versions \cup {Broken}] \cup {NoSkill}]
  <2> HIDE DEF record
  <2> QED
    BY <1>3, <1>4
<1>6. Switched(t, s, on) = [t EXCEPT !.skill = skill, !.ext = ext]
  BY RowTyped, <1>3 DEF Switched, Tables
<1> HIDE DEF skill, ext
<1> QED
  BY <1>2, <1>5, <1>6 DEF Tables, skill

LEMMA ValidatedTyped ==
    ASSUME NEW t \in Tables
    PROVE  Validated(t) \in Tables /\ Validated(t).skill = t.skill
<1> DEFINE record(s) ==
             IF ~t.skill[s].there \/ t.ext[s] = NoSkill THEN t.ext[s]
             ELSE IF ~BundleLoads(t, s) THEN [t.ext[s] EXCEPT !.status = "quarantined"]
             ELSE IF t.ext[s].status # "quarantined" THEN t.ext[s]
             ELSE [t.ext[s] EXCEPT !.status = IF t.skill[s].on THEN "enabled" ELSE "disabled"]
           ext == [s \in Skills |-> record(s)]
<1>1. t.ext \in [Skills -> [status : Statuses, version : Versions \cup {Broken}] \cup {NoSkill}]
  BY DEF Tables
<1>2. ASSUME NEW s \in Skills
      PROVE  record(s) \in [status : Statuses, version : Versions \cup {Broken}] \cup {NoSkill}
  BY <1>1 DEF Statuses
<1>3. ext \in [Skills -> [status : Statuses, version : Versions \cup {Broken}] \cup {NoSkill}]
  <2> HIDE DEF record
  <2> QED
    BY <1>2
<1>4. Validated(t) = [t EXCEPT !.ext = ext]
  BY DEF Validated, Tables
<1> HIDE DEF ext
<1> QED
  BY <1>3, <1>4 DEF Tables

LEMMA RecordOfTyped ==
    ASSUME NEW t \in Tables, NEW s \in Skills, NEW v \in Versions
    PROVE  RecordOf(t, s, v) \in Tables /\ RecordOf(t, s, v).skill = t.skill
<1> DEFINE ext == [t.ext EXCEPT ![s] = [status |-> "enabled", version |-> v]]
<1>1. ext \in [Skills -> [status : Statuses, version : Versions \cup {Broken}] \cup {NoSkill}]
  BY DEF Tables, Statuses
<1>2. RecordOf(t, s, v) = [t EXCEPT !.ext = ext]
  BY DEF RecordOf, Tables
<1> HIDE DEF ext
<1> QED
  BY <1>1, <1>2 DEF Tables

-----------------------------------------------------------------------------
(* What holds between the steps of a refresh and of a rollback.              *)

RefreshJobs == [kind : {"refresh"}, todo : SUBSET Markets, market : MarketOrNone,
                stage : {"next", "copy", "register"}, settled : SUBSET Markets, install : Skills \cup {NoInstall}]
RollbackJobs == [kind : {"rollback"}, skill : Skills, version : Versions, stage : {"copy", "next"}]

\* A row is of the skill its market offers, and outside the open markets it has the version
\* that is there, or what is there does not load and the skill is off.
RowsFit(t, open, there) ==
    \A s \in Skills : t.skill[s].there =>
      LET row == t.skill[s]
      IN /\ SkillOf[row.from] = s
         /\ row.from \notin open => there[row.from] = row.version \/ (there[row.from] \notin Versions /\ ~row.on)

IdleFits == job = NoJob => tx = db

\* The row of a skill to install is from a market that this refresh is done with.
InstallFits(t, j, open, there) ==
    LET row == t.skill[j.install]
    IN row.there => /\ row.from \in open \ j.todo
                    /\ j.stage # "next" => row.from # j.market
                    /\ row.from \in j.settled => there[row.from] = row.version

\* The markets that a refresh has registered are as it registered them, though the rows are
\* not committed; a skill to install has no other row than one from this refresh.
RefreshFits ==
    job.kind = "refresh" =>
      /\ job.settled \subseteq unsettled \ job.todo
      /\ job.stage # "next" => job.market \in Markets \cap unsettled /\ job.market \notin job.settled \cup job.todo
      /\ RowsFit(tx, unsettled \ job.settled, source)
      /\ job.install # NoInstall => ~db.skill[job.install].there /\ InstallFits(tx, job, unsettled, source)

RollbackFits ==
    job.kind = "rollback" =>
      LET row == db.skill[job.skill]
      IN /\ row.there /\ row.from \in unsettled /\ tx.skill = db.skill
         /\ job.stage = "next" => source[row.from] \in {Gone, job.version}

Fits == RowsFit(db, unsettled, source) /\ IdleFits /\ RefreshFits /\ RollbackFits

SkillsInv == SkillsTypeOK /\ Fits

LEMMA JobKinds ==
    ASSUME SkillsTypeOK
    PROVE  /\ job = NoJob \/ job \in RefreshJobs \/ job \in RollbackJobs
           /\ job.kind = "refresh" => job \in RefreshJobs
           /\ job.kind = "rollback" => job \in RollbackJobs
           /\ NoJob.kind = "none"
BY DEF SkillsTypeOK, Jobs, NoJob, RefreshJobs, RollbackJobs

LEMMA JobsInclude == RefreshJobs \subseteq Jobs /\ RollbackJobs \subseteq Jobs /\ NoJob \in Jobs
BY DEF Jobs, RefreshJobs, RollbackJobs

LEMMA FitStays ==
    ASSUME NEW t \in Tables, NEW open, NEW there, NEW open2, NEW there2, RowsFit(t, open, there),
           open \subseteq open2, \A m \in Markets : m \notin open2 => there2[m] = there[m]
    PROVE  RowsFit(t, open2, there2)
<1> SUFFICES ASSUME NEW s \in Skills, t.skill[s].there
             PROVE  LET row == t.skill[s]
                    IN /\ SkillOf[row.from] = s
                       /\ row.from \notin open2 =>
                            there2[row.from] = row.version \/ (there2[row.from] \notin Versions /\ ~row.on)
  BY DEF RowsFit
<1>1. t.skill[s].from \in Markets
  BY RowTyped DEF SkillRow
<1> QED
  BY <1>1 DEF RowsFit

LEMMA FitsSame ==
    ASSUME Fits, UNCHANGED <<source, db, tx, job, unsettled>>
    PROVE  Fits'
BY DEF Fits, RowsFit, IdleFits, RefreshFits, InstallFits, RollbackFits

LEMMA FitsIdle ==
    ASSUME job' = NoJob, tx' = db', RowsFit(db', unsettled', source')
    PROVE  Fits'
BY DEF Fits, RowsFit, IdleFits, RefreshFits, RollbackFits, NoJob

LEMMA SkillsInvInit == SkillsInit => SkillsInv
<1> SUFFICES ASSUME SkillsInit PROVE SkillsInv
  OBVIOUS
<1>1. NoTables \in Tables
  BY DEF NoTables, Tables, MarketOrNone
<1>2. origin \in [Markets -> Bundles] /\ source \in [Markets -> Bundles]
  BY SkillAssumption DEF SkillsInit, Bundles, Versions
<1>3. SkillsTypeOK
  BY <1>1, <1>2, JobsInclude DEF SkillsInit, SkillsTypeOK
<1>4. RowsFit(db, unsettled, source)
  BY DEF SkillsInit, NoTables, NoSkill, RowsFit
<1>5. Fits
  BY <1>4 DEF SkillsInit, Fits, IdleFits, RefreshFits, RollbackFits, NoJob
<1> QED
  BY <1>3, <1>5 DEF SkillsInv

LEMMA MarketStepsKeep ==
    ASSUME SkillsInv, NEW m \in Markets,
           AddMarket(m) \/ RemoveMarket(m) \/ \E b \in Bundles : EditMarket(m, b)
    PROVE  SkillsInv'
<1>1. UNCHANGED <<source, db, tx, job, unsettled>>
  BY DEF AddMarket, RemoveMarket, EditMarket, skillFiles
<1>2. SkillsTypeOK'
  <2>1. marketOn' \in [Markets -> BOOLEAN] /\ origin' \in [Markets -> Bundles] /\ snapshots' = snapshots
        /\ edits' \in Nat /\ skillCrashes' = skillCrashes
    <3>1. CASE AddMarket(m) \/ RemoveMarket(m)
      BY <3>1 DEF SkillsInv, SkillsTypeOK, AddMarket, RemoveMarket, skillFiles, skillBounds
    <3>2. CASE \E b \in Bundles : EditMarket(m, b)
      BY <3>2 DEF SkillsInv, SkillsTypeOK, EditMarket, skillFiles
    <3> QED
      BY <3>1, <3>2
  <2> QED
    BY <1>1, <2>1 DEF SkillsInv, SkillsTypeOK
<1> QED
  BY <1>1, <1>2, FitsSame DEF SkillsInv

LEMMA SwitchKeeps ==
    ASSUME SkillsInv, NEW s \in Skills, NEW on \in BOOLEAN, SwitchSkill(s, on)
    PROVE  SkillsInv'
<1> DEFINE row == db.skill[s]
<1>1. /\ job = NoJob /\ row.there /\ db \in Tables
      /\ db' = Switched(db, s, on) /\ tx' = db'
      /\ unsettled' = IF on /\ ~BundleLoads(db, s) THEN unsettled \cup {row.from} ELSE unsettled
      /\ UNCHANGED <<marketOn, origin, source, snapshots, job, edits, skillCrashes>>
  BY DEF SkillsInv, SkillsTypeOK, SwitchSkill, CommitTables, SkillsIdle, skillFiles, skillBounds
<1>2. db' \in Tables /\ db'.skill = [db.skill EXCEPT ![s] = [row EXCEPT !.on = on]]
  BY <1>1, SwitchedTyped
<1>3. row \in SkillRow /\ row.from \in Markets /\ db.skill \in [Skills -> SkillRow \cup {NoSkill}]
  BY <1>1, RowTyped DEF SkillRow
<1>4. SkillsTypeOK'
  <2>1. unsettled' \subseteq Markets
    BY <1>1, <1>3 DEF SkillsInv, SkillsTypeOK
  <2> QED
    BY <1>1, <1>2, <2>1 DEF SkillsInv, SkillsTypeOK
<1>5. RowsFit(db', unsettled', source')
  <2> SUFFICES ASSUME NEW x \in Skills, db'.skill[x].there
               PROVE  /\ SkillOf[db'.skill[x].from] = x
                      /\ db'.skill[x].from \notin unsettled' =>
                           \/ source[db'.skill[x].from] = db'.skill[x].version
                           \/ source[db'.skill[x].from] \notin Versions /\ ~db'.skill[x].on
    BY <1>1 DEF RowsFit
  <2>1. CASE x # s
    <3>1. db'.skill[x] = db.skill[x]
      BY <1>2, <1>3, <2>1
    <3> QED
      BY <1>1, <3>1 DEF SkillsInv, Fits, RowsFit
  <2>2. CASE x = s
    <3>1. db'.skill[x].from = row.from /\ db'.skill[x].version = row.version /\ db'.skill[x].on = on
      <4>1. db'.skill[x] = [row EXCEPT !.on = on]
        BY <1>2, <1>3, <2>2
      <4> HIDE DEF row
      <4> QED
        BY <1>3, <4>1 DEF SkillRow
    <3>2. /\ SkillOf[row.from] = s
          /\ row.from \notin unsettled => source[row.from] = row.version \/ source[row.from] \notin Versions
      BY <1>1 DEF SkillsInv, Fits, RowsFit
    <3>3. row.from \notin unsettled' => row.from \notin unsettled /\ (on => source[row.from] \in Versions)
      BY <1>1 DEF BundleLoads
    <3> QED
      BY <2>2, <3>1, <3>2, <3>3
  <2> QED
    BY <2>1, <2>2
<1> QED
  BY <1>1, <1>4, <1>5, FitsIdle DEF SkillsInv

LEMMA ValidateKeeps ==
    ASSUME SkillsInv, ValidateSkills
    PROVE  SkillsInv'
<1>1. /\ job = NoJob /\ db \in Tables /\ db' = Validated(db) /\ tx' = db'
      /\ UNCHANGED <<marketOn, origin, source, snapshots, job, unsettled, edits, skillCrashes>>
  BY DEF SkillsInv, SkillsTypeOK, ValidateSkills, CommitTables, SkillsIdle, skillFiles, skillBounds
<1>2. db' \in Tables /\ db'.skill = db.skill
  BY <1>1, ValidatedTyped
<1>3. SkillsTypeOK'
  BY <1>1, <1>2 DEF SkillsInv, SkillsTypeOK
<1>4. RowsFit(db', unsettled', source')
  BY <1>1, <1>2 DEF SkillsInv, Fits, RowsFit
<1> QED
  BY <1>1, <1>3, <1>4, FitsIdle DEF SkillsInv

LEMMA StartRefreshKeeps ==
    ASSUME SkillsInv, NEW install \in Skills \cup {NoInstall}, StartRefresh(install)
    PROVE  SkillsInv'
<1>1. /\ job = NoJob /\ tx = db /\ (install # NoInstall => ~db.skill[install].there)
      /\ job' = [kind |-> "refresh", todo |-> {m \in Markets : marketOn[m]}, market |-> NoMarket,
                  stage |-> "next", settled |-> {}, install |-> install]
      /\ UNCHANGED <<marketOn, origin, source, snapshots, db, tx, unsettled, edits, skillCrashes>>
  BY DEF SkillsInv, Fits, IdleFits, StartRefresh, SkillsIdle, skillFiles, skillBounds
<1>2. job' \in RefreshJobs
  BY <1>1 DEF RefreshJobs, MarketOrNone
<1>3. SkillsTypeOK'
  BY <1>1, <1>2, JobsInclude DEF SkillsInv, SkillsTypeOK
<1>4. unsettled' \ job'.settled = unsettled
  BY <1>1
<1>5. RowsFit(db, unsettled, source)
  BY DEF SkillsInv, Fits
<1>6. RefreshFits'
  <2>1. job'.settled = {} /\ job'.stage = "next" /\ job'.install = install
    BY <1>1
  <2>2. UNCHANGED <<db, tx, source, unsettled>> /\ tx = db /\ (install # NoInstall => ~db.skill[install].there)
    BY <1>1
  <2>3. RowsFit(tx', unsettled' \ job'.settled, source')
    BY <1>4, <1>5, <2>2
  <2> QED
    BY <2>1, <2>2, <2>3 DEF RefreshFits, InstallFits
<1>7. Fits'
  BY <1>1, <1>5, <1>6 DEF Fits, IdleFits, RollbackFits, NoJob
<1> QED
  BY <1>3, <1>7 DEF SkillsInv

LEMMA RemoveSourceKeeps ==
    ASSUME SkillsInv, NEW m \in Markets, RemoveSource(m)
    PROVE  SkillsInv'
<1>1. /\ job \in RefreshJobs /\ job.kind = "refresh" /\ job.stage = "next" /\ m \in job.todo
      /\ job' = [job EXCEPT !.todo = job.todo \ {m}, !.market = m, !.stage = "copy"]
      /\ source' = [source EXCEPT ![m] = Gone] /\ unsettled' = unsettled \cup {m}
      /\ UNCHANGED <<marketOn, origin, snapshots, db, tx, edits, skillCrashes>>
  BY JobKinds DEF SkillsInv, RemoveSource, Refreshing, skillBounds
<1>2. /\ job' \in RefreshJobs /\ job'.kind = "refresh" /\ job'.stage = "copy" /\ job'.market = m
      /\ job'.todo = job.todo \ {m} /\ job'.settled = job.settled /\ job'.install = job.install
  BY <1>1 DEF RefreshJobs, MarketOrNone
<1>3. /\ source \in [Markets -> Bundles] /\ source' \in [Markets -> Bundles]
      /\ \A x \in Markets : x # m => source'[x] = source[x]
  BY <1>1 DEF SkillsInv, SkillsTypeOK, Bundles
<1>4. SkillsTypeOK'
  BY <1>1, <1>2, <1>3, JobsInclude DEF SkillsInv, SkillsTypeOK
<1>5. /\ job.settled \subseteq unsettled \ job.todo /\ RowsFit(tx, unsettled \ job.settled, source)
      /\ RowsFit(db, unsettled, source) /\ db \in Tables /\ tx \in Tables /\ m \notin job.settled
  BY <1>1 DEF SkillsInv, Fits, RefreshFits, SkillsTypeOK
<1>6. RowsFit(db, unsettled', source')
  <2>1. unsettled \subseteq unsettled' /\ \A x \in Markets : x \notin unsettled' => source'[x] = source[x]
    BY <1>1, <1>3
  <2> QED
    BY <1>5, <2>1, FitStays
<1>7. RowsFit(tx, unsettled' \ job.settled, source')
  <2>1. /\ unsettled \ job.settled \subseteq unsettled' \ job.settled
        /\ \A x \in Markets : x \notin unsettled' \ job.settled => source'[x] = source[x]
    BY <1>1, <1>3, <1>5
  <2> QED
    BY <1>5, <2>1, FitStays
<1>8. job.install # NoInstall => ~db.skill[job.install].there /\ InstallFits(tx, job', unsettled', source')
  <2>1. job.install # NoInstall => ~db.skill[job.install].there /\ InstallFits(tx, job, unsettled, source)
    BY <1>1 DEF SkillsInv, Fits, RefreshFits
  <2>2. job.settled \subseteq Markets /\ unsettled \subseteq unsettled'
    BY <1>1 DEF RefreshJobs
  <2>3. \A x \in job.settled : source'[x] = source[x]
    BY <1>3, <1>5, <2>2
  <2> QED
    BY <1>1, <1>2, <2>1, <2>2, <2>3 DEF InstallFits
<1>9. RefreshFits'
  <2>1. m \in Markets \cap unsettled' /\ m \notin job.settled \cup job'.todo
    BY <1>1, <1>2, <1>5
  <2>2. job.settled \subseteq unsettled' \ job'.todo
    BY <1>1, <1>2, <1>5
  <2> QED
    BY <1>1, <1>2, <1>7, <1>8, <2>1, <2>2 DEF RefreshFits
<1>10. Fits'
  BY <1>1, <1>2, <1>6, <1>9 DEF Fits, IdleFits, RollbackFits, NoJob
<1> QED
  BY <1>4, <1>10 DEF SkillsInv

\* What is rolled back leaves the committed rows, which fit what is there.
LEMMA RollingBackKeeps ==
    ASSUME SkillsInv, RolledBack, UNCHANGED db, RowsFit(db, unsettled', source'), source' \in [Markets -> Bundles],
           unsettled' \subseteq Markets, skillCrashes' \in Nat, UNCHANGED <<marketOn, origin, snapshots, edits>>
    PROVE  SkillsInv'
<1>1. SkillsTypeOK'
  BY JobsInclude DEF SkillsInv, SkillsTypeOK, RolledBack
<1> QED
  BY <1>1, FitsIdle DEF SkillsInv, RolledBack

LEMMA CopySourceKeeps ==
    ASSUME SkillsInv, CopySource
    PROVE  SkillsInv'
<1>1. /\ job \in RefreshJobs /\ job.kind = "refresh" /\ job.stage = "copy" /\ job.market \in Markets
      /\ job.market \in unsettled /\ job.market \notin job.settled \cup job.todo
      /\ UNCHANGED <<marketOn, origin, snapshots, db, unsettled, edits, skillCrashes>>
      /\ source \in [Markets -> Bundles] /\ db \in Tables /\ tx \in Tables
      /\ RowsFit(db, unsettled, source) /\ origin \in [Markets -> Bundles]
  BY JobKinds DEF SkillsInv, SkillsTypeOK, CopySource, Refreshing, skillBounds, Fits, RefreshFits
<1>2. CASE origin[job.market] = Gone
  <2>1. RolledBack /\ UNCHANGED source
    BY <1>2 DEF CopySource
  <2> QED
    BY <1>1, <2>1, RollingBackKeeps DEF SkillsInv, SkillsTypeOK
<1>3. CASE origin[job.market] # Gone
  <2>1. /\ source' = [source EXCEPT ![job.market] = origin[job.market]]
        /\ job' = [job EXCEPT !.stage = "register"] /\ UNCHANGED tx
    BY <1>3 DEF CopySource
  <2>2. /\ job' \in RefreshJobs /\ job'.kind = "refresh" /\ job'.stage = "register" /\ job'.market = job.market
        /\ job'.todo = job.todo /\ job'.settled = job.settled /\ job'.install = job.install
    BY <1>1, <2>1 DEF RefreshJobs
  <2>3. source' \in [Markets -> Bundles] /\ \A x \in Markets : x # job.market => source'[x] = source[x]
    BY <1>1, <2>1
  <2>4. SkillsTypeOK'
    BY <1>1, <2>1, <2>2, <2>3, JobsInclude DEF SkillsInv, SkillsTypeOK
  <2>5. RowsFit(db, unsettled, source')
    BY <1>1, <2>3, FitStays
  <2>6. RowsFit(tx, unsettled \ job.settled, source')
    <3>1. RowsFit(tx, unsettled \ job.settled, source)
      BY <1>1 DEF SkillsInv, Fits, RefreshFits
    <3>2. \A x \in Markets : x \notin unsettled \ job.settled => source'[x] = source[x]
      BY <1>1, <2>3
    <3> QED
      BY <1>1, <3>1, <3>2, FitStays
  <2>7. job.install # NoInstall => ~db.skill[job.install].there /\ InstallFits(tx, job', unsettled, source')
    <3>1. job.install # NoInstall => ~db.skill[job.install].there /\ InstallFits(tx, job, unsettled, source)
      BY <1>1 DEF SkillsInv, Fits, RefreshFits
    <3>2. \A x \in job.settled : source'[x] = source[x]
      BY <1>1, <2>3 DEF RefreshJobs
    <3> QED
      BY <1>1, <2>2, <3>1, <3>2 DEF InstallFits
  <2>8. job.settled \subseteq unsettled \ job.todo
    BY <1>1 DEF SkillsInv, Fits, RefreshFits
  <2>9. RefreshFits'
    BY <1>1, <2>1, <2>2, <2>6, <2>7, <2>8 DEF RefreshFits
  <2>10. Fits'
    BY <1>1, <2>2, <2>5, <2>9 DEF Fits, IdleFits, RollbackFits, NoJob
  <2> QED
    BY <2>4, <2>10 DEF SkillsInv
<1> QED
  BY <1>2, <1>3

LEMMA RegisterBundleKeeps ==
    ASSUME SkillsInv, RegisterBundle
    PROVE  SkillsInv'
<1> DEFINE m == job.market
           s == SkillOf[m]
           bundle == source[m]
<1>1. /\ job \in RefreshJobs /\ job.kind = "refresh" /\ job.stage = "register" /\ m \in Markets
      /\ m \in unsettled /\ m \notin job.settled \cup job.todo
      /\ UNCHANGED <<marketOn, origin, source, db, unsettled, edits, skillCrashes>>
      /\ source \in [Markets -> Bundles] /\ db \in Tables /\ tx \in Tables
      /\ RowsFit(db, unsettled, source) /\ snapshots \in [Markets -> SUBSET Versions]
      /\ job.settled \subseteq unsettled \ job.todo /\ RowsFit(tx, unsettled \ job.settled, source)
  BY JobKinds DEF SkillsInv, SkillsTypeOK, RegisterBundle, Refreshing, skillBounds, Fits, RefreshFits
<1>2. s \in Skills /\ job.settled \subseteq Markets
  BY <1>1, SkillAssumption DEF RefreshJobs
<1>3. job.install # NoInstall =>
        job.install \in Skills /\ ~db.skill[job.install].there /\ InstallFits(tx, job, unsettled, source)
  BY <1>1 DEF SkillsInv, Fits, RefreshFits, RefreshJobs
<1>4. CASE bundle = Gone /\ RolledBack /\ UNCHANGED snapshots
  BY <1>1, <1>4, RollingBackKeeps DEF SkillsInv, SkillsTypeOK
\* The next step of a refresh, whatever was registered.
<1>5. ASSUME NEW settled \in SUBSET Markets, job' = [job EXCEPT !.stage = "next", !.settled = settled],
             settled \subseteq job.settled \cup {m}, tx' \in Tables, snapshots' \in [Markets -> SUBSET Versions],
             RowsFit(tx', unsettled \ settled, source),
             job.install # NoInstall => InstallFits(tx', job', unsettled, source)
      PROVE  SkillsInv'
  <2>1. /\ job' \in RefreshJobs /\ job'.kind = "refresh" /\ job'.stage = "next"
        /\ job'.todo = job.todo /\ job'.settled = settled /\ job'.install = job.install
    BY <1>1, <1>5 DEF RefreshJobs
  <2>2. SkillsTypeOK'
    BY <1>1, <1>5, <2>1, JobsInclude DEF SkillsInv, SkillsTypeOK
  <2>3. settled \subseteq unsettled \ job.todo
    BY <1>1, <1>5
  <2>4. RefreshFits'
    BY <1>1, <1>3, <1>5, <2>1, <2>3 DEF RefreshFits
  <2>5. Fits'
    BY <1>1, <2>1, <2>4 DEF Fits, IdleFits, RollbackFits, NoJob
  <2> QED
    BY <2>2, <2>5 DEF SkillsInv
<1>6. CASE /\ bundle = Empty /\ tx' = tx /\ UNCHANGED snapshots
           /\ job' = [job EXCEPT !.stage = "next", !.settled = job.settled]
  <2>1. /\ job'.install = job.install /\ job'.todo = job.todo /\ job'.stage = "next" /\ job'.settled = job.settled
    BY <1>1, <1>6 DEF RefreshJobs
  <2>2. job.install # NoInstall => InstallFits(tx', job', unsettled, source)
    BY <1>3, <1>6, <2>1 DEF InstallFits
  <2> HIDE DEF m, s, bundle
  <2>3. job.settled \in SUBSET Markets /\ tx' = tx /\ snapshots' = snapshots
    BY <1>2, <1>6
  <2>4. job' = [job EXCEPT !.stage = "next", !.settled = job.settled]
    BY <1>6
  <2> QED
    BY <1>1, <1>5, <2>2, <2>3, <2>4
<1>7. CASE /\ bundle = Broken /\ tx' = Quarantined(tx, s, m) /\ UNCHANGED snapshots
           /\ job' = [job EXCEPT !.stage = "next", !.settled = job.settled \cup {m}]
  <2> DEFINE settled == job.settled \cup {m}
  <2>1. tx' \in Tables /\ tx'.skill = [tx.skill EXCEPT ![s] = QuarantinedRow(tx, s)]
    BY <1>1, <1>2, <1>7, QuarantinedTyped
  <2>2. Broken \notin Versions
    BY SkillAssumption DEF Versions
  <2>3. ASSUME NEW x \in Skills, tx'.skill[x].there
        PROVE  /\ tx.skill[x].there /\ tx'.skill[x].from = tx.skill[x].from
               /\ tx'.skill[x].version = tx.skill[x].version
               /\ tx'.skill[x].on => tx.skill[x].on
               /\ x = s => ~tx'.skill[x].on
    <3>1. tx.skill \in [Skills -> SkillRow \cup {NoSkill}]
      BY <1>1, RowTyped
    <3>2. CASE x # s
      BY <2>1, <2>3, <3>1, <3>2
    <3>3. CASE x = s
      <4>1. tx'.skill[x] = QuarantinedRow(tx, s)
        BY <2>1, <3>1, <3>3
      <4>2. tx.skill[s].there
        BY <2>3, <4>1 DEF QuarantinedRow
      <4>3. tx.skill[s] \in SkillRow /\ tx'.skill[x] = [tx.skill[s] EXCEPT !.on = FALSE]
        BY <1>1, <1>2, <4>1, <4>2, RowTyped DEF QuarantinedRow
      <4> QED
        BY <3>3, <4>2, <4>3 DEF SkillRow
    <3> QED
      BY <3>2, <3>3
  <2>4. RowsFit(tx', unsettled \ settled, source)
    <3> SUFFICES ASSUME NEW x \in Skills, tx'.skill[x].there
                 PROVE  /\ SkillOf[tx'.skill[x].from] = x
                        /\ tx'.skill[x].from \notin unsettled \ settled =>
                             \/ source[tx'.skill[x].from] = tx'.skill[x].version
                             \/ source[tx'.skill[x].from] \notin Versions /\ ~tx'.skill[x].on
      BY DEF RowsFit
    <3>1. /\ SkillOf[tx.skill[x].from] = x
          /\ tx.skill[x].from \notin unsettled \ job.settled =>
               \/ source[tx.skill[x].from] = tx.skill[x].version
               \/ source[tx.skill[x].from] \notin Versions /\ ~tx.skill[x].on
      BY <1>1, <2>3 DEF RowsFit
    <3>2. CASE tx.skill[x].from = m
      BY <1>7, <2>2, <2>3, <3>1, <3>2
    <3>3. CASE tx.skill[x].from # m
      BY <2>3, <3>1, <3>3
    <3> QED
      BY <3>2, <3>3
  <2>5. ASSUME job.install # NoInstall PROVE InstallFits(tx', job', unsettled, source)
    <3>1. /\ job'.install = job.install /\ job'.todo = job.todo /\ job'.stage = "next" /\ job'.settled = settled
      BY <1>1, <1>7 DEF RefreshJobs
    <3> SUFFICES ASSUME tx'.skill[job.install].there
                 PROVE  LET row == tx'.skill[job.install]
                        IN /\ row.from \in unsettled \ job.todo
                           /\ row.from \in settled => source[row.from] = row.version
      BY <3>1 DEF InstallFits
    <3>2. /\ tx.skill[job.install].there /\ tx'.skill[job.install].from = tx.skill[job.install].from
          /\ tx'.skill[job.install].version = tx.skill[job.install].version
      BY <1>3, <2>3, <2>5
    <3> QED
      BY <1>1, <1>3, <2>5, <3>2 DEF InstallFits
  <2> HIDE DEF m, s, bundle, settled
  <2>6. settled \in SUBSET Markets /\ settled \subseteq job.settled \cup {m} /\ snapshots' \in [Markets -> SUBSET Versions]
    BY <1>1, <1>2, <1>7 DEF settled
  <2>7. job' = [job EXCEPT !.stage = "next", !.settled = settled]
    BY <1>7 DEF settled
  <2> QED
    BY <1>5, <2>1, <2>4, <2>5, <2>6, <2>7
<1>8. CASE /\ bundle \in Versions /\ tx' = Upserted(tx, s, bundle, m)
           /\ snapshots' = [snapshots EXCEPT ![m] = snapshots[m] \cup {bundle}]
           /\ job' = [job EXCEPT !.stage = "next", !.settled = job.settled \cup {m}]
  <2> DEFINE settled == job.settled \cup {m}
             row == UpsertedRow(tx, s, bundle, m)
  <2>1. tx' \in Tables /\ tx'.skill = [tx.skill EXCEPT ![s] = row]
    BY <1>1, <1>2, <1>8, UpsertedTyped
  <2>2. tx'.skill[s] = row /\ \A x \in Skills : x # s => tx'.skill[x] = tx.skill[x]
    <3>1. tx.skill \in [Skills -> SkillRow \cup {NoSkill}]
      BY <1>1 DEF Tables
    <3> HIDE DEF row, s
    <3> QED
      BY <1>2, <2>1, <3>1
  <2>3. row.there /\ row.from = m /\ row.version = bundle
    BY DEF UpsertedRow
  <2>4. RowsFit(tx', unsettled \ settled, source)
    <3> SUFFICES ASSUME NEW x \in Skills, tx'.skill[x].there
                 PROVE  /\ SkillOf[tx'.skill[x].from] = x
                        /\ tx'.skill[x].from \notin unsettled \ settled =>
                             \/ source[tx'.skill[x].from] = tx'.skill[x].version
                             \/ source[tx'.skill[x].from] \notin Versions /\ ~tx'.skill[x].on
      BY DEF RowsFit
    <3>1. CASE x = s
      BY <2>2, <2>3, <3>1
    <3>2. CASE x # s
      <4>1. tx'.skill[x] = tx.skill[x]
        BY <2>2, <3>2
      <4>2. /\ SkillOf[tx.skill[x].from] = x
            /\ tx.skill[x].from \notin unsettled \ job.settled =>
                 \/ source[tx.skill[x].from] = tx.skill[x].version
                 \/ source[tx.skill[x].from] \notin Versions /\ ~tx.skill[x].on
        BY <1>1, <4>1 DEF RowsFit
      <4>3. tx.skill[x].from # m
        BY <3>2, <4>2
      <4> QED
        BY <4>1, <4>2, <4>3
    <3> QED
      BY <3>1, <3>2
  <2>5. ASSUME job.install # NoInstall PROVE InstallFits(tx', job', unsettled, source)
    <3>1. /\ job'.install = job.install /\ job'.todo = job.todo /\ job'.stage = "next" /\ job'.settled = settled
      BY <1>1, <1>8 DEF RefreshJobs
    <3> SUFFICES ASSUME tx'.skill[job.install].there
                 PROVE  LET new == tx'.skill[job.install]
                        IN /\ new.from \in unsettled \ job.todo
                           /\ new.from \in settled => source[new.from] = new.version
      BY <3>1 DEF InstallFits
    <3>2. CASE job.install = s
      BY <1>1, <2>2, <2>3, <3>2
    <3>3. CASE job.install # s
      <4>1. tx'.skill[job.install] = tx.skill[job.install]
        BY <1>3, <2>2, <2>5, <3>3
      <4> QED
        BY <1>1, <1>3, <2>5, <4>1 DEF InstallFits
    <3> QED
      BY <3>2, <3>3
  <2> HIDE DEF m, s, bundle, settled
  <2>6. settled \in SUBSET Markets /\ settled \subseteq job.settled \cup {m} /\ snapshots' \in [Markets -> SUBSET Versions]
    BY <1>1, <1>2, <1>8 DEF settled
  <2>7. job' = [job EXCEPT !.stage = "next", !.settled = settled]
    BY <1>8 DEF settled
  <2> QED
    BY <1>5, <2>1, <2>4, <2>5, <2>6, <2>7
<1>9. Empty # Broken
  BY SkillAssumption
<1>10. \/ bundle = Gone /\ RolledBack /\ UNCHANGED snapshots
       \/ /\ bundle \in {Broken, Empty}
          /\ tx' = IF bundle = Broken THEN Quarantined(tx, s, m) ELSE tx
          /\ job' = [job EXCEPT !.stage = "next", !.settled = IF bundle = Broken THEN job.settled \cup {m} ELSE job.settled]
          /\ UNCHANGED snapshots
       \/ /\ bundle \in Versions
          /\ snapshots' = [snapshots EXCEPT ![m] = snapshots[m] \cup {bundle}]
          /\ tx' = Upserted(tx, s, bundle, m)
          /\ job' = [job EXCEPT !.stage = "next", !.settled = job.settled \cup {m}]
  BY <1>1 DEF RegisterBundle, RefreshJobs
<1> HIDE DEF m, s, bundle
<1> QED
  BY <1>4, <1>6, <1>7, <1>8, <1>9, <1>10

LEMMA EndRefreshKeeps ==
    ASSUME SkillsInv, EndRefresh
    PROVE  SkillsInv'
<1>1. /\ job \in RefreshJobs /\ job.kind = "refresh" /\ job' = NoJob
      /\ UNCHANGED <<marketOn, origin, source, snapshots, edits, skillCrashes>>
      /\ source \in [Markets -> Bundles] /\ db \in Tables /\ tx \in Tables /\ unsettled \subseteq Markets
      /\ RowsFit(db, unsettled, source) /\ RowsFit(tx, unsettled \ job.settled, source)
  BY JobKinds DEF SkillsInv, SkillsTypeOK, EndRefresh, Refreshing, skillBounds, skillFiles, Fits, RefreshFits
<1>2. CASE job.install # NoInstall /\ ~tx.skill[job.install].there
  <2>1. RolledBack /\ UNCHANGED <<db, unsettled>>
    BY <1>1, <1>2 DEF EndRefresh, RolledBack
  <2> QED
    BY <1>1, <2>1, RollingBackKeeps DEF SkillsInv, SkillsTypeOK
<1>3. CASE ~(job.install # NoInstall /\ ~tx.skill[job.install].there)
  <2>1. /\ db' = IF job.install = NoInstall THEN tx ELSE Switched(tx, job.install, TRUE)
        /\ tx' = db' /\ unsettled' = unsettled \ job.settled
    BY <1>3 DEF EndRefresh, CommitTables
  <2>2. db' \in Tables /\ RowsFit(db', unsettled', source)
    <3>1. CASE job.install = NoInstall
      BY <1>1, <2>1, <3>1
    <3>2. CASE job.install # NoInstall
      <4> DEFINE s == job.install
                 row == tx.skill[s]
      <4>1. s \in Skills /\ row.there /\ InstallFits(tx, job, unsettled, source)
        BY <1>1, <1>3, <3>2 DEF RefreshJobs, SkillsInv, Fits, RefreshFits
      <4>2. db' \in Tables /\ db'.skill = [tx.skill EXCEPT ![s] = [row EXCEPT !.on = TRUE]]
        BY <1>1, <2>1, <3>2, <4>1, SwitchedTyped
      <4>3. tx.skill \in [Skills -> SkillRow \cup {NoSkill}] /\ row \in SkillRow
        BY <1>1, <4>1, RowTyped
      <4>4. /\ row.from \in unsettled
            /\ row.from \in job.settled => source[row.from] = row.version
        BY <4>1 DEF InstallFits
      <4> HIDE DEF row, s
      <4>5. /\ \A x \in Skills : x # s => db'.skill[x] = tx.skill[x]
            /\ db'.skill[s] = [row EXCEPT !.on = TRUE]
        BY <4>1, <4>2, <4>3
      <4>6. db'.skill[s].from = row.from /\ db'.skill[s].version = row.version
        BY <4>3, <4>5 DEF SkillRow
      <4>7. SkillOf[row.from] = s
        BY <1>1, <4>1 DEF RowsFit, row
      <4> SUFFICES ASSUME NEW x \in Skills, db'.skill[x].there
                   PROVE  /\ SkillOf[db'.skill[x].from] = x
                          /\ db'.skill[x].from \notin unsettled' =>
                               \/ source[db'.skill[x].from] = db'.skill[x].version
                               \/ source[db'.skill[x].from] \notin Versions /\ ~db'.skill[x].on
        BY <4>2 DEF RowsFit
      <4>8. CASE x = s
        BY <2>1, <4>4, <4>6, <4>7, <4>8
      <4>9. CASE x # s
        <5>1. db'.skill[x] = tx.skill[x]
          BY <4>5, <4>9
        <5> QED
          BY <1>1, <2>1, <5>1, ZenonT(60) DEF RowsFit
      <4> QED
        BY <4>8, <4>9
    <3> QED
      BY <3>1, <3>2
  <2>3. SkillsTypeOK'
    BY <1>1, <2>1, <2>2, JobsInclude DEF SkillsInv, SkillsTypeOK
  <2> QED
    BY <1>1, <2>1, <2>2, <2>3, FitsIdle DEF SkillsInv
<1> QED
  BY <1>2, <1>3

LEMMA RollbackSkillKeeps ==
    ASSUME SkillsInv, NEW s \in Skills, NEW v \in Versions, RollbackSkill(s, v)
    PROVE  SkillsInv'
<1> DEFINE from == db.skill[s].from
<1>1. /\ job = NoJob /\ db \in Tables /\ source \in [Markets -> Bundles] /\ unsettled \subseteq Markets
      /\ RowsFit(db, unsettled, source)
      /\ UNCHANGED <<marketOn, origin, snapshots, edits, skillCrashes>>
  BY DEF SkillsInv, SkillsTypeOK, RollbackSkill, SkillsIdle, skillBounds, Fits
<1>2. RecordOf(db, s, v) \in Tables /\ RecordOf(db, s, v).skill = db.skill
  BY <1>1, RecordOfTyped
<1>3. CASE db.skill[s].there /\ v \in snapshots[db.snapshot[s][v]]
  <2>1. /\ tx' = RecordOf(db, s, v) /\ db' = db
        /\ job' = [kind |-> "rollback", skill |-> s, version |-> v, stage |-> "copy"]
        /\ source' = [source EXCEPT ![from] = Gone] /\ unsettled' = unsettled \cup {from}
    BY <1>3 DEF RollbackSkill
  <2>2. from \in Markets
    BY <1>1, <1>3, RowTyped DEF SkillRow
  <2>3. job' \in RollbackJobs
    BY <2>1 DEF RollbackJobs
  <2> HIDE DEF from
  <2>4. source' \in [Markets -> Bundles] /\ \A x \in Markets : x # from => source'[x] = source[x]
    BY <1>1, <2>1, <2>2 DEF Bundles
  <2>5. SkillsTypeOK'
    BY <1>1, <1>2, <2>1, <2>2, <2>3, <2>4, JobsInclude DEF SkillsInv, SkillsTypeOK
  <2>6. RowsFit(db, unsettled', source')
    <3>1. unsettled \subseteq unsettled' /\ \A x \in Markets : x \notin unsettled' => source'[x] = source[x]
      BY <2>1, <2>4
    <3> QED
      BY <1>1, <3>1, FitStays
  <2>7. RollbackFits'
    <3>1. job'.skill = s /\ job'.stage = "copy" /\ db.skill[s].there /\ from \in unsettled' /\ tx'.skill = db.skill
      BY <1>2, <1>3, <2>1
    <3> QED
      BY <2>1, <3>1 DEF RollbackFits, from
  <2>8. Fits'
    <3>1. job'.kind = "rollback" /\ job' # NoJob
      BY <2>1 DEF NoJob
    <3> QED
      BY <2>1, <2>6, <2>7, <3>1 DEF Fits, IdleFits, RefreshFits
  <2> QED
    BY <2>5, <2>8 DEF SkillsInv
<1>4. CASE ~(db.skill[s].there /\ v \in snapshots[db.snapshot[s][v]])
  <2>1. db' = RecordOf(db, s, v) /\ tx' = db' /\ UNCHANGED <<source, job, unsettled>>
    BY <1>4 DEF RollbackSkill, CommitTables
  <2>2. SkillsTypeOK'
    BY <1>1, <1>2, <2>1 DEF SkillsInv, SkillsTypeOK
  <2>3. RowsFit(db', unsettled', source')
    BY <1>1, <1>2, <2>1 DEF RowsFit
  <2> QED
    BY <1>1, <2>1, <2>2, <2>3, FitsIdle DEF SkillsInv
<1> QED
  BY <1>3, <1>4

LEMMA RollbackFacts ==
    ASSUME SkillsInv, job.kind = "rollback"
    PROVE  LET row == db.skill[job.skill]
           IN /\ job \in RollbackJobs /\ job.skill \in Skills /\ job.version \in Versions
              /\ row \in SkillRow /\ row.there /\ row.from \in Markets /\ row.from \in unsettled /\ tx.skill = db.skill
              /\ job.stage = "next" => source[row.from] \in {Gone, job.version}
              /\ source \in [Markets -> Bundles] /\ db \in Tables /\ tx \in Tables /\ unsettled \subseteq Markets
              /\ RowsFit(db, unsettled, source)
<1>1. /\ job \in RollbackJobs /\ job.skill \in Skills /\ job.version \in Versions
      /\ source \in [Markets -> Bundles] /\ db \in Tables /\ tx \in Tables /\ unsettled \subseteq Markets
      /\ RowsFit(db, unsettled, source)
  BY JobKinds DEF SkillsInv, SkillsTypeOK, RollbackJobs, Fits
<1>2. /\ db.skill[job.skill].there /\ db.skill[job.skill].from \in unsettled /\ tx.skill = db.skill
      /\ job.stage = "next" => source[db.skill[job.skill].from] \in {Gone, job.version}
  BY DEF SkillsInv, Fits, RollbackFits
<1>3. db.skill[job.skill] \in SkillRow
  BY <1>1, <1>2, RowTyped
<1> QED
  BY <1>1, <1>2, <1>3

LEMMA CopySnapshotKeeps ==
    ASSUME SkillsInv, CopySnapshot
    PROVE  SkillsInv'
<1> DEFINE from == db.skill[job.skill].from
<1>1. /\ job \in RollbackJobs /\ job.skill \in Skills /\ job.version \in Versions /\ job.kind = "rollback"
      /\ db.skill[job.skill].there /\ from \in Markets /\ from \in unsettled /\ tx.skill = db.skill
      /\ source \in [Markets -> Bundles] /\ db \in Tables /\ tx \in Tables /\ unsettled \subseteq Markets
      /\ RowsFit(db, unsettled, source)
      /\ UNCHANGED <<marketOn, origin, snapshots, db, unsettled, edits, skillCrashes>>
  BY RollbackFacts DEF CopySnapshot, skillBounds
<1>2. \/ RolledBack /\ UNCHANGED source
      \/ /\ source' = [source EXCEPT ![from] = job.version]
         /\ job' = [job EXCEPT !.stage = "next"] /\ UNCHANGED tx
  BY <1>1 DEF CopySnapshot
<1>3. CASE RolledBack /\ UNCHANGED source
  BY <1>1, <1>3, RollingBackKeeps DEF SkillsInv, SkillsTypeOK
<1>4. CASE /\ source' = [source EXCEPT ![from] = job.version]
           /\ job' = [job EXCEPT !.stage = "next"] /\ UNCHANGED tx
  <2>1. job' \in RollbackJobs /\ job'.kind = "rollback" /\ job'.skill = job.skill /\ job'.version = job.version
    BY <1>1, <1>4 DEF RollbackJobs
  <2>2. source' \in [Markets -> Bundles] /\ source'[from] = job.version
        /\ \A x \in Markets : x # from => source'[x] = source[x]
    <3> HIDE DEF from
    <3> QED
      BY <1>1, <1>4 DEF Bundles
  <2>3. SkillsTypeOK'
    BY <1>1, <1>4, <2>1, <2>2, JobsInclude DEF SkillsInv, SkillsTypeOK
  <2>4. RowsFit(db, unsettled, source')
    <3> HIDE DEF from
    <3>1. \A x \in Markets : x \notin unsettled => source'[x] = source[x]
      BY <1>1, <2>2
    <3> QED
      BY <1>1, <3>1, FitStays
  <2>5. RollbackFits'
    BY <1>1, <1>4, <2>1, <2>2 DEF RollbackFits
  <2>6. Fits'
    BY <1>1, <2>1, <2>4, <2>5 DEF Fits, IdleFits, RefreshFits, NoJob
  <2> QED
    BY <2>3, <2>6 DEF SkillsInv
<1> QED
  BY <1>2, <1>3, <1>4

LEMMA EndRollbackKeeps ==
    ASSUME SkillsInv, EndRollback
    PROVE  SkillsInv'
<1> DEFINE s == job.skill
           listed == db.skill[s]
           from == listed.from
<1>1. /\ s \in Skills /\ job.version \in Versions
      /\ listed \in SkillRow /\ from \in Markets /\ tx.skill = db.skill /\ source[from] \in {Gone, job.version}
      /\ source \in [Markets -> Bundles] /\ db \in Tables /\ tx \in Tables /\ unsettled \subseteq Markets
      /\ RowsFit(db, unsettled, source) /\ SkillOf[from] = s
      /\ UNCHANGED <<marketOn, origin, source, snapshots, edits, skillCrashes>>
  BY RollbackFacts DEF EndRollback, skillBounds, skillFiles, RowsFit
<1>2. CASE source[from] = Gone
  <2>1. RolledBack /\ UNCHANGED <<db, unsettled>>
    BY <1>1, <1>2 DEF EndRollback
  <2> QED
    BY <1>1, <2>1, RollingBackKeeps DEF SkillsInv, SkillsTypeOK
<1>3. CASE source[from] # Gone
  <2> DEFINE row == [listed EXCEPT !.on = TRUE, !.version = source[from]]
             skill == [db.skill EXCEPT ![s] = row]
  <2>1. row \in SkillRow /\ row.from = from /\ row.version = source[from]
    <3> DEFINE version == source[from]
    <3>1. version \in Versions /\ from = listed.from
      BY <1>1, <1>3
    <3> HIDE DEF version, from, listed
    <3>2. [listed EXCEPT !.on = TRUE, !.version = version].from = from
      BY <1>1, <3>1 DEF SkillRow
    <3>3. [listed EXCEPT !.on = TRUE, !.version = version] \in SkillRow
      BY <1>1, <3>1 DEF SkillRow
    <3>4. [listed EXCEPT !.on = TRUE, !.version = version].version = version
      BY <1>1 DEF SkillRow
    <3> QED
      BY <3>2, <3>3, <3>4 DEF version
  <2>2. db' = [tx EXCEPT !.skill = skill] /\ tx' = db' /\ unsettled' = unsettled \ {from} /\ job' = NoJob
    BY <1>1, <1>3 DEF EndRollback, CommitTables, Tables
  <2>3. db.skill \in [Skills -> SkillRow \cup {NoSkill}]
    BY <1>1 DEF Tables
  <2>4. /\ skill \in [Skills -> SkillRow \cup {NoSkill}] /\ skill[s] = row
        /\ \A x \in Skills : x # s => skill[x] = db.skill[x]
    <3> HIDE DEF row, s
    <3> QED
      BY <1>1, <2>1, <2>3
  <2>5. db' \in Tables /\ db'.skill = skill
    <3> HIDE DEF skill
    <3> QED
      BY <1>1, <2>2, <2>4, SkillsPut
  <2>6. RowsFit(db', unsettled', source)
    <3> SUFFICES ASSUME NEW x \in Skills, skill[x].there
                 PROVE  /\ SkillOf[skill[x].from] = x
                        /\ skill[x].from \notin unsettled' =>
                             \/ source[skill[x].from] = skill[x].version
                             \/ source[skill[x].from] \notin Versions /\ ~skill[x].on
      BY <2>5 DEF RowsFit
    <3> HIDE DEF row, skill, s, from
    <3>1. CASE x = s
      BY <1>1, <2>1, <2>4, <3>1
    <3>2. CASE x # s
      <4>1. skill[x] = db.skill[x]
        BY <2>4, <3>2
      <4>2. /\ SkillOf[db.skill[x].from] = x
            /\ db.skill[x].from \notin unsettled =>
                 \/ source[db.skill[x].from] = db.skill[x].version
                 \/ source[db.skill[x].from] \notin Versions /\ ~db.skill[x].on
        BY <1>1, <4>1 DEF RowsFit
      <4>3. db.skill[x].from # from
        BY <1>1, <3>2, <4>2
      <4> QED
        BY <2>2, <4>1, <4>2, <4>3
    <3> QED
      BY <3>1, <3>2
  <2>7. SkillsTypeOK'
    <3> HIDE DEF from, skill
    <3> QED
      BY <1>1, <2>2, <2>5, JobsInclude DEF SkillsInv, SkillsTypeOK
  <2> QED
    BY <1>1, <2>2, <2>6, <2>7, FitsIdle DEF SkillsInv
<1> QED
  BY <1>2, <1>3

LEMMA CrashSkillsKeeps ==
    ASSUME SkillsInv, CrashSkills
    PROVE  SkillsInv'
<1>1. /\ RolledBack /\ UNCHANGED <<marketOn, origin, snapshots, db, unsettled, edits>>
      /\ source \in [Markets -> Bundles] /\ unsettled \subseteq Markets /\ db \in Tables
      /\ RowsFit(db, unsettled, source) /\ skillCrashes' \in Nat
  BY DEF SkillsInv, SkillsTypeOK, CrashSkills, Fits
<1>2. source' \in [Markets -> Bundles] /\ \A x \in Markets : x \notin unsettled => source'[x] = source[x]
  <2>1. CASE UNCHANGED source
    BY <1>1, <2>1
  <2>2. CASE Refreshing("copy") /\ source' = [source EXCEPT ![job.market] = Broken]
    <3>1. job.market \in unsettled
      BY <2>2 DEF Refreshing, SkillsInv, Fits, RefreshFits
    <3> QED
      BY <1>1, <2>2, <3>1 DEF Bundles
  <2>3. CASE /\ job.kind = "rollback"
             /\ source' = [source EXCEPT ![db.skill[job.skill].from] = Broken]
    <3>1. db.skill[job.skill].from \in unsettled
      BY <2>3, RollbackFacts
    <3> QED
      BY <1>1, <2>3, <3>1 DEF Bundles
  <2> QED
    BY <2>1, <2>2, <2>3 DEF CrashSkills
<1>3. RowsFit(db, unsettled, source')
  BY <1>1, <1>2, FitStays
<1> QED
  BY <1>1, <1>2, <1>3, RollingBackKeeps

LEMMA SkillsNextKeeps ==
    ASSUME SkillsInv, SkillsNext
    PROVE  SkillsInv'
BY MarketStepsKeep, SwitchKeeps, ValidateKeeps, StartRefreshKeeps, RemoveSourceKeeps, CopySourceKeeps,
   RegisterBundleKeeps, EndRefreshKeeps, RollbackSkillKeeps, CopySnapshotKeeps, EndRollbackKeeps, CrashSkillsKeeps
   DEF SkillsNext

LEMMA FitsImplyLoads == SkillsInv => EnabledSkillsLoad
<1> SUFFICES ASSUME SkillsInv, NEW s \in Skills, db.skill[s].there, db.skill[s].on, db.skill[s].from \notin unsettled
             PROVE  source[db.skill[s].from] = db.skill[s].version
  BY DEF EnabledSkillsLoad
<1> QED
  BY DEF SkillsInv, Fits, RowsFit

-----------------------------------------------------------------------------
(* The cleanup beside them.                                                  *)

Executions == [running : {TRUE}, left : SUBSET CleanupItems, protected : SUBSET (UNION {ArtifactPaths, SandboxPaths,
                 {SkillDirectory(m) : m \in Markets}}), gone : SUBSET CleanupItems, failed : BOOLEAN]

StorageTyped ==
    /\ files \subseteq ArtifactPaths \cup SandboxPaths /\ episodePaths \subseteq ArtifactPaths \cup SandboxPaths
    /\ oldItems \subseteq CleanupItems /\ records \subseteq CleanupItems /\ deleted \subseteq CleanupItems
    /\ drafts \subseteq Skills /\ draftDirs \subseteq drafts
    /\ made \in [HomeRuns -> Nat] /\ checkpoints \in [HomeRuns -> SUBSET Nat]
    /\ \A r \in HomeRuns : checkpoints[r] \subseteq 1..made[r]
    /\ plan # NoPlan => plan.items \subseteq CleanupItems
    /\ cleaning \in {NotCleaning} \cup Executions

\* No list of items has the last checkpoint of a run, however many were made since.
RowsAreOld(items) == \A r \in HomeRuns, n \in Nat : <<"checkpoint", r, n>> \in items => n < made[r]

PlansAreOld ==
    /\ plan # NoPlan => RowsAreOld(plan.items)
    /\ Cleaning => RowsAreOld(cleaning.left) /\ RowsAreOld(cleaning.gone)

\* What an episode refers to is protected, but for what was recorded since the cleanup began.
RecordedIsProtected == Cleaning => episodePaths \ raced \subseteq cleaning.protected

StorageInv == SkillsInv /\ StorageTyped /\ PlansAreOld /\ RecordedIsProtected /\ ReferencedDataIsKept

LEMMA OldPlan ==
    ASSUME StorageInv
    PROVE  CleanupPlan \subseteq CleanupItems /\ RowsAreOld(CleanupPlan)
<1>1. CleanupPlan \subseteq CleanupItems
  BY DEF CleanupPlan, CleanupItems, OldCheckpoints
<1>2. ASSUME NEW r \in HomeRuns, NEW n \in Nat, <<"checkpoint", r, n>> \in CleanupPlan PROVE n < made[r]
  <2> DEFINE i == <<"checkpoint", r, n>>
  <2>1. i \notin FileItems \cup DirectoryItems
    BY DEF FileItems, DirectoryItems, ArtifactPaths
  <2>2. n \in checkpoints[r] /\ ~IsLatest(r, n)
    <3>1. i \in OldCheckpoints
      BY <1>2, <2>1 DEF CleanupPlan
    <3>2. i[2] = r /\ i[3] = n
      OBVIOUS
    <3> HIDE DEF i
    <3> QED
      BY <3>1, <3>2 DEF OldCheckpoints
  <2>3. PICK k \in checkpoints[r] : ~(k <= n)
    BY <2>2 DEF IsLatest
  <2>4. k \in 1..made[r] /\ made[r] \in Nat
    BY <2>3 DEF StorageInv, StorageTyped
  <2> QED
    BY <2>3, <2>4
<1> QED
  BY <1>1, <1>2 DEF RowsAreOld

LEMMA StillOld ==
    ASSUME NEW items, RowsAreOld(items), StorageTyped, \A r \in HomeRuns : made'[r] \in Nat /\ made'[r] >= made[r]
    PROVE  \A r \in HomeRuns, n \in Nat : <<"checkpoint", r, n>> \in items => n < made'[r]
<1>1. \A r \in HomeRuns : made[r] \in Nat
  BY DEF StorageTyped
<1> QED
  BY <1>1 DEF RowsAreOld

LEMMA ProtectedTyped ==
    ASSUME StorageInv
    PROVE  ProtectedPaths \in SUBSET (UNION {ArtifactPaths, SandboxPaths, {SkillDirectory(m) : m \in Markets}})
<1>1. ASSUME NEW s \in Skills, db.skill[s].there PROVE db.skill[s].from \in Markets
  BY <1>1, RowTyped DEF StorageInv, SkillsInv, SkillsTypeOK, SkillRow
<1> QED
  BY <1>1 DEF ProtectedPaths, StorageInv, StorageTyped

LEMMA StorageInvInit == HomeInit => StorageInv
<1> SUFFICES ASSUME HomeInit PROVE StorageInv
  OBVIOUS
<1>1. SkillsInv
  BY SkillsInvInit DEF HomeInit
<1>2. StorageTyped
  BY DEF HomeInit, StorageInit, StorageTyped
<1>3. ReferencedDataIsKept
  BY DEF HomeInit, StorageInit, ReferencedDataIsKept, LatestCheckpointKept, EpisodeArtifactsKept
<1> QED
  BY <1>1, <1>2, <1>3 DEF HomeInit, StorageInit, StorageInv, PlansAreOld, RecordedIsProtected, Cleaning

\* What looks at neither runs nor episodes.
LEMMA KeptSame ==
    ASSUME StorageInv, UNCHANGED <<files, episodePaths, checkpoints, made, plan, cleaning, raced>>
    PROVE  PlansAreOld' /\ RecordedIsProtected' /\ ReferencedDataIsKept'
BY DEF StorageInv, PlansAreOld, RowsAreOld, Cleaning, RecordedIsProtected, ReferencedDataIsKept,
       LatestCheckpointKept, EpisodeArtifactsKept

LEMMA SkillsInvSame ==
    ASSUME SkillsInv, UNCHANGED skillVars
    PROVE  SkillsInv'
<1>1. SkillsTypeOK'
  BY DEF SkillsInv, SkillsTypeOK, skillVars
<1> QED
  BY <1>1, FitsSame DEF SkillsInv, skillVars

LEMMA WriteKeeps ==
    ASSUME StorageInv, NEW path \in ArtifactPaths \cup SandboxPaths, WriteArtifact(path) \/ RecordEpisode(path)
    PROVE  StorageInv'
<1>1. SkillsInv'
  BY SkillsInvSame DEF StorageInv, WriteArtifact, RecordEpisode
<1>2. UNCHANGED <<drafts, draftDirs, checkpoints, made, plan, cleaning, records, deleted>>
  BY DEF WriteArtifact, RecordEpisode
<1>3. CASE WriteArtifact(path)
  <2>1. files' = files \cup {path} /\ oldItems' \subseteq oldItems /\ UNCHANGED <<episodePaths, raced>>
    BY <1>3 DEF WriteArtifact
  <2>2. StorageTyped'
    BY <1>2, <2>1 DEF StorageInv, StorageTyped
  <2>3. PlansAreOld' /\ RecordedIsProtected'
    BY <1>2, <2>1 DEF StorageInv, PlansAreOld, RowsAreOld, RecordedIsProtected, Cleaning
  <2>4. ReferencedDataIsKept'
    BY <1>2, <2>1 DEF StorageInv, ReferencedDataIsKept, LatestCheckpointKept, EpisodeArtifactsKept
  <2> QED
    BY <1>1, <2>2, <2>3, <2>4 DEF StorageInv
<1>4. CASE RecordEpisode(path)
  <2>1. /\ episodePaths' = episodePaths \cup {path} /\ raced' = (IF Cleaning THEN raced \cup {path} ELSE raced)
        /\ path \in files /\ UNCHANGED <<files, oldItems>>
    BY <1>4 DEF RecordEpisode
  <2>2. StorageTyped'
    BY <1>2, <2>1 DEF StorageInv, StorageTyped
  <2>3. PlansAreOld'
    BY <1>2 DEF StorageInv, PlansAreOld, RowsAreOld, Cleaning
  <2>4. RecordedIsProtected'
    BY <1>2, <2>1 DEF StorageInv, RecordedIsProtected, Cleaning
  <2>5. ReferencedDataIsKept'
    BY <1>2, <2>1 DEF StorageInv, ReferencedDataIsKept, LatestCheckpointKept, EpisodeArtifactsKept
  <2> QED
    BY <1>1, <2>2, <2>3, <2>4, <2>5 DEF StorageInv
<1> QED
  BY <1>3, <1>4

LEMMA AgeOrPromoteKeeps ==
    ASSUME StorageInv, (\E i \in CleanupItems : GrowOld(i)) \/ (\E s \in Skills : PromoteEpisode(s))
    PROVE  StorageInv'
<1>1. SkillsInv'
  BY SkillsInvSame DEF StorageInv, GrowOld, PromoteEpisode
<1>2. UNCHANGED <<files, episodePaths, checkpoints, made, plan, cleaning, raced, records, deleted>>
  BY DEF GrowOld, PromoteEpisode
<1>3. oldItems' \subseteq CleanupItems /\ drafts' \subseteq Skills /\ draftDirs' \subseteq drafts'
  <2>1. CASE \E i \in CleanupItems : GrowOld(i)
    BY <2>1 DEF GrowOld, StorageInv, StorageTyped
  <2>2. CASE \E s \in Skills : PromoteEpisode(s)
    BY <2>2 DEF PromoteEpisode, StorageInv, StorageTyped
  <2> QED
    BY <2>1, <2>2
<1>4. StorageTyped'
  BY <1>2, <1>3 DEF StorageInv, StorageTyped
<1> QED
  BY <1>1, <1>2, <1>4, KeptSame DEF StorageInv

LEMMA CheckpointKeeps ==
    ASSUME StorageInv, NEW r \in HomeRuns, MakeCheckpoint(r)
    PROVE  StorageInv'
<1>1. SkillsInv'
  BY SkillsInvSame DEF StorageInv, MakeCheckpoint
<1>2. /\ made' = [made EXCEPT ![r] = made[r] + 1]
      /\ checkpoints' = [checkpoints EXCEPT ![r] = checkpoints[r] \cup {made'[r]}]
      /\ UNCHANGED <<files, oldItems, episodePaths, drafts, draftDirs, plan, cleaning, records, deleted, raced>>
  BY DEF MakeCheckpoint
<1>3. /\ made \in [HomeRuns -> Nat] /\ checkpoints \in [HomeRuns -> SUBSET Nat]
      /\ \A x \in HomeRuns : checkpoints[x] \subseteq 1..made[x] /\ made[x] \in Nat
  BY DEF StorageInv, StorageTyped
<1>4. /\ made' \in [HomeRuns -> Nat] /\ made'[r] = made[r] + 1
      /\ \A x \in HomeRuns : x # r => made'[x] = made[x] /\ checkpoints'[x] = checkpoints[x]
      /\ checkpoints'[r] = checkpoints[r] \cup {made[r] + 1}
  BY <1>2, <1>3
<1>5. checkpoints' \in [HomeRuns -> SUBSET Nat]
  BY <1>2, <1>3, <1>4
<1>6. ASSUME NEW x \in HomeRuns
      PROVE  checkpoints'[x] \subseteq 1..made'[x] /\ (made'[x] > 0 => made'[x] \in checkpoints'[x])
  <2>1. CASE x = r
    BY <1>3, <1>4, <2>1
  <2>2. CASE x # r
    BY <1>3, <1>4, <2>2 DEF StorageInv, ReferencedDataIsKept, LatestCheckpointKept
  <2> QED
    BY <2>1, <2>2
<1>7. StorageTyped'
  BY <1>2, <1>4, <1>5, <1>6 DEF StorageInv, StorageTyped
<1>8. \A x \in HomeRuns : made'[x] \in Nat /\ made'[x] >= made[x]
  BY <1>3, <1>4
<1>9. PlansAreOld'
  BY <1>2, <1>8, StillOld DEF StorageInv, PlansAreOld, Cleaning, RowsAreOld
<1>10. RecordedIsProtected' /\ ReferencedDataIsKept'
  BY <1>2, <1>6 DEF StorageInv, RecordedIsProtected, Cleaning, ReferencedDataIsKept, LatestCheckpointKept,
                    EpisodeArtifactsKept
<1> QED
  BY <1>1, <1>7, <1>9, <1>10 DEF StorageInv

LEMMA PlanKeeps ==
    ASSUME StorageInv, DryRun
    PROVE  StorageInv'
<1>1. SkillsInv'
  BY SkillsInvSame DEF StorageInv, DryRun
<1>2. /\ plan' = [planned |-> TRUE, items |-> CleanupPlan]
      /\ UNCHANGED <<files, oldItems, episodePaths, drafts, draftDirs, checkpoints, made, cleaning, records, deleted, raced>>
  BY DEF DryRun
<1>3. plan'.items = CleanupPlan
  BY <1>2
<1>4. StorageTyped'
  BY <1>2, <1>3, OldPlan DEF StorageInv, StorageTyped
<1>5. PlansAreOld'
  BY <1>2, <1>3, OldPlan DEF StorageInv, PlansAreOld, RowsAreOld, Cleaning
<1>6. RecordedIsProtected' /\ ReferencedDataIsKept'
  BY <1>2 DEF StorageInv, RecordedIsProtected, Cleaning, ReferencedDataIsKept, LatestCheckpointKept,
              EpisodeArtifactsKept
<1> QED
  BY <1>1, <1>4, <1>5, <1>6 DEF StorageInv

LEMMA StartCleanupKeeps ==
    ASSUME StorageInv, NEW items \in SUBSET CleanupItems, RowsAreOld(items), StartCleanup(items)
    PROVE  StorageInv'
<1>1. SkillsInv'
  BY SkillsInvSame DEF StorageInv, StartCleanup
<1>2. /\ cleaning' = [running |-> TRUE, left |-> items, protected |-> ProtectedPaths, gone |-> {}, failed |-> FALSE]
      /\ UNCHANGED <<files, oldItems, episodePaths, drafts, draftDirs, checkpoints, made, plan, records, deleted, raced>>
  BY DEF StartCleanup
<1>3. cleaning' \in Executions /\ cleaning'.left = items /\ cleaning'.gone = {} /\ cleaning'.protected = ProtectedPaths
  BY <1>2, ProtectedTyped DEF Executions
<1>4. StorageTyped'
  BY <1>2, <1>3 DEF StorageInv, StorageTyped
<1>5. PlansAreOld'
  BY <1>2, <1>3 DEF StorageInv, PlansAreOld, RowsAreOld, Cleaning
<1>6. RecordedIsProtected'
  BY <1>2, <1>3 DEF RecordedIsProtected, ProtectedPaths
<1>7. ReferencedDataIsKept'
  BY <1>2 DEF StorageInv, ReferencedDataIsKept, LatestCheckpointKept, EpisodeArtifactsKept
<1> QED
  BY <1>1, <1>4, <1>5, <1>6, <1>7 DEF StorageInv

\* The cleanup of markets' directories leaves a refresh without the markets it settled.
LEMMA SkillsInvCleaned ==
    ASSUME SkillsInv, NEW gone \in SUBSET Markets,
           source' = [m \in Markets |-> IF m \in gone THEN Gone ELSE source[m]],
           snapshots' = [m \in Markets |-> IF m \in gone THEN {} ELSE snapshots[m]],
           unsettled' = unsettled \cup gone,
           job' = IF job.kind # "refresh" THEN job ELSE [job EXCEPT !.settled = job.settled \ gone],
           UNCHANGED <<marketOn, origin, db, tx, skillBounds>>
    PROVE  SkillsInv'
<1>1. /\ source' \in [Markets -> Bundles] /\ \A m \in Markets : m \notin gone => source'[m] = source[m]
      /\ \A m \in gone : source'[m] = Gone
      /\ snapshots' \in [Markets -> SUBSET Versions] /\ unsettled' \subseteq Markets
      /\ db \in Tables /\ tx \in Tables /\ RowsFit(db, unsettled, source)
  BY DEF SkillsInv, SkillsTypeOK, Bundles, Fits
<1>2. CASE job.kind = "refresh"
  <2>1. job \in RefreshJobs /\ job' = [job EXCEPT !.settled = job.settled \ gone]
    BY <1>2, JobKinds DEF SkillsInv
  <2>2. /\ job' \in RefreshJobs /\ job'.kind = "refresh" /\ job'.stage = job.stage /\ job'.market = job.market
        /\ job'.todo = job.todo /\ job'.settled = job.settled \ gone /\ job'.install = job.install
        /\ job.settled \subseteq Markets
    BY <2>1 DEF RefreshJobs
  <2>3. /\ job.settled \subseteq unsettled \ job.todo /\ RowsFit(tx, unsettled \ job.settled, source)
        /\ job.stage # "next" => job.market \in Markets \cap unsettled /\ job.market \notin job.settled \cup job.todo
        /\ job.install # NoInstall => ~db.skill[job.install].there /\ InstallFits(tx, job, unsettled, source)
    BY <1>2 DEF SkillsInv, Fits, RefreshFits
  <2>4. RowsFit(tx, unsettled' \ job'.settled, source')
    <3>1. /\ unsettled \ job.settled \subseteq unsettled' \ job'.settled
          /\ \A m \in Markets : m \notin unsettled' \ job'.settled => source'[m] = source[m]
      BY <1>1, <2>2
    <3> QED
      BY <1>1, <2>3, <3>1, FitStays
  <2>5. job.install # NoInstall => InstallFits(tx, job', unsettled', source')
    BY <1>1, <2>2, <2>3 DEF InstallFits
  <2>6. /\ job'.settled \subseteq unsettled' \ job'.todo
        /\ job'.stage # "next" => job'.market \in Markets \cap unsettled' /\ job'.market \notin job'.settled \cup job'.todo
    BY <2>2, <2>3
  <2>7. RefreshFits'
    BY <2>2, <2>3, <2>4, <2>5, <2>6 DEF RefreshFits
  <2>8. job' \in Jobs /\ job' # NoJob /\ job'.kind # "rollback"
    BY <2>2, JobsInclude DEF NoJob
  <2> QED
    <3>1. RowsFit(db, unsettled', source')
      BY <1>1, FitStays
    <3>2. SkillsTypeOK'
      BY <1>1, <2>8 DEF SkillsInv, SkillsTypeOK, skillBounds
    <3> QED
      BY <2>7, <2>8, <3>1, <3>2 DEF SkillsInv, Fits, IdleFits, RollbackFits
<1>3. CASE job.kind # "refresh"
  <2>1. job' = job
    BY <1>3
  <2>2. RowsFit(db, unsettled', source')
    BY <1>1, FitStays
  <2>3. SkillsTypeOK'
    BY <1>1, <2>1 DEF SkillsInv, SkillsTypeOK, skillBounds
  <2>4. RollbackFits'
    <3> SUFFICES ASSUME job.kind = "rollback" PROVE RollbackFits'
      BY <2>1 DEF RollbackFits
    <3>1. LET row == db.skill[job.skill]
          IN /\ row.there /\ row.from \in Markets /\ row.from \in unsettled /\ tx.skill = db.skill
             /\ job.stage = "next" => source[row.from] \in {Gone, job.version}
      BY RollbackFacts
    <3>2. job.stage = "next" => source'[db.skill[job.skill].from] \in {Gone, job.version}
      BY <1>1, <3>1
    <3> QED
      BY <2>1, <3>1, <3>2 DEF RollbackFits
  <2> QED
    BY <1>3, <2>1, <2>2, <2>3, <2>4 DEF SkillsInv, Fits, IdleFits, RefreshFits
<1> QED
  BY <1>2, <1>3

\* An artifact that is protected is not deleted: no item but itself lies above it.
LEMMA ArtifactsSpared ==
    ASSUME NEW item \in CleanupItems, item \notin RowItems, NEW p \in ArtifactPaths, IsPrefix(item, p),
           NEW protected, p \in protected
    PROVE  IsProtected(item, protected)
<1>1. PICK a \in Artifacts : p = <<"artifacts", a>>
  BY DEF ArtifactPaths
<1>2. PICK x, y : item = <<x, y>>
  BY DEF CleanupItems, FileItems, DirectoryItems, ArtifactPaths
<1>3. SubSeq(item, 1, 2) = SubSeq(<<"artifacts", a>>, 1, 2)
  BY <1>1, <1>2 DEF IsPrefix
<1>4. item = p
  BY <1>1, <1>2, <1>3
<1>5. IsPrefix(p, p)
  BY <1>1 DEF IsPrefix
<1> QED
  BY <1>4, <1>5 DEF IsProtected

LEMMA CleanItemKeeps ==
    ASSUME StorageInv, NEW item \in CleanupItems, NEW outcome \in {"spared", "missing", "error", "deleted"},
           CleanItem(item, outcome)
    PROVE  StorageInv'
<1>1. /\ cleaning \in Executions /\ Cleaning /\ item \in cleaning.left
      /\ UNCHANGED <<episodePaths, drafts, checkpoints, made, plan, records, raced>>
  BY DEF CleanItem, Cleaning, StorageInv, StorageTyped
<1>2. /\ cleaning' \in Executions /\ cleaning'.left = cleaning.left \ {item}
      /\ cleaning'.gone \subseteq cleaning.gone \cup {item} /\ cleaning'.protected = cleaning.protected
  <2> DEFINE gone == IF outcome = "deleted" THEN cleaning.gone \cup {item} ELSE cleaning.gone
             failed == cleaning.failed \/ outcome = "error"
  <2>1. cleaning' = [cleaning EXCEPT !.left = cleaning.left \ {item}, !.failed = failed, !.gone = gone]
    BY DEF CleanItem
  <2>2. gone \in SUBSET CleanupItems /\ failed \in BOOLEAN /\ gone \subseteq cleaning.gone \cup {item}
    BY <1>1 DEF Executions
  <2> HIDE DEF gone, failed
  <2> QED
    BY <1>1, <2>1, <2>2 DEF Executions
<1>3. CASE outcome = "deleted" /\ item \notin RowItems
  <2>1. /\ files' = {f \in files : ~IsPrefix(item, f)} /\ draftDirs' \subseteq draftDirs
        /\ oldItems' = oldItems \ {item} /\ deleted' = deleted \cup {item}
    BY <1>3 DEF CleanItem
  <2>2. SkillsInv'
    <3> DEFINE gone == {m \in Markets : item = <<"market-cache", m>>}
    <3>1. gone \in SUBSET Markets
      OBVIOUS
    <3>2. /\ source' = [m \in Markets |-> IF m \in gone THEN Gone ELSE source[m]]
          /\ snapshots' = [m \in Markets |-> IF m \in gone THEN {} ELSE snapshots[m]]
          /\ unsettled' = unsettled \cup gone
          /\ UNCHANGED <<marketOn, origin, db, tx, skillBounds>>
      BY <1>3 DEF CleanItem
    <3>3. job' = IF job.kind # "refresh" THEN job ELSE [job EXCEPT !.settled = job.settled \ gone]
      <4>1. CASE job.kind # "refresh"
        BY <1>3, <4>1 DEF CleanItem
      <4>2. CASE job.kind = "refresh"
        <5>1. job \in RefreshJobs
          BY <4>2, JobKinds DEF StorageInv, SkillsInv
        <5>2. {m \in job.settled : item # <<"market-cache", m>>} = job.settled \ gone
          BY <5>1 DEF RefreshJobs
        <5>3. job' = [job EXCEPT !.settled = {m \in job.settled : item # <<"market-cache", m>>}]
          BY <1>3, <4>2 DEF CleanItem
        <5> QED
          BY <4>2, <5>2, <5>3
      <4> QED
        BY <4>1, <4>2
    <3> HIDE DEF gone
    <3> QED
      BY <3>1, <3>2, <3>3, SkillsInvCleaned DEF StorageInv
  <2>3. StorageTyped'
    BY <1>1, <1>2, <2>1 DEF StorageInv, StorageTyped
  <2>4. EpisodeArtifactsKept'
    <3> SUFFICES ASSUME NEW p \in ArtifactPaths, p \in episodePaths \ raced PROVE p \in files'
      BY <1>1 DEF EpisodeArtifactsKept
    <3>1. p \in files /\ p \in cleaning.protected
      BY <1>1 DEF StorageInv, ReferencedDataIsKept, EpisodeArtifactsKept, RecordedIsProtected
    <3>2. ~IsProtected(item, cleaning.protected)
      BY <1>3 DEF CleanItem
    <3>3. ~IsPrefix(item, p)
      BY <1>3, <3>1, <3>2, ArtifactsSpared
    <3> QED
      BY <2>1, <3>1, <3>3
  <2> QED
    BY <1>1, <1>2, <2>2, <2>3, <2>4
       DEF StorageInv, PlansAreOld, RowsAreOld, Cleaning, RecordedIsProtected, ReferencedDataIsKept, LatestCheckpointKept
<1>4. CASE ~(outcome = "deleted" /\ item \notin RowItems)
  <2>1. UNCHANGED <<files, draftDirs, source, snapshots, unsettled, job, oldItems, deleted, marketOn, origin, db, tx, skillBounds>>
    BY <1>4 DEF CleanItem
  <2>2. SkillsInv'
    BY <2>1, SkillsInvSame DEF StorageInv, skillVars, skillBounds
  <2>3. StorageTyped'
    BY <1>1, <1>2, <2>1 DEF StorageInv, StorageTyped
  <2>4. EpisodeArtifactsKept'
    BY <1>1, <2>1 DEF StorageInv, ReferencedDataIsKept, EpisodeArtifactsKept
  <2> QED
    BY <1>1, <1>2, <2>2, <2>3, <2>4
       DEF StorageInv, PlansAreOld, RowsAreOld, Cleaning, RecordedIsProtected, ReferencedDataIsKept, LatestCheckpointKept
<1> QED
  BY <1>3, <1>4

LEMMA EndCleanupKeeps ==
    ASSUME StorageInv, EndCleanup
    PROVE  StorageInv'
<1>1. SkillsInv'
  BY SkillsInvSame DEF StorageInv, EndCleanup
<1>2. /\ Cleaning /\ cleaning \in Executions /\ cleaning' = NotCleaning
      /\ UNCHANGED <<files, oldItems, episodePaths, drafts, draftDirs, made, plan, deleted, raced>>
  BY DEF EndCleanup, Cleaning, StorageInv, StorageTyped
<1>3. /\ made \in [HomeRuns -> Nat] /\ checkpoints \in [HomeRuns -> SUBSET Nat]
      /\ \A r \in HomeRuns : made[r] \in Nat /\ checkpoints[r] \subseteq 1..made[r]
      /\ RowsAreOld(cleaning.gone)
  BY <1>2 DEF StorageInv, StorageTyped, PlansAreOld
<1>4. /\ records' \subseteq CleanupItems /\ checkpoints' \in [HomeRuns -> SUBSET Nat]
      /\ \A r \in HomeRuns : /\ checkpoints'[r] \subseteq checkpoints[r]
                             /\ made[r] \in checkpoints[r] => made[r] \in checkpoints'[r]
  <2>1. CASE cleaning.failed
    BY <1>3, <2>1 DEF EndCleanup, StorageInv, StorageTyped
  <2>2. CASE ~cleaning.failed
    <3>1. /\ checkpoints' = [r \in HomeRuns |-> {n \in checkpoints[r] : <<"checkpoint", r, n>> \notin cleaning.gone}]
          /\ records' = records \cup cleaning.gone
      BY <2>2 DEF EndCleanup
    <3>2. records' \subseteq CleanupItems
      BY <1>2, <3>1 DEF StorageInv, StorageTyped, Executions
    <3>3. \A r \in HomeRuns : <<"checkpoint", r, made[r]>> \notin cleaning.gone
      BY <1>3 DEF RowsAreOld
    <3> QED
      BY <1>3, <3>1, <3>2, <3>3
  <2> QED
    BY <2>1, <2>2
<1>5. StorageTyped'
  BY <1>2, <1>3, <1>4 DEF StorageInv, StorageTyped
<1>6. ReferencedDataIsKept'
  BY <1>2, <1>3, <1>4 DEF StorageInv, ReferencedDataIsKept, LatestCheckpointKept, EpisodeArtifactsKept
<1> QED
  BY <1>1, <1>2, <1>5, <1>6 DEF StorageInv, PlansAreOld, RowsAreOld, RecordedIsProtected, Cleaning

LEMMA CrashCleanupKeeps ==
    ASSUME StorageInv, CrashCleanup
    PROVE  StorageInv'
<1>1. /\ cleaning' = NotCleaning /\ skillCrashes' = skillCrashes + 1
      /\ UNCHANGED <<files, oldItems, episodePaths, drafts, draftDirs, checkpoints, made, plan, records, deleted, raced>>
      /\ UNCHANGED <<marketOn, origin, source, snapshots, db, tx, job, unsettled, edits>>
  BY DEF CrashCleanup, skillFiles
<1>2. SkillsInv'
  <2>1. SkillsTypeOK'
    BY <1>1 DEF StorageInv, SkillsInv, SkillsTypeOK
  <2> QED
    BY <1>1, <2>1, FitsSame DEF StorageInv, SkillsInv
<1>3. StorageTyped'
  BY <1>1 DEF StorageInv, StorageTyped
<1> QED
  BY <1>1, <1>2, <1>3 DEF StorageInv, PlansAreOld, RowsAreOld, RecordedIsProtected, Cleaning, ReferencedDataIsKept,
                          LatestCheckpointKept, EpisodeArtifactsKept

LEMMA SkillsStepKeeps ==
    ASSUME StorageInv, SkillsStep
    PROVE  StorageInv'
<1>1. SkillsInv'
  BY SkillsNextKeeps DEF StorageInv, SkillsStep
<1>2. /\ oldItems' \subseteq oldItems
      /\ UNCHANGED <<files, episodePaths, drafts, draftDirs, checkpoints, made, plan, cleaning, records, deleted, raced>>
  BY DEF SkillsStep
<1>3. StorageTyped'
  BY <1>2 DEF StorageInv, StorageTyped
<1> QED
  BY <1>1, <1>2, <1>3, KeptSame DEF StorageInv

LEMMA StorageInvNext ==
    ASSUME StorageInv, [StorageNext]_homeVars
    PROVE  StorageInv'
<1>1. CASE StartCleanup(CleanupPlan)
  BY <1>1, OldPlan, StartCleanupKeeps
<1>2. CASE plan # NoPlan /\ StartCleanup(plan.items)
  <2>1. plan.items \in SUBSET CleanupItems /\ RowsAreOld(plan.items)
    BY <1>2 DEF StorageInv, StorageTyped, PlansAreOld
  <2> QED
    BY <1>2, <2>1, StartCleanupKeeps
<1>3. CASE UNCHANGED homeVars
  <2>1. UNCHANGED storageVars /\ UNCHANGED skillVars
    BY <1>3 DEF homeVars
  <2>2. SkillsInv'
    BY <2>1, SkillsInvSame DEF StorageInv
  <2>3. StorageTyped'
    BY <2>1 DEF StorageInv, StorageTyped, storageVars
  <2> QED
    BY <2>1, <2>2, <2>3, KeptSame DEF StorageInv, storageVars
<1> QED
  BY <1>1, <1>2, <1>3, WriteKeeps, AgeOrPromoteKeeps, CheckpointKeeps, PlanKeeps, CleanItemKeeps, EndCleanupKeeps,
     CrashCleanupKeeps, SkillsStepKeeps DEF StorageNext, StorageStep

LEMMA StorageInvHolds == StorageSpec => []StorageInv
BY StorageInvInit, StorageInvNext, PTL DEF StorageSpec

\* Markets, rows, files, plans and cleanups have the values the code gives them.
THEOREM StorageTypeCorrect == StorageSpec => []StorageTypeOK
<1>1. StorageInv => StorageTypeOK
  BY DEF StorageInv, SkillsInv, StorageTyped, StorageTypeOK
<1> QED
  BY <1>1, StorageInvHolds, PTL

\* However refreshes, installs, rollbacks, cleanups and killed commands interleave with the
\* edits of the markets' owners, a skill that is on has in its directory what its row says,
\* once the registration of what is there was committed.
THEOREM EnabledSkillsAlwaysLoad == StorageSpec => []EnabledSkillsLoad
<1>1. StorageInv => EnabledSkillsLoad
  BY FitsImplyLoads DEF StorageInv
<1> QED
  BY <1>1, StorageInvHolds, PTL

\* No cleanup, however old its plan, deletes the last checkpoint of a run or an artifact an
\* episode referred to before the cleanup began.
THEOREM ReferencedDataIsAlwaysKept == StorageSpec => []ReferencedDataIsKept
<1>1. StorageInv => ReferencedDataIsKept
  BY DEF StorageInv
<1> QED
  BY <1>1, StorageInvHolds, PTL

-----------------------------------------------------------------------------
(* The lock of the initialisation: type correctness.                         *)

LEMMA NextTyped ==
    ASSUME TypeOK, [Next]_vars
    PROVE  TypeOK'
<1>1. ASSUME NEW p \in Processes, Step(p) PROVE TypeOK'
  <2>1. CASE TakeLock(p)
    BY <2>1 DEF TypeOK, TakeLock, Goto
  <2>2. CASE SeeStale(p)
    BY <2>2 DEF TypeOK, SeeStale, Goto
  <2>3. CASE RemoveStale(p)
    BY <2>3 DEF TypeOK, RemoveStale, Goto
  <2>4. CASE TimeOut(p)
    BY <2>4 DEF TypeOK, TimeOut, Goto
  <2>5. CASE Release(p)
    BY <2>5 DEF TypeOK, Release, Goto
  <2>6. CASE ReadColumns(p)
    BY <2>6 DEF TypeOK, ReadColumns
  <2>7. CASE AddColumn(p)
    <3>1. PICK c \in process[p].missing \ columns :
            /\ columns' = columns \cup {c}
            /\ process' = [process EXCEPT ![p].missing = process[p].missing \ {c}]
      BY <2>7 DEF AddColumn
    <3>2. c \in Columns /\ process[p].missing \ {c} \in SUBSET Columns
      BY DEF TypeOK
    <3> QED
      BY <2>7, <3>1, <3>2 DEF TypeOK, AddColumn
  <2>8. CASE ColumnExists(p)
    BY <2>8 DEF TypeOK, ColumnExists, Goto
  <2>9. CASE AllAdded(p)
    BY <2>9 DEF TypeOK, AllAdded, Goto
  <2> QED
    BY <1>1, <2>1, <2>2, <2>3, <2>4, <2>5, <2>6, <2>7, <2>8, <2>9 DEF Step
<1>2. ASSUME NEW p \in Processes, Crash(p) PROVE TypeOK'
  <2>1. crashes' \in 0..MaxCrashes
    BY <1>2, BoundsAssumption DEF TypeOK, Crash
  <2> QED
    BY <1>2, <2>1 DEF TypeOK, Crash, Goto
<1>3. CASE FileAges
  <2>1. expiries' \in 0..MaxExpiries
    BY <1>3, BoundsAssumption DEF TypeOK, FileAges
  <2> QED
    BY <1>3, <2>1 DEF TypeOK, FileAges
<1>4. CASE UNCHANGED vars
  BY <1>4 DEF TypeOK, vars
<1> QED
  BY <1>1, <1>2, <1>3, <1>4 DEF Next

\* Every variable keeps its type.
THEOREM TypeCorrect == Spec => []TypeOK
<1>1. Init => TypeOK
  <2> SUFFICES ASSUME Init PROVE TypeOK
    OBVIOUS
  <2>1. crashes = 0 /\ expiries = 0
    BY DEF Init
  <2>2. crashes \in 0..MaxCrashes /\ expiries \in 0..MaxExpiries
    BY <2>1, BoundsAssumption
  <2> QED
    BY <2>2 DEF Init, TypeOK, Idle
<1> QED
  BY <1>1, NextTyped, PTL DEF Spec

-----------------------------------------------------------------------------
(* The schema.                                                               *)

\* A process that adds columns, or has done so, overlooks none that the table lacks.
NothingOverlooked ==
    \A p \in Processes :
        /\ process[p].pc \in {"adding", "releasing"} => Columns \ columns \subseteq process[p].missing
        /\ process[p].pc = "ready" => columns = Columns

LEMMA NothingOverlookedPreserved ==
    ASSUME TypeOK, NothingOverlooked, [Next]_vars
    PROVE  NothingOverlooked'
<1>1. ASSUME NEW p \in Processes, Step(p) PROVE NothingOverlooked'
  <2>1. CASE TakeLock(p) \/ SeeStale(p) \/ RemoveStale(p) \/ TimeOut(p)
    BY <2>1 DEF TypeOK, NothingOverlooked, TakeLock, SeeStale, RemoveStale, TimeOut, Goto
  <2>2. CASE Release(p)
    BY <2>2 DEF TypeOK, NothingOverlooked, Release, Goto
  <2>3. CASE ReadColumns(p)
    BY <2>3 DEF TypeOK, NothingOverlooked, ReadColumns
  <2>4. CASE AddColumn(p)
    <3>1. PICK c \in process[p].missing \ columns :
            /\ columns' = columns \cup {c}
            /\ process' = [process EXCEPT ![p].missing = process[p].missing \ {c}]
      BY <2>4 DEF AddColumn
    <3>2. c \in Columns
      BY DEF TypeOK
    <3>3. \A q \in Processes : /\ process'[q].pc = process[q].pc
                               /\ process'[q].missing = IF q = p THEN process[p].missing \ {c}
                                                                 ELSE process[q].missing
      BY <3>1 DEF TypeOK
    <3> QED
      BY <3>1, <3>2, <3>3 DEF NothingOverlooked
  <2>5. CASE ColumnExists(p) \/ AllAdded(p)
    BY <2>5 DEF TypeOK, NothingOverlooked, ColumnExists, AllAdded, Goto
  <2> QED
    BY <1>1, <2>1, <2>2, <2>3, <2>4, <2>5 DEF Step
<1>2. ASSUME NEW p \in Processes, Crash(p) PROVE NothingOverlooked'
  BY <1>2 DEF TypeOK, NothingOverlooked, Crash, Goto
<1>3. CASE FileAges \/ UNCHANGED vars
  BY <1>3 DEF NothingOverlooked, FileAges, vars
<1> QED
  BY <1>1, <1>2, <1>3 DEF Next

\* A process whose initialisation succeeded has the whole schema, however many others
\* initialise, die or take over the lock meanwhile: a collision raises, it never passes.
THEOREM SchemaIsComplete == Spec => []ReadyMeansComplete
<1>1. Init => NothingOverlooked
  <2> SUFFICES ASSUME Init, NEW p \in Processes
               PROVE  /\ process[p].pc \in {"adding", "releasing"}
                         => Columns \ columns \subseteq process[p].missing
                      /\ process[p].pc = "ready" => columns = Columns
    BY Zenon DEF NothingOverlooked
  <2>1. process[p] = Idle
    BY DEF Init
  <2>2. Idle.pc = "waiting"
    BY DEF Idle
  <2> QED
    BY <2>1, <2>2
<1>2. TypeOK /\ NothingOverlooked /\ [Next]_vars => NothingOverlooked'
  BY NothingOverlookedPreserved
<1>3. NothingOverlooked => ReadyMeansComplete
  BY DEF NothingOverlooked, ReadyMeansComplete
<1> QED
  BY <1>1, <1>2, <1>3, TypeCorrect, PTL DEF Spec

-----------------------------------------------------------------------------
(* The lock.                                                                 *)

\* Until a lock file grows old, only the process that created it is at work, nobody is
\* about to remove it, and what a process found missing is missing.
LockHeld ==
    expiries = 0 =>
        /\ ~old
        /\ \A p \in Processes : /\ process[p].pc # "unlinking"
                                /\ p \in Inside => file = p
                                /\ process[p].pc = "adding" => process[p].missing \cap columns = {}

LEMMA LockHeldInit == Init => LockHeld
<1> SUFFICES ASSUME Init PROVE LockHeld
  OBVIOUS
<1>1. ~old
  BY DEF Init
<1>2. \A p \in Processes : process[p].pc = "waiting"
  BY DEF Init, Idle
<1>3. \A p \in Processes : p \notin Inside
  BY <1>2 DEF Inside
<1> QED
  BY <1>1, <1>2, <1>3 DEF LockHeld

LEMMA LockHeldPreserved ==
    ASSUME TypeOK, LockHeld, [Next]_vars
    PROVE  LockHeld'
<1> SUFFICES ASSUME expiries' = 0 PROVE LockHeld'
  BY DEF LockHeld
<1>1. ASSUME NEW p \in Processes, Step(p) PROVE LockHeld'
  <2>1. CASE TakeLock(p)
    BY <2>1, NoFileAssumption DEF TypeOK, LockHeld, TakeLock, Goto, Inside
  <2>2. CASE SeeStale(p) \/ RemoveStale(p) \/ TimeOut(p)
    BY <2>2 DEF TypeOK, LockHeld, SeeStale, RemoveStale, TimeOut, Goto, Inside
  <2>3. CASE Release(p)
    BY <2>3 DEF TypeOK, LockHeld, Release, Goto, Inside
  <2>4. CASE ReadColumns(p)
    BY <2>4 DEF TypeOK, LockHeld, ReadColumns, Inside
  <2>5. CASE AddColumn(p)
    <3>1. PICK c \in process[p].missing \ columns :
            /\ columns' = columns \cup {c}
            /\ process' = [process EXCEPT ![p].missing = process[p].missing \ {c}]
      BY <2>5 DEF AddColumn
    <3>2. \A q \in Processes : /\ process'[q].pc = process[q].pc
                               /\ process'[q].missing = IF q = p THEN process[p].missing \ {c}
                                                                 ELSE process[q].missing
      BY <3>1 DEF TypeOK
    <3>3. UNCHANGED <<file, old, expiries>> /\ process[p].pc = "adding"
      BY <2>5 DEF AddColumn
    <3>4. \A q \in Processes : q \in Inside' <=> q \in Inside
      BY <3>2 DEF Inside
    <3>5. \A q \in Processes : process[q].pc = "adding" => q = p
      BY <3>3 DEF LockHeld, Inside
    <3> QED
      BY <3>1, <3>2, <3>3, <3>4, <3>5 DEF LockHeld
  <2>6. CASE ColumnExists(p) \/ AllAdded(p)
    BY <2>6 DEF TypeOK, LockHeld, ColumnExists, AllAdded, Goto, Inside
  <2> QED
    BY <1>1, <2>1, <2>2, <2>3, <2>4, <2>5, <2>6 DEF Step
<1>2. ASSUME NEW p \in Processes, Crash(p) PROVE LockHeld'
  BY <1>2 DEF TypeOK, LockHeld, Crash, Goto, Inside
<1>3. CASE FileAges
  BY <1>3 DEF TypeOK, FileAges
<1>4. CASE UNCHANGED vars
  BY <1>4 DEF LockHeld, Inside, vars
<1> QED
  BY <1>1, <1>2, <1>3, <1>4 DEF Next

\* The lock excludes, for any number of processes and crashes, until a file grows old.
THEOREM LockExcludes == Spec => []ExclusiveUntilExpiry
<1>1. Init => LockHeld
  BY LockHeldInit
<1>2. TypeOK /\ LockHeld /\ [Next]_vars => LockHeld'
  BY LockHeldPreserved
<1>3. LockHeld => ExclusiveUntilExpiry
  BY DEF LockHeld, Inside, ExclusiveUntilExpiry
<1> QED
  BY <1>1, <1>2, <1>3, TypeCorrect, PTL DEF Spec

\* So initialisations collide in the schema only after a lock file grew old.
THEOREM NoCollisions == Spec => []CollisionsNeedExpiries
<1>1. Init => LockHeld
  BY LockHeldInit
<1>2. TypeOK /\ LockHeld /\ [Next]_vars => LockHeld'
  BY LockHeldPreserved
<1>3. LockHeld => CollisionsNeedExpiries
  BY DEF LockHeld, CollisionsNeedExpiries
<1> QED
  BY <1>1, <1>2, <1>3, TypeCorrect, PTL DEF Spec

\* The process that created the lock file is at work or was killed.
CreatorKnown == file # NoFile => file \in Inside \/ process[file].pc = "dead"

LEMMA CreatorKnownPreserved ==
    ASSUME TypeOK, CreatorKnown, [Next]_vars
    PROVE  CreatorKnown'
<1>1. ASSUME NEW p \in Processes, Step(p) PROVE CreatorKnown'
  <2>1. CASE TakeLock(p)
    BY <2>1 DEF TypeOK, CreatorKnown, TakeLock, Goto, Inside
  <2>2. CASE SeeStale(p) \/ TimeOut(p)
    BY <2>2 DEF TypeOK, CreatorKnown, SeeStale, TimeOut, Goto, Inside
  <2>3. CASE RemoveStale(p) \/ Release(p)
    BY <2>3 DEF CreatorKnown, RemoveStale, Release
  <2>4. CASE ReadColumns(p)
    BY <2>4 DEF TypeOK, CreatorKnown, ReadColumns, Inside
  <2>5. CASE AddColumn(p)
    <3>1. PICK c \in process[p].missing \ columns :
            process' = [process EXCEPT ![p].missing = process[p].missing \ {c}]
      BY <2>5 DEF AddColumn
    <3>2. \A q \in Processes : process'[q].pc = process[q].pc
      BY <3>1 DEF TypeOK
    <3>3. UNCHANGED file
      BY <2>5 DEF AddColumn
    <3> QED
      BY <3>2, <3>3 DEF TypeOK, CreatorKnown, Inside
  <2>6. CASE ColumnExists(p) \/ AllAdded(p)
    BY <2>6 DEF TypeOK, CreatorKnown, ColumnExists, AllAdded, Goto, Inside
  <2> QED
    BY <1>1, <2>1, <2>2, <2>3, <2>4, <2>5, <2>6 DEF Step
<1>2. ASSUME NEW p \in Processes, Crash(p) PROVE CreatorKnown'
  BY <1>2 DEF TypeOK, CreatorKnown, Crash, Goto, Inside
<1>3. CASE FileAges \/ UNCHANGED vars
  BY <1>3 DEF CreatorKnown, FileAges, Inside, vars
<1> QED
  BY <1>1, <1>2, <1>3 DEF Next

\* No lock file is left behind except by a process that was killed, even when processes
\* remove the files of others.
THEOREM FilesAreGivenBack == Spec => []FileStaysOnlyByCrash
<1>1. Init => CreatorKnown
  BY DEF Init, CreatorKnown
<1>2. TypeOK /\ CreatorKnown /\ [Next]_vars => CreatorKnown'
  BY CreatorKnownPreserved
<1>3. CreatorKnown => FileStaysOnlyByCrash
  BY DEF CreatorKnown, FileStaysOnlyByCrash
<1> QED
  BY <1>1, <1>2, <1>3, TypeCorrect, PTL DEF Spec

\* What a caller of init_database may count on, of any number of processes: the whole schema,
\* a lock that excludes until a lock file grows old, and lock files that only a killed process
\* leaves behind.
THEOREM InitialisationIsAlwaysSound == Spec => []InitialisationIsSound
<1>1. ReadyMeansComplete /\ ExclusiveUntilExpiry /\ FileStaysOnlyByCrash => InitialisationIsSound
  BY DEF InitialisationIsSound
<1> QED  BY <1>1, SchemaIsComplete, LockExcludes, FilesAreGivenBack, PTL

================================================================================
