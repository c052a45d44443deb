----------------------------- MODULE SkillMarket -----------------------------
(***************************************************************************)
(* Skills that come from markets (core/skills.py and the commands skills,  *)
(* skills markets and extensions of cli.py).  A market is a directory that *)
(* its owner edits; a refresh copies it to skills/market-cache/<market>/   *)
(* source, keeps a snapshot of every valid version and registers what it   *)
(* found.  The files change at once, the rows only when the command        *)
(* commits: a refresh that raises or is killed leaves new files with old   *)
(* rows.  Every command writes first (ensure_builtin_skills), so that one  *)
(* command at a time holds SQLite's write lock; the steps of a refresh     *)
(* and of a rollback interleave with what touches files only.              *)
(*                                                                         *)
(* A bundle is its version, Broken when it does not load, Empty when the   *)
(* directory has no skill in it and Gone when there is no directory.       *)
(***************************************************************************)
EXTENDS Naturals

CONSTANTS
  Markets,        \* the names of markets
  Skills,         \* the ids of skills
  SkillOf,        \* the skill that a market offers; two markets may offer one
  MaxVersion,     \* versions of a bundle
  Broken,         \* a bundle that does not load
  Empty,          \* a directory without a bundle
  Gone,           \* no directory
  MaxEdits,       \* bound: changes of a market by its owner
  MaxSkillCrashes \* bound: commands that are killed

ASSUME SkillAssumption ==
  /\ SkillOf \in [Markets -> Skills]
  /\ MaxVersion \in Nat
  /\ Broken \notin Nat /\ Empty \notin Nat /\ Gone \notin Nat
  /\ Broken # Empty /\ Broken # Gone /\ Empty # Gone
  /\ MaxEdits \in Nat
  /\ MaxSkillCrashes \in Nat

NoMarket == "no market"
NoSkill == [there |-> FALSE]
NoInstall == "no skill"

Versions == 1..MaxVersion
Bundles == Versions \cup {Broken, Empty, Gone}
MarketOrNone == Markets \cup {NoMarket}
SkillRow == [there : {TRUE}, on : BOOLEAN, version : Versions, from : Markets]
Statuses == {"enabled", "disabled", "quarantined"}
Tables == [skill : [Skills -> SkillRow \cup {NoSkill}],
           ext : [Skills -> [status : Statuses, version : Versions \cup {Broken}]
                            \cup {NoSkill}],
           snapshot : [Skills -> [Versions -> MarketOrNone]]]

NoJob == [kind |-> "none"]
Jobs == {NoJob}
        \cup [kind : {"refresh"}, todo : SUBSET Markets, market : MarketOrNone,
              stage : {"next", "copy", "register"}, settled : SUBSET Markets,
              install : Skills \cup {NoInstall}]
        \cup [kind : {"rollback"}, skill : Skills, version : Versions,
              stage : {"copy", "next"}]

VARIABLES
  marketOn,   \* skill_markets.enabled
  origin,     \* what the market's own directory holds
  source,     \* market-cache/<market>/source
  snapshots,  \* market-cache/<market>/snapshots, the versions that are there
  db,         \* the committed rows
  tx,         \* the rows as the command that holds the write lock sees them
  job,        \* that command, between its steps
  unsettled,  \* history: markets whose source changed since it was last registered or whose
              \* skill was enabled though it does not load
  edits,      \* bound
  skillCrashes \* bound

skillVars == <<marketOn, origin, source, snapshots, db, tx, job, unsettled, edits, skillCrashes>>
skillFiles == <<source, snapshots>>
skillBounds == <<edits, skillCrashes>>

NoTables == [skill |-> [s \in Skills |-> NoSkill],
             ext |-> [s \in Skills |-> NoSkill],
             snapshot |-> [s \in Skills |-> [v \in Versions |-> NoMarket]]]

SkillsInit ==
  /\ marketOn = [m \in Markets |-> FALSE]
  /\ origin = [m \in Markets |-> IF MaxVersion = 0 THEN Empty ELSE 1]
  /\ source = [m \in Markets |-> Gone]
  /\ snapshots = [m \in Markets |-> {}]
  /\ db = NoTables /\ tx = NoTables
  /\ job = NoJob
  /\ unsettled = {}
  /\ edits = 0 /\ skillCrashes = 0

SkillsIdle == job = NoJob

(***************************************************************************)
(* The rows a registration writes.                                         *)
(***************************************************************************)
\* upsert_extension: the record takes every value; a version row is added
\* once, with the snapshot of the market that brought it first.
WithExtension(t, s, status, version, from) ==
  [t EXCEPT !.ext[s] = [status |-> status, version |-> version],
            !.snapshot[s] =
              IF version \in Versions /\ @[version] = NoMarket /\ status # "quarantined"
              THEN [@ EXCEPT ![version] = from] ELSE @]

FaultyUpserted(t, s, version, from) ==   \* an update takes enabled from the manifest
  WithExtension([t EXCEPT !.skill[s] = [there |-> TRUE, on |-> TRUE, version |-> version,
                                        from |-> from]], s, "enabled", version, from)

\* upsert_skill: an update leaves enabled as it is.  Bundles of a market are
\* enabled in their manifests.
Upserted(t, s, version, from) ==
  LET on == IF t.skill[s].there THEN t.skill[s].on ELSE TRUE
      row == [there |-> TRUE, on |-> on, version |-> version, from |-> from]
  IN  WithExtension([t EXCEPT !.skill[s] = row], s,
                    IF on THEN "enabled" ELSE "disabled", version, from)

FaultyQuarantined(t, s, from) ==   \* only the extension is quarantined
  WithExtension(t, s, "quarantined", Broken, from)

\* _quarantine_bundle: the skill is switched off, whichever market it is from.
Quarantined(t, s, from) ==
  WithExtension([t EXCEPT !.skill[s] = IF @.there THEN [@ EXCEPT !.on = FALSE] ELSE @],
                s, "quarantined", Broken, from)

\* _set_skill_enabled and skills install: row and record, without a look at
\* the bundle or at a quarantine.
Switched(t, s, on) ==
  [t EXCEPT !.skill[s] = [@ EXCEPT !.on = on],
            !.ext[s] = IF @ = NoSkill THEN @
                       ELSE [@ EXCEPT !.status = IF on THEN "enabled" ELSE "disabled"]]

\* skills validate: only the extension record follows the bundle.
BundleLoads(t, s) == source[t.skill[s].from] \in Versions
Validated(t) ==
  [t EXCEPT !.ext = [s \in Skills |->
     IF ~t.skill[s].there \/ @[s] = NoSkill THEN @[s]
     ELSE IF ~BundleLoads(t, s) THEN [@[s] EXCEPT !.status = "quarantined"]
     ELSE IF @[s].status # "quarantined" THEN @[s]
     ELSE [@[s] EXCEPT !.status = IF t.skill[s].on THEN "enabled" ELSE "disabled"]]]

(***************************************************************************)
(* Commands of one transaction.                                            *)
(***************************************************************************)
CommitTables(t) == db' = t /\ tx' = t

AddMarket(m) ==
  /\ SkillsIdle /\ ~marketOn[m] /\ origin[m] # Gone
  /\ marketOn' = [marketOn EXCEPT ![m] = TRUE]
  /\ UNCHANGED <<origin, skillFiles, db, tx, job, unsettled, skillBounds>>

RemoveMarket(m) ==
  /\ SkillsIdle /\ marketOn[m]
  /\ marketOn' = [marketOn EXCEPT ![m] = FALSE]
  /\ UNCHANGED <<origin, skillFiles, db, tx, job, unsettled, skillBounds>>

\* What the market's owner does to the directory, at any time.
EditMarket(m, bundle) ==
  /\ edits < MaxEdits /\ bundle # origin[m]
  /\ edits' = edits + 1
  /\ origin' = [origin EXCEPT ![m] = bundle]
  /\ UNCHANGED <<marketOn, skillFiles, db, tx, job, unsettled, skillCrashes>>

SwitchSkill(s, on) ==
  /\ SkillsIdle /\ db.skill[s].there
  /\ Switched(db, s, on) # db
  /\ CommitTables(Switched(db, s, on))
  /\ unsettled' = IF on /\ ~BundleLoads(db, s) THEN unsettled \cup {db.skill[s].from} ELSE unsettled
  /\ UNCHANGED <<marketOn, origin, skillFiles, job, skillBounds>>

ValidateSkills ==
  /\ SkillsIdle /\ Validated(db) # db
  /\ CommitTables(Validated(db))
  /\ UNCHANGED <<marketOn, origin, skillFiles, job, unsettled, skillBounds>>

(***************************************************************************)
(* skills refresh, and skills install of a skill that has no row yet.      *)
(***************************************************************************)
StartRefresh(install) ==
  /\ SkillsIdle
  /\ install # NoInstall => ~db.skill[install].there
  /\ \E m \in Markets : marketOn[m]
  /\ job' = [kind |-> "refresh", todo |-> {m \in Markets : marketOn[m]}, market |-> NoMarket,
             stage |-> "next", settled |-> {}, install |-> install]
  /\ UNCHANGED <<marketOn, origin, skillFiles, db, tx, unsettled, skillBounds>>

Refreshing(stage) == job.kind = "refresh" /\ job.stage = stage

\* session_scope: what was written is rolled back; files stay as they are.
RolledBack == tx' = db /\ job' = NoJob

\* _ensure_cache_target.
RemoveSource(m) ==
  /\ Refreshing("next") /\ m \in job.todo
  /\ job' = [job EXCEPT !.todo = @ \ {m}, !.market = m, !.stage = "copy"]
  /\ source' = [source EXCEPT ![m] = Gone]
  /\ unsettled' = unsettled \cup {m}
  /\ UNCHANGED <<marketOn, origin, snapshots, db, tx, skillBounds>>

\* _prepare_market_source: copytree raises when the directory is gone.
CopySource ==
  /\ Refreshing("copy")
  /\ IF origin[job.market] = Gone
     THEN RolledBack /\ UNCHANGED source
     ELSE /\ source' = [source EXCEPT ![job.market] = origin[job.market]]
          /\ job' = [job EXCEPT !.stage = "register"]
          /\ UNCHANGED tx
  /\ UNCHANGED <<marketOn, origin, snapshots, db, unsettled, skillBounds>>

\* The loop over the children of a market; a bundle that raises does not
\* stop it, a source that vanished does.
RegisterBundle ==
  /\ Refreshing("register")
  /\ LET m == job.market
         bundle == source[m]
         s == SkillOf[m]
     IN \/ /\ bundle = Gone
           /\ RolledBack /\ UNCHANGED snapshots
        \/ /\ bundle \in {Broken, Empty}
           /\ tx' = IF bundle = Broken THEN Quarantined(tx, s, m) ELSE tx
           /\ job' = [job EXCEPT !.stage = "next",
                        !.settled = IF bundle = Broken THEN @ \cup {m} ELSE @]
           /\ UNCHANGED snapshots
        \/ /\ bundle \in Versions
           /\ snapshots' = [snapshots EXCEPT ![m] = @ \cup {bundle}]
           /\ tx' = Upserted(tx, s, bundle, m)
           /\ job' = [job EXCEPT !.stage = "next", !.settled = @ \cup {m}]
  /\ UNCHANGED <<marketOn, origin, source, db, unsettled, skillBounds>>

\* An install whose skill no market offers raises and undoes the refresh.
EndRefresh ==
  /\ Refreshing("next") /\ job.todo = {}
  /\ job' = NoJob
  /\ IF job.install # NoInstall /\ ~tx.skill[job.install].there
     THEN tx' = db /\ UNCHANGED <<db, unsettled>>
     ELSE /\ CommitTables(IF job.install = NoInstall THEN tx ELSE Switched(tx, job.install, TRUE))
          /\ unsettled' = unsettled \ job.settled
  /\ UNCHANGED <<marketOn, origin, skillFiles, skillBounds>>

(***************************************************************************)
(* extensions rollback: the record first, then the directory, then the     *)
(* skill.  Without the snapshot the record alone is changed.               *)
(***************************************************************************)
RecordOf(t, s, v) == [t EXCEPT !.ext[s] = [status |-> "enabled", version |-> v]]

RollbackSkill(s, v) ==
  /\ SkillsIdle /\ db.ext[s] # NoSkill /\ db.snapshot[s][v] # NoMarket
  /\ IF db.skill[s].there /\ v \in snapshots[db.snapshot[s][v]]
     THEN /\ tx' = RecordOf(db, s, v) /\ UNCHANGED db
          /\ job' = [kind |-> "rollback", skill |-> s, version |-> v, stage |-> "copy"]
          /\ source' = [source EXCEPT ![db.skill[s].from] = Gone]
          /\ unsettled' = unsettled \cup {db.skill[s].from}
     ELSE /\ CommitTables(RecordOf(db, s, v))
          /\ UNCHANGED <<source, job, unsettled>>
  /\ UNCHANGED <<marketOn, origin, snapshots, skillBounds>>

\* _replace_directory, second half.
CopySnapshot ==
  /\ job.kind = "rollback" /\ job.stage = "copy"
  /\ IF job.version \in snapshots[db.snapshot[job.skill][job.version]]
     THEN /\ source' = [source EXCEPT ![tx.skill[job.skill].from] = job.version]
          /\ job' = [job EXCEPT !.stage = "next"]
          /\ UNCHANGED tx
     ELSE RolledBack /\ UNCHANGED source
  /\ UNCHANGED <<marketOn, origin, snapshots, db, unsettled, skillBounds>>

\* The bundle is loaded from the directory it was copied to.
EndRollback ==
  /\ job.kind = "rollback" /\ job.stage = "next"
  /\ LET s == job.skill
         from == tx.skill[s].from
     IN IF source[from] = Gone
        THEN RolledBack /\ UNCHANGED <<db, unsettled>>
        ELSE /\ CommitTables([tx EXCEPT !.skill[s] = [@ EXCEPT !.on = TRUE, !.version = source[from]]])
             /\ unsettled' = unsettled \ {from}
             /\ job' = NoJob
  /\ UNCHANGED <<marketOn, origin, skillFiles, skillBounds>>

\* A copy that was cut short does not load.
CrashSkills ==
  /\ ~SkillsIdle /\ skillCrashes < MaxSkillCrashes
  /\ skillCrashes' = skillCrashes + 1
  /\ RolledBack
  /\ \/ UNCHANGED source
     \/ /\ Refreshing("copy")
        /\ source' = [source EXCEPT ![job.market] = Broken]
     \/ /\ job.kind = "rollback" /\ job.stage = "copy"
        /\ source' = [source EXCEPT ![db.skill[job.skill].from] = Broken]
  /\ UNCHANGED <<marketOn, origin, snapshots, db, unsettled, edits>>

SkillsNext ==
  \/ \E m \in Markets :
       AddMarket(m) \/ RemoveMarket(m) \/ RemoveSource(m) \/ \E b \in Bundles : EditMarket(m, b)
  \/ \E s \in Skills :
       \/ \E on \in BOOLEAN : SwitchSkill(s, on)
       \/ \E v \in Versions : RollbackSkill(s, v)
  \/ \E s \in Skills \cup {NoInstall} : StartRefresh(s)
  \/ CopySource \/ RegisterBundle \/ EndRefresh \/ ValidateSkills
  \/ CopySnapshot \/ EndRollback \/ CrashSkills

SkillsSpec == SkillsInit /\ [][SkillsNext]_skillVars

(***************************************************************************)
(* Properties                                                              *)
(***************************************************************************)
\* Markets, rows and files have the values the code gives them.
SkillsTypeOK ==
  /\ marketOn \in [Markets -> BOOLEAN]
  /\ origin \in [Markets -> Bundles]
  /\ source \in [Markets -> Bundles]
  /\ snapshots \in [Markets -> SUBSET Versions]
  /\ db \in Tables /\ tx \in Tables
  /\ job \in Jobs
  /\ unsettled \subseteq Markets
  /\ edits \in Nat /\ skillCrashes \in Nat

\* An enabled skill has in its directory the version that its row says, as
\* long as the registration of what is there was committed and its owner did
\* not enable what does not load: refreshes, quarantines, rollbacks, two
\* markets that offer the same skill and killed commands leave no other trace.
EnabledSkillsLoad ==
  \A s \in Skills :
    LET row == db.skill[s]
    IN  row.there /\ row.on /\ row.from \notin unsettled => source[row.from] = row.version

\* A refresh never switches on a skill that its owner switched off.
OnlyOwnersEnable ==
  [][\A s \in Skills :
       job.kind = "refresh" /\ job.install = NoInstall /\ db.skill[s].there /\ ~db.skill[s].on
         => db'.skill[s] = db.skill[s] \/ ~db'.skill[s].on]_skillVars

\* A quarantined extension is the record of a skill that is off: the
\* capability map is made of the skills that are on.
QuarantinedSkillsAreOff ==
  \A s \in Skills :
    db.ext[s] # NoSkill /\ db.ext[s].status = "quarantined" /\ db.skill[s].there => ~db.skill[s].on
=============================================================================
