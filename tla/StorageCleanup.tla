---------------------------- MODULE StorageCleanup ----------------------------
(***************************************************************************)
(* storage cleanup (core/storage.py and cli.py), beside what it must spare:*)
(* the skills of SkillMarket, the artifacts of episodes, the last          *)
(* checkpoint of a run, skill drafts.  A path is a sequence of names below *)
(* the home.  A plan lists old items: a file of data/artifacts, a child of *)
(* any other root, a checkpoint row.  It is made and executed at once, or  *)
(* recorded and executed later; its items are deleted one by one, the rows *)
(* and the record of the cleanup are committed at the end.                 *)
(***************************************************************************)
EXTENDS SkillMarket, FiniteSets
LOCAL INSTANCE SequencesExt

CONSTANTS
  HomeRuns,        \* runs
  Artifacts,       \* names of artifacts
  MaxCheckpoints,  \* bound: checkpoints of a run
  MaxCleanups      \* bound: executions of a plan

VARIABLES
  files,         \* the files under data/artifacts and data/sandboxes
  oldItems,      \* items whose mtime lies before the cutoff
  episodePaths,  \* paths of the rows of episode_artifacts
  drafts,        \* rows of skill_drafts: skills promoted from a run
  draftDirs,     \* directories of data/skill_drafts
  checkpoints,   \* the checkpoints of a run, numbered in the order of created_at
  made,          \* history: the number of the last checkpoint made for a run
  plan,          \* the items of the recorded dry run, or NoPlan
  cleaning,      \* the execution of a plan, or NotCleaning
  records,       \* paths that a recorded cleanup run says were deleted
  deleted,       \* history: paths that cleanups deleted
  raced,         \* history: paths recorded while a cleanup was executing
  cleanups       \* bound

storageVars == <<files, oldItems, episodePaths, drafts, draftDirs, checkpoints, made, plan,
                 cleaning, records, deleted, raced, cleanups>>
homeVars == <<storageVars, skillVars>>

ArtifactPaths == {<<"artifacts", a>> : a \in Artifacts}
SandboxPaths == {<<"sandboxes", r, a>> : r \in HomeRuns, a \in Artifacts}
FileItems == ArtifactPaths
DirectoryItems == {<<"sandboxes", r>> : r \in HomeRuns}
                  \cup {<<"market-cache", m>> : m \in Markets}
                  \cup {<<"skill_drafts", s>> : s \in Skills}
RowItems == {<<"checkpoint", r, n>> : r \in HomeRuns, n \in 1..MaxCheckpoints}
CleanupItems == FileItems \cup DirectoryItems \cup RowItems
NoPlan == [planned |-> FALSE]
NotCleaning == [running |-> FALSE]

ItemExists(item) ==
  CASE item[1] = "market-cache" -> source[item[2]] # Gone \/ snapshots[item[2]] # {}
    [] item[1] = "skill_drafts" -> item[2] \in draftDirs
    [] item[1] = "checkpoint" -> item[3] \in checkpoints[item[2]]
    [] OTHER -> \E f \in files : IsPrefix(item, f)

\* _protected_paths: an enabled skill or extension protects its directory,
\* an episode the files of its artifacts.
SkillDirectory(m) == <<"market-cache", m, "source", SkillOf[m]>>
ProtectedPaths ==
  episodePaths
  \cup {SkillDirectory(db.skill[s].from) : s \in {t \in Skills : db.skill[t].there /\ db.skill[t].on}}

\* _is_protected: the path itself or something above it is protected.
IsProtected(item, protected) == \E p \in protected : IsPrefix(p, item)

FaultyIsLatest(r, n) == n \in checkpoints[r] /\ \A k \in checkpoints[r] : n <= k   \* sorted the other way

\* _old_checkpoints: all but the newest of each run.
IsLatest(r, n) == n \in checkpoints[r] /\ \A k \in checkpoints[r] : k <= n
OldCheckpoints == {i \in RowItems :
                     i[3] \in checkpoints[i[2]] /\ ~IsLatest(i[2], i[3]) /\ i \in oldItems}

\* build_cleanup_plan.
CleanupPlan ==
  {i \in FileItems \cup DirectoryItems :
     i \in oldItems /\ ItemExists(i) /\ ~IsProtected(i, ProtectedPaths)} \cup OldCheckpoints

StorageInit ==
  /\ files = {} /\ oldItems = {} /\ episodePaths = {} /\ drafts = {} /\ draftDirs = {}
  /\ checkpoints = [r \in HomeRuns |-> {}]
  /\ made = [r \in HomeRuns |-> 0]
  /\ plan = NoPlan /\ cleaning = NotCleaning
  /\ records = {} /\ deleted = {} /\ raced = {} /\ cleanups = 0

Cleaning == cleaning # NotCleaning

(***************************************************************************)
(* What the rest of the program writes meanwhile.                          *)
(***************************************************************************)
\* A tool writes an artifact; the item it lies in is young again.
WriteArtifact(path) ==
  /\ path \notin files
  /\ files' = files \cup {path}
  /\ oldItems' = {i \in oldItems : ~IsPrefix(i, path)}
  /\ UNCHANGED <<episodePaths, drafts, draftDirs, checkpoints, made, plan, cleaning, records,
                 deleted, raced, cleanups, skillVars>>

\* An item that nobody touches grows old.
GrowOld(item) ==
  /\ item \notin oldItems /\ ItemExists(item)
  /\ oldItems' = oldItems \cup {item}
  /\ UNCHANGED <<files, episodePaths, drafts, draftDirs, checkpoints, made, plan, cleaning,
                 records, deleted, raced, cleanups, skillVars>>

\* summarize_run records the artifacts of a run.
RecordEpisode(path) ==
  /\ SkillsIdle /\ path \in files \ episodePaths
  /\ episodePaths' = episodePaths \cup {path}
  /\ raced' = IF Cleaning THEN raced \cup {path} ELSE raced
  /\ UNCHANGED <<files, oldItems, drafts, draftDirs, checkpoints, made, plan, cleaning, records,
                 deleted, cleanups, skillVars>>

\* promote_episode_to_skill: refused once there is a row, also when the
\* directory of the draft is gone.
PromoteEpisode(s) ==
  /\ SkillsIdle /\ s \notin drafts
  /\ drafts' = drafts \cup {s}
  /\ draftDirs' = draftDirs \cup {s}
  /\ oldItems' = oldItems \ {<<"skill_drafts", s>>}
  /\ UNCHANGED <<files, episodePaths, checkpoints, made, plan, cleaning, records, deleted, raced,
                 cleanups, skillVars>>

\* The runner records where a run waits, again each time it waits.
MakeCheckpoint(r) ==
  /\ SkillsIdle /\ made[r] < MaxCheckpoints
  /\ made' = [made EXCEPT ![r] = @ + 1]
  /\ checkpoints' = [checkpoints EXCEPT ![r] = @ \cup {made'[r]}]
  /\ UNCHANGED <<files, oldItems, episodePaths, drafts, draftDirs, plan, cleaning, records,
                 deleted, raced, cleanups, skillVars>>

(***************************************************************************)
(* The cleanup.                                                            *)
(***************************************************************************)
\* storage cleanup --dry-run
DryRun ==
  /\ SkillsIdle /\ ~Cleaning /\ CleanupPlan # {}
  /\ plan' = [planned |-> TRUE, items |-> CleanupPlan]
  /\ UNCHANGED <<files, oldItems, episodePaths, drafts, draftDirs, checkpoints, made, cleaning,
                 records, deleted, raced, cleanups, skillVars>>

FaultyStartCleanup(items) ==   \* relies on the protection that the plan was made with
  /\ ~Cleaning /\ cleanups < MaxCleanups /\ items # {}
  /\ cleaning' = [running |-> TRUE, left |-> items, protected |-> {}, gone |-> {}, failed |-> FALSE]
  /\ cleanups' = cleanups + 1
  /\ UNCHANGED <<files, oldItems, episodePaths, drafts, draftDirs, checkpoints, made, plan,
                 records, deleted, raced, skillVars>>

\* storage cleanup --confirm, with the recorded plan or with a fresh one.
\* What is protected is looked up again, once, before the first item.
StartCleanup(items) ==
  /\ ~Cleaning /\ cleanups < MaxCleanups /\ items # {}
  /\ cleaning' = [running |-> TRUE, left |-> items, protected |-> ProtectedPaths,
                  gone |-> {}, failed |-> FALSE]
  /\ cleanups' = cleanups + 1
  /\ UNCHANGED <<files, oldItems, episodePaths, drafts, draftDirs, checkpoints, made, plan,
                 records, deleted, raced, skillVars>>

\* One item: spared, missing, refused by the system, or deleted with all
\* that is in it.
CleanItem(item, outcome) ==
  /\ Cleaning /\ item \in cleaning.left
  /\ outcome \in {"spared", "missing", "error", "deleted"}
  /\ (outcome = "spared") <=> item \notin RowItems /\ IsProtected(item, cleaning.protected)
  /\ outcome = "missing" => item \notin RowItems /\ ~ItemExists(item)
  /\ outcome = "error" => item \notin RowItems /\ ItemExists(item)
  /\ outcome = "deleted" => item \in RowItems \/ ItemExists(item)
  /\ cleaning' = [cleaning EXCEPT !.left = @ \ {item},
                    !.failed = @ \/ outcome = "error",
                    !.gone = IF outcome = "deleted" THEN @ \cup {item} ELSE @]
  /\ IF outcome = "deleted" /\ item \notin RowItems
     THEN /\ files' = {f \in files : ~IsPrefix(item, f)}
          /\ draftDirs' = {s \in draftDirs : item # <<"skill_drafts", s>>}
          /\ source' = [m \in Markets |-> IF item = <<"market-cache", m>> THEN Gone ELSE source[m]]
          /\ snapshots' = [m \in Markets |-> IF item = <<"market-cache", m>> THEN {}
                                             ELSE snapshots[m]]
          /\ unsettled' = unsettled \cup {m \in Markets : item = <<"market-cache", m>>}
          /\ job' = IF job.kind # "refresh" THEN job
                    ELSE [job EXCEPT !.settled = {m \in @ : item # <<"market-cache", m>>}]
          /\ oldItems' = oldItems \ {item}
          /\ deleted' = deleted \cup {item}
     ELSE UNCHANGED <<files, draftDirs, source, snapshots, unsettled, job, oldItems, deleted>>
  /\ UNCHANGED <<episodePaths, drafts, checkpoints, made, plan, records, raced, cleanups,
                 marketOn, origin, db, tx, skillBounds>>

\* The record of the cleanup and the deletion of rows are committed, except
\* that the exit code of a cleanup with errors is raised inside the
\* transaction, which rolls both back.
EndCleanup ==
  /\ Cleaning /\ cleaning.left = {} /\ SkillsIdle
  /\ IF cleaning.failed
     THEN UNCHANGED <<checkpoints, records>>
     ELSE /\ checkpoints' = [r \in HomeRuns |->
                               {n \in checkpoints[r] : <<"checkpoint", r, n>> \notin cleaning.gone}]
          /\ records' = records \cup cleaning.gone
  /\ cleaning' = NotCleaning
  /\ UNCHANGED <<files, oldItems, episodePaths, drafts, draftDirs, made, plan, deleted, raced,
                 cleanups, skillVars>>

\* The process is killed between two items.
CrashCleanup ==
  /\ Cleaning /\ skillCrashes < MaxSkillCrashes
  /\ skillCrashes' = skillCrashes + 1
  /\ cleaning' = NotCleaning
  /\ UNCHANGED <<files, oldItems, episodePaths, drafts, draftDirs, checkpoints, made, plan,
                 records, deleted, raced, cleanups, marketOn, origin, skillFiles, db, tx, job,
                 unsettled, edits>>

\* A refresh makes entries in market-cache/<market>, which makes it young;
\* the other commands of SkillMarket leave the files of this module alone.
SkillsStep ==
  /\ SkillsNext
  /\ oldItems' = {i \in oldItems : \A m \in Markets :
                    i = <<"market-cache", m>> => source'[m] = source[m]
                                                 /\ snapshots'[m] = snapshots[m]}
  /\ UNCHANGED <<files, episodePaths, drafts, draftDirs, checkpoints, made, plan, cleaning,
                 records, deleted, raced, cleanups>>

StorageStep ==
  \/ \E p \in ArtifactPaths \cup SandboxPaths : WriteArtifact(p) \/ RecordEpisode(p)
  \/ \E i \in CleanupItems : GrowOld(i) \/ \E o \in {"spared", "missing", "error", "deleted"} : CleanItem(i, o)
  \/ \E s \in Skills : PromoteEpisode(s)
  \/ \E r \in HomeRuns : MakeCheckpoint(r)
  \/ DryRun \/ EndCleanup \/ CrashCleanup
  \/ StartCleanup(CleanupPlan)
  \/ plan # NoPlan /\ StartCleanup(plan.items)

StorageNext == StorageStep \/ SkillsStep

HomeInit == SkillsInit /\ StorageInit
StorageSpec == HomeInit /\ [][StorageNext]_homeVars

(***************************************************************************)
(* Properties                                                              *)
(***************************************************************************)
\* The last checkpoint of a run is kept, whatever plans were made before it
\* and executed after it.
LatestCheckpointKept == \A r \in HomeRuns : made[r] > 0 => made[r] \in checkpoints[r]

\* An artifact file that an episode refers to is kept, also by a plan that
\* was made before the episode was recorded; only one that is recorded
\* while the items are being deleted may still go.
EpisodeArtifactsKept == \A p \in ArtifactPaths : p \in episodePaths \ raced => p \in files

\* A cleanup leaves the directory of an enabled skill alone.
EnabledSkillsAreProtected ==
  [][\A s \in Skills :
       Cleaning /\ db.skill[s].there /\ db.skill[s].on /\ db.skill[s].from \notin unsettled
              /\ SkillsIdle /\ SkillsIdle'
         => source'[db.skill[s].from] = source[db.skill[s].from]]_homeVars

\* Every path that a cleanup deleted is in the record of a cleanup run, as
\* soon as no cleanup is executing and unless one was killed.
DeletionsAreRecorded ==
  ~Cleaning /\ skillCrashes = 0 => deleted \subseteq records

\* The variables have the values the code gives them.
StorageTypeOK ==
  /\ SkillsTypeOK
  /\ files \subseteq ArtifactPaths \cup SandboxPaths /\ episodePaths \subseteq ArtifactPaths \cup SandboxPaths
  /\ oldItems \subseteq CleanupItems /\ records \subseteq CleanupItems /\ deleted \subseteq CleanupItems
  /\ drafts \subseteq Skills /\ draftDirs \subseteq drafts
  /\ \A r \in HomeRuns : checkpoints[r] \subseteq 1..made[r]

\* What the plan protects is looked up again when it is executed: what runs and episodes
\* refer to is kept, however old the plan is.
ReferencedDataIsKept == LatestCheckpointKept /\ EpisodeArtifactsKept
=============================================================================
