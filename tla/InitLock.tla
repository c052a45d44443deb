------------------------------ MODULE InitLock ------------------------------
(***************************************************************************)
(* The initialisation of a home (db/session.py, init_database): processes  *)
(* that start at the same time take a lock file, and the one that has it   *)
(* adds the missing columns to the tables.  The lock file of a process     *)
(* that died is removed once it is old; so is that of a process that is    *)
(* slow, and whatever file is there when the remover gets to it.           *)
(* An operator named Faulty... is a definition with a bug put in.          *)
(***************************************************************************)
EXTENDS Integers

CONSTANTS
    Processes,   \* processes that call init_database, once each
    Columns,     \* the columns that _ensure_incremental_columns adds to a table
    MaxCrashes,  \* bound: processes killed
    MaxExpiries  \* bound: lock files that grow older than stale_seconds

ASSUME BoundsAssumption == MaxCrashes \in Nat /\ MaxExpiries \in Nat

VARIABLES
    file,      \* the lock file: none, or the process that created it
    old,       \* whether the file is older than stale_seconds
    columns,   \* the columns the table has
    process,   \* the local state of each process
    crashes,   \* how many processes were killed
    expiries   \* how many lock files grew old

vars == <<file, old, columns, process, crashes, expiries>>

NoFile == "no file"

ASSUME NoFileAssumption == NoFile \notin Processes

Idle == [pc |-> "waiting", missing |-> {}]

TypeOK ==
    /\ file \in Processes \cup {NoFile}
    /\ old \in BOOLEAN
    /\ columns \subseteq Columns
    /\ process \in [Processes ->
          [pc: {"waiting", "unlinking", "reading", "adding", "releasing", "ready", "raised", "dead"},
           missing: SUBSET Columns]]
    /\ crashes \in 0..MaxCrashes
    /\ expiries \in 0..MaxExpiries

Init ==
    /\ file = NoFile
    /\ old = FALSE
    /\ columns \in SUBSET Columns
    /\ process = [p \in Processes |-> Idle]
    /\ crashes = 0
    /\ expiries = 0

Goto(p, step) == process' = [process EXCEPT ![p].pc = step]

\* The processes between taking the lock and giving it back.
Inside == {p \in Processes : process[p].pc \in {"reading", "adding", "releasing"}}

-----------------------------------------------------------------------------
(* _init_file_lock.                                                        *)

\* O_CREAT | O_EXCL.
TakeLock(p) ==
    /\ process[p].pc = "waiting" /\ file = NoFile
    /\ file' = p
    /\ old' = FALSE
    /\ Goto(p, "reading")
    /\ UNCHANGED <<columns, crashes, expiries>>

FaultySeeStale(p) ==   \* a step that nothing goes on from
    /\ process[p].pc = "waiting" /\ file # NoFile /\ old
    /\ Goto(p, "stale")
    /\ UNCHANGED <<file, old, columns, crashes, expiries>>

\* _lock_is_stale: the age of the file is looked at ...
SeeStale(p) ==
    /\ process[p].pc = "waiting" /\ file # NoFile /\ old
    /\ Goto(p, "unlinking")
    /\ UNCHANGED <<file, old, columns, crashes, expiries>>

\* ... and the file that is there by now is removed; none is no error.
RemoveStale(p) ==
    /\ process[p].pc = "unlinking"
    /\ file' = NoFile
    /\ old' = FALSE
    /\ Goto(p, "waiting")
    /\ UNCHANGED <<columns, crashes, expiries>>

\* The deadline has passed: TimeoutError.
TimeOut(p) ==
    /\ process[p].pc = "waiting" /\ file # NoFile
    /\ Goto(p, "raised")
    /\ UNCHANGED <<file, old, columns, crashes, expiries>>

FaultyRelease(p) ==   \* a failed initialisation keeps the lock
    /\ process[p].pc = "releasing"
    /\ file' = IF process[p].missing = {} THEN NoFile ELSE file
    /\ old' = IF process[p].missing = {} THEN FALSE ELSE old
    /\ Goto(p, IF process[p].missing = {} THEN "ready" ELSE "raised")
    /\ UNCHANGED <<columns, crashes, expiries>>

\* The finally clause removes the lock file, whoever created it.
Release(p) ==
    /\ process[p].pc = "releasing"
    /\ file' = NoFile
    /\ old' = FALSE
    /\ Goto(p, IF process[p].missing = {} THEN "ready" ELSE "raised")
    /\ UNCHANGED <<columns, crashes, expiries>>

-----------------------------------------------------------------------------
(* _ensure_incremental_columns.                                            *)

\* PRAGMA table_info.
ReadColumns(p) ==
    /\ process[p].pc = "reading"
    /\ process' = [process EXCEPT ![p] = [pc |-> "adding", missing |-> Columns \ columns]]
    /\ UNCHANGED <<file, old, columns, crashes, expiries>>

\* ALTER TABLE ... ADD COLUMN; pysqlite begins no transaction for it, so each stands by
\* itself.
AddColumn(p) ==
    /\ process[p].pc = "adding"
    /\ \E c \in process[p].missing \ columns :
        /\ columns' = columns \cup {c}
        /\ process' = [process EXCEPT ![p].missing = @ \ {c}]
    /\ UNCHANGED <<file, old, crashes, expiries>>

\* "duplicate column name" is not an error that _with_sqlite_retry tries again.
ColumnExists(p) ==
    /\ process[p].pc = "adding"
    /\ process[p].missing \cap columns # {}
    /\ Goto(p, "releasing")
    /\ UNCHANGED <<file, old, columns, crashes, expiries>>

AllAdded(p) ==
    /\ process[p].pc = "adding" /\ process[p].missing = {}
    /\ Goto(p, "releasing")
    /\ UNCHANGED <<file, old, columns, crashes, expiries>>

Step(p) ==
    \/ TakeLock(p) \/ SeeStale(p) \/ RemoveStale(p) \/ TimeOut(p) \/ Release(p)
    \/ ReadColumns(p) \/ AddColumn(p) \/ ColumnExists(p) \/ AllAdded(p)

\* Killed: the lock file stays.
Crash(p) ==
    /\ process[p].pc \notin {"ready", "raised", "dead"}
    /\ crashes < MaxCrashes
    /\ crashes' = crashes + 1
    /\ Goto(p, "dead")
    /\ UNCHANGED <<file, old, columns, expiries>>

\* The file grows older than stale_seconds, whether its process works or not.
FileAges ==
    /\ file # NoFile /\ ~old
    /\ expiries < MaxExpiries
    /\ expiries' = expiries + 1
    /\ old' = TRUE
    /\ UNCHANGED <<file, columns, process, crashes>>

Next == (\E p \in Processes : Step(p) \/ Crash(p)) \/ FileAges

Spec == Init /\ [][Next]_vars

-----------------------------------------------------------------------------
(* Properties.                                                             *)

\* The lock excludes until a lock file grows old.
ExclusiveUntilExpiry == expiries = 0 => \A p, q \in Inside : p = q

\* The lock file is given back: left with no process at work, it is that of a killed one.
FileStaysOnlyByCrash == file # NoFile /\ Inside = {} => process[file].pc = "dead"

\* A process whose initialisation succeeded has the whole schema, even if the lock failed
\* and others added columns at the same time.
ReadyMeansComplete == \A p \in Processes : process[p].pc = "ready" => columns = Columns

\* Initialisations that collide in the schema do so only after a lock file grew old.
CollisionsNeedExpiries ==
    expiries = 0 => \A p \in Processes : process[p].pc = "adding" => process[p].missing \cap columns = {}

\* What a caller of init_database may count on.
InitialisationIsSound == ReadyMeansComplete /\ ExclusiveUntilExpiry /\ FileStaysOnlyByCrash
=============================================================================
