------------------------------ MODULE ActivityLog ------------------------------
(***************************************************************************)
(* The persistent record of runs (app/activity_log.py): an index file that *)
(* is rewritten whole, one output file per run, pruning by count and age,  *)
(* a sweep of output files nobody lists, and the one-time import of the    *)
(* log this module replaced.                                               *)
(*                                                                         *)
(* record_run holds _lock for its whole body, and every caller runs on the *)
(* event loop, so only one call is ever under way; what can come between   *)
(* its disk operations is a failing disk and the end of the process, which *)
(* leaves the disk as it stands.  Each disk operation is one action.       *)
(***************************************************************************)
EXTENDS Integers, Sequences, FiniteSets, Functions

CONSTANTS
    MaxEntries,    \* MAX_ENTRIES
    MaxAge,        \* MAX_AGE_DAYS
    Legacy,        \* the entries of auto_update_log.json
    LegacyAt,      \* their ran_at: a day, or Garbled
    Garbled,       \* a time stamp _parse_ts cannot read
    NotLegacy,     \* the origin of a run that was not imported
    MaxDay,        \* bound: the last day of the clock
    MaxIds,        \* bound: the run ids ever drawn
    FaultSets      \* what may go wrong: one of these sets, in each behaviour

ASSUME LimitsAssumption == MaxEntries \in Nat \ {0} /\ MaxAge \in Nat
ASSUME ClockAssumption == MaxDay \in Nat /\ MaxIds \in Nat
ASSUME LegacyAssumption ==
    /\ IsFiniteSet(Legacy) /\ NotLegacy \notin Legacy
    /\ Garbled \notin Int
    /\ LegacyAt \in [Legacy -> 0..MaxDay \cup {Garbled}]

\* disk: writes, renames and deletes may fail.  corruption: the index may become
\* unreadable.
LogFaults == {"disk", "corruption"}
ASSUME FaultsAssumption == FaultSets \subseteq SUBSET LogFaults

VARIABLES
    faults,     \* what may go wrong in this behaviour; never changes
    now,        \* today
    index,      \* index.json as a reader sees it: the newest record first
    output,     \* the output files: the day each run's was written
    legacy,     \* auto_update_log.json: "present", "garbled" or "gone"
    nextId,     \* uuid4: an id never drawn before
    pc,         \* the next disk operation of the call under way
    cur,        \* the record of the record_run under way
    batch,      \* the records of the import under way, in the legacy order
    dropped,    \* the ids that the saved index no longer lists
    returned,   \* what the last record_run returned
    recorded    \* history: every record the index ever held

logVars == <<faults, now, index, output, legacy, nextId, pc, cur, batch, dropped, returned, recorded>>

disk == <<index, output, legacy>>

\* The runs whose output file exists.
files == DOMAIN output

Ids == 1..MaxIds
NoId == 0

\* out: line_count > 0, the output was written.
RunRecord == [id : Ids, src : Legacy \cup {NotLegacy}, at : 0..MaxDay \cup {Garbled}, out : BOOLEAN]

NoRecord == [id |-> NoId, src |-> NotLegacy, at |-> 0, out |-> FALSE]

Listed(s) == {s[i] : i \in DOMAIN s}
IdsOf(s) == {s[i].id : i \in DOMAIN s}

\* _parse_ts with its default.
Stamp(e) == IF e.at = Garbled THEN now ELSE e.at

LogTypeOK ==
    /\ faults \in FaultSets
    /\ now \in 0..MaxDay
    /\ index \in Seq(RunRecord)
    /\ files \subseteq Ids
    /\ \A f \in files : output[f] \in 0..MaxDay
    /\ legacy \in {"present", "garbled", "gone"}
    /\ nextId \in 1..(MaxIds + 1)
    /\ pc \in {"idle", "output", "migrate", "save_merged", "rename", "save", "delete", "sweep"}
    /\ cur \in RunRecord \cup {NoRecord}
    /\ batch \in Seq(RunRecord)
    /\ dropped \subseteq Ids
    /\ returned \in Ids \cup {NoId}
    /\ recorded \subseteq RunRecord

LogInit ==
    /\ faults \in FaultSets
    /\ now = 0
    /\ index = <<>>
    /\ output = <<>>
    /\ legacy \in {"present", "garbled", "gone"}
    /\ nextId = 1
    /\ pc = "idle"
    /\ cur = NoRecord
    /\ batch = <<>>
    /\ dropped = {}
    /\ returned = NoId
    /\ recorded = {}

\* The subsets of a set of writes or deletes that may really take effect.
Effective(S) == IF "disk" \in faults THEN SUBSET S ELSE {S}

Succeeds == IF "disk" \in faults THEN BOOLEAN ELSE {TRUE}

Write(ids) == output' = [i \in files \cup ids |-> IF i \in ids THEN now ELSE output[i]]

Unlink(ids) == output' = [i \in files \ ids |-> output[i]]

\* The call that read the index goes on: record_run to its save, a reader to its answer.
AfterLoad == IF cur = NoRecord THEN "idle" ELSE "save"
-------------------------------------------------------------------------------
(***************************************************************************)
(* record_run: draw an id, write the output, load (and maybe import), save *)
(* the pruned index, delete the output of what was dropped, sweep.         *)
(***************************************************************************)

\* A run that started on day `at` has finished and is to be recorded.
RecordRun(at) ==
    /\ pc = "idle"
    /\ nextId \in Ids
    /\ cur' = [id |-> nextId, src |-> NotLegacy, at |-> at, out |-> FALSE]
    /\ nextId' = nextId + 1
    /\ returned' = NoId
    /\ pc' = "output"
    /\ UNCHANGED <<faults, now, disk, batch, dropped, recorded>>

WriteOutput ==
    /\ pc = "output"
    /\ \E ok \in Succeeds :
         /\ Write(IF ok THEN {cur.id} ELSE {})
         /\ cur' = [cur EXCEPT !.out = ok]
    /\ pc' = IF legacy = "gone" THEN "save" ELSE "migrate"
    /\ UNCHANGED <<faults, now, index, legacy, nextId, batch, dropped, returned, recorded>>

\* get_recent, get_run: reading the index imports the legacy log first.
ReadIndex ==
    /\ pc = "idle"
    /\ legacy # "gone"
    /\ cur' = NoRecord
    /\ pc' = "migrate"
    /\ UNCHANGED <<faults, now, disk, nextId, batch, dropped, returned, recorded>>

\* Mutant of Migrate: the legacy file is moved away before its entries are saved.
MigrateRenamesFirst ==
    /\ pc = "migrate"
    /\ legacy' = "gone"
    /\ batch' = <<>>
    /\ pc' = AfterLoad
    /\ UNCHANGED <<faults, now, index, output, nextId, cur, dropped, returned, recorded>>

\* migrate_legacy_log: one new record and one output file for every entry.
Migrate ==
    /\ pc = "migrate"
    /\ \/ /\ legacy = "present" /\ Legacy # {}
          /\ nextId + Cardinality(Legacy) \in 1..(MaxIds + 1)
          /\ LET ids == nextId..(nextId + Cardinality(Legacy) - 1)
             IN  \E order \in [ids -> Legacy], written \in Effective(ids) :
                   /\ \A e \in Legacy : \E i \in ids : order[i] = e
                   /\ Write(written)
                   /\ batch' = [k \in 1..Cardinality(Legacy) |->
                                  LET i == nextId + k - 1
                                  IN  [id |-> i, src |-> order[i],
                                       at |-> LegacyAt[order[i]], out |-> i \in written]]
          /\ nextId' = nextId + Cardinality(Legacy)
          /\ pc' = "save_merged"
       \/ /\ legacy = "garbled" \/ Legacy = {}
          /\ batch' = <<>>
          /\ pc' = "rename"
          /\ UNCHANGED <<output, nextId>>
    /\ UNCHANGED <<faults, now, index, legacy, cur, dropped, returned, recorded>>

\* Sorting by started_at, the newest first; equal stamps keep their order.
NewestFirst(p, s) ==
    \A i, j \in DOMAIN s :
        i < j => \/ Stamp(s[p[i]]) > Stamp(s[p[j]])
                 \/ Stamp(s[p[i]]) = Stamp(s[p[j]]) /\ p[i] < p[j]

\* Mutant: the imported records replace what was already recorded.
SaveMergedOver ==
    /\ pc = "save_merged"
    /\ \E ok \in Succeeds :
         \/ /\ ok
            /\ index' = batch
            /\ recorded' = recorded \cup Listed(batch)
            /\ pc' = "rename"
         \/ /\ ~ok
            /\ pc' = AfterLoad
            /\ UNCHANGED <<index, recorded>>
    /\ batch' = <<>>
    /\ UNCHANGED <<faults, now, output, legacy, nextId, cur, dropped, returned>>

\* An OSError skips the rename too: the import is tried again on the next read.
SaveMerged ==
    /\ pc = "save_merged"
    /\ \E ok \in Succeeds :
         \/ /\ ok
            /\ \E p \in Surjection(DOMAIN (batch \o index), DOMAIN (batch \o index)) :
                 /\ NewestFirst(p, batch \o index)
                 /\ index' = [i \in DOMAIN (batch \o index) |-> (batch \o index)[p[i]]]
            /\ recorded' = recorded \cup Listed(batch)
            /\ pc' = "rename"
         \/ /\ ~ok
            /\ pc' = AfterLoad
            /\ UNCHANGED <<index, recorded>>
    /\ batch' = <<>>
    /\ UNCHANGED <<faults, now, output, legacy, nextId, cur, dropped, returned>>

RenameLegacy ==
    /\ pc = "rename"
    /\ \E ok \in Succeeds : legacy' = IF ok THEN "gone" ELSE legacy
    /\ batch' = <<>>
    /\ pc' = AfterLoad
    /\ UNCHANGED <<faults, now, index, output, nextId, cur, dropped, returned, recorded>>

\* _select_kept: the positions that survive MAX_ENTRIES and MAX_AGE_DAYS.
Kept(s, protect) ==
    {i \in DOMAIN s : i <= MaxEntries /\ (s[i].id = protect \/ Stamp(s[i]) >= now - MaxAge)}

Increasing(p) == \A i, j \in DOMAIN p : i < j => p[i] < p[j]

\* Mutant: the output of dropped records goes before the new index is on disk.
SaveIndexDeletesFirst ==
    /\ pc = "save"
    /\ LET entries == <<cur>> \o index
           kept == Kept(entries, cur.id)
           gone == {entries[i].id : i \in DOMAIN entries \ kept}
       IN  IF gone \cap files # {}
           THEN Unlink(gone) /\ UNCHANGED <<index, recorded, dropped, pc>>
           ELSE /\ \E p \in [1..Cardinality(kept) -> kept] :
                     Increasing(p) /\ index' = [i \in DOMAIN p |-> entries[p[i]]]
                /\ recorded' = recorded \cup {cur}
                /\ dropped' = gone
                /\ pc' = "sweep"
                /\ UNCHANGED output
    /\ UNCHANGED <<faults, now, legacy, nextId, cur, batch, returned>>

\* An exception is swallowed: record_run returns "" and the output is an orphan.
SaveIndex ==
    /\ pc = "save"
    /\ \E ok \in Succeeds :
         \/ /\ ok
            /\ LET entries == <<cur>> \o index
                   kept == Kept(entries, cur.id)
               IN  /\ \E p \in [1..Cardinality(kept) -> kept] :
                        Increasing(p) /\ index' = [i \in DOMAIN p |-> entries[p[i]]]
                   /\ dropped' = {entries[i].id : i \in DOMAIN entries \ kept}
            /\ recorded' = recorded \cup {cur}
            /\ pc' = "delete"
            /\ UNCHANGED cur
         \/ /\ ~ok
            /\ cur' = NoRecord
            /\ pc' = "idle"
            /\ UNCHANGED <<index, dropped, recorded>>
    /\ batch' = <<>>
    /\ UNCHANGED <<faults, now, output, legacy, nextId, returned>>

DeleteOutputFiles ==
    /\ pc = "delete"
    /\ \E gone \in Effective(dropped \cap files) : Unlink(gone)
    /\ pc' = "sweep"
    /\ UNCHANGED <<faults, now, index, legacy, nextId, cur, batch, dropped, returned, recorded>>

\* Mutant: an output file nobody lists is deleted on sight.
SweepOnSight ==
    /\ pc = "sweep"
    /\ Unlink(files \ IdsOf(index))
    /\ returned' = cur.id
    /\ cur' = NoRecord
    /\ dropped' = {}
    /\ pc' = "idle"
    /\ UNCHANGED <<faults, now, index, legacy, nextId, batch, recorded>>

SweepAgedOrphans ==
    /\ pc = "sweep"
    /\ \E gone \in Effective({f \in files \ IdsOf(index) : output[f] < now - MaxAge}) :
         Unlink(gone)
    /\ returned' = cur.id
    /\ cur' = NoRecord
    /\ dropped' = {}
    /\ pc' = "idle"
    /\ UNCHANGED <<faults, now, index, legacy, nextId, batch, recorded>>
-------------------------------------------------------------------------------
(***************************************************************************)
(* The environment.                                                        *)
(***************************************************************************)

\* The process ends, or is killed, and starts again with what is on disk.
Crash ==
    /\ pc # "idle"
    /\ pc' = "idle"
    /\ cur' = NoRecord
    /\ batch' = <<>>
    /\ dropped' = {}
    /\ UNCHANGED <<faults, now, disk, nextId, returned, recorded>>

\* The index becomes unreadable: _read_index_file sets it aside and goes on without it.
IndexCorrupted ==
    /\ "corruption" \in faults
    /\ index # <<>>
    /\ index' = <<>>
    /\ UNCHANGED <<faults, now, output, legacy, nextId, pc, cur, batch, dropped, returned, recorded>>

NextDay ==
    /\ now < MaxDay
    /\ now' = now + 1
    /\ UNCHANGED <<faults, disk, nextId, pc, cur, batch, dropped, returned, recorded>>

LogNext ==
    \/ \E at \in 0..now : RecordRun(at)
    \/ WriteOutput \/ ReadIndex \/ Migrate \/ SaveMerged \/ RenameLegacy
    \/ SaveIndex \/ DeleteOutputFiles \/ SweepAgedOrphans
    \/ Crash \/ IndexCorrupted \/ NextDay

LogSpec == LogInit /\ [][LogNext]_logVars
-------------------------------------------------------------------------------
(***************************************************************************)
(* Properties                                                              *)
(***************************************************************************)

\* A record that says it has output still has it: no crash between a save and a
\* delete, and no sweep, leaves the index pointing at a file that is gone.
OutputKept == \A e \in Listed(index) : e.out => e.id \in files

\* An output file is deleted only when its record has just been pruned from the
\* saved index, or when it is an orphan older than MAX_AGE_DAYS: an orphan may be
\* the only copy of a failed run's output.
OrphansAge ==
    [][\A f \in files \ DOMAIN output' :
          \/ pc = "delete" /\ f \in dropped
          \/ f \notin IdsOf(index) /\ output[f] < now - MaxAge]_logVars

\* Nothing within both limits is ever forgotten: while all that was ever recorded
\* fits MAX_ENTRIES, a record younger than MAX_AGE_DAYS is in the index, whatever
\* crashed, failed or was imported in between (short of an index set aside).
HistoryKept ==
    "corruption" \notin faults /\ Cardinality(recorded) <= MaxEntries
        => \A e \in recorded : Stamp(e) >= now - MaxAge => e \in Listed(index)

\* The id record_run hands back resolves: even a run whose start is older than
\* the age limit survives the call that records it (short of an index set aside).
ReturnedResolves ==
    [][returned' # returned /\ returned' # NoId /\ "corruption" \notin faults
          => returned' \in IdsOf(index')]_logVars

\* The legacy log is given up only once every entry of it has been imported,
\* unless it could not be read.
LegacyImported ==
    [][legacy = "present" /\ legacy' = "gone"
          => \A e \in Legacy : \E r \in recorded : r.src = e]_logVars

\* "Imported once on first read, then renamed out of the way so it can never be
\* imported twice."
ImportedOnce ==
    \A i, j \in DOMAIN index :
        index[i].src # NotLegacy /\ index[i].src = index[j].src => i = j
===============================================================================
