--------------------------- MODULE BackupRepository ---------------------------
(***************************************************************************)
(* What a backup repository says of the backups of a VM, and the processes *)
(* that change it.  The same fact is kept three times: the metadata files  *)
(* (the truth), `cache.json.gz`, which is read, changed and written back   *)
(* without any lock between processes, and the append-only journal.        *)
(*                                                                         *)
(* Two processes write: "server", the xo-server a user deletes backups     *)
(* from, and "job", a backup job on another process (a proxy, another      *)
(* xo-server) that adds backups.  Both clean the directory afterwards.     *)
(* A job works under the lock of the directory, a deletion only takes it   *)
(* for its cleanup.  Every wait for the remote is a boundary between two   *)
(* actions.                                                                *)
(*                                                                         *)
(* An entry of the journal is named after the clock read before its file   *)
(* is written, so that entries may appear in another order than their      *)
(* names; the journal is kept in the order of appearance.                  *)
(***************************************************************************)
EXTENDS Naturals, Sequences, FiniteSets

CONSTANTS
  Backups,     \* the metadata files of the VM
  Existing,    \* those which are there at first
  JobsClean,   \* whether jobs clean the directory as well
  MayBeCold,   \* whether there may be no cache.json.gz at first
  MaxWrites,   \* bound on the backups written or deleted
  MaxFaults    \* bound on crashes, lost journal entries and failed reads

ASSUME RepositoryAssumption ==
  /\ IsFiniteSet(Backups)
  /\ Existing \subseteq Backups
  /\ {JobsClean, MayBeCold} \subseteq BOOLEAN
  /\ MaxWrites \in Nat
  /\ MaxFaults \in Nat

VARIABLES
  files,       \* the metadata files present
  written,     \* the backups that have been written once: names never return
  cache,       \* content of cache.json.gz, NoCache when there is none
  journal,     \* entries [stamp, backup, event], in the order they appear
  clock,       \* the clock the entries are stamped with
  proc,        \* process -> its operation in progress
  faults       \* faults so far

repository == <<files, written, cache, journal, clock, proc>>

Processes == {"server", "job"}
Clock == 0 .. MaxWrites
Writes == clock + Cardinality({p \in Processes : proc[p].event = "del" /\ proc[p].pc \in {"read", "write"}})
NoCache == [absent |-> TRUE]
Content(c) == [absent |-> FALSE, entries |-> c]
Caches == {NoCache} \cup {Content(c) : c \in SUBSET Backups}

\* an operation: `event` and `backup` say what it is, `seen` is what it has
\* read (of the cache or of the directory), `stamp` names its journal entry
Idle == [pc |-> "idle", event |-> "none", backups |-> {}, seen |-> NoCache, stamp |-> 0]

Operations ==
  [pc : {"idle", "read", "write", "journal", "clean", "check", "regenerate", "refresh"},
   event : {"none", "add", "del"}, backups : SUBSET Backups,
   seen : Caches, stamp : Clock]

Entries == [stamp : Clock, backup : Backups, event : {"add", "del"}]

RepositoryTypeOK ==
  /\ files \subseteq written
  /\ written \subseteq Backups
  /\ cache \in Caches
  /\ \A i \in DOMAIN journal : journal[i] \in Entries
  /\ clock \in Clock
  /\ proc \in [Processes -> Operations]
  /\ faults \in 0 .. MaxFaults

RepositoryInit ==
  /\ files = Existing
  /\ written = Existing
  /\ cache \in {Content(Existing)} \cup {c \in {NoCache} : MayBeCold}
  /\ journal = <<>>
  /\ clock = 0
  /\ proc = [p \in Processes |-> Idle]
  /\ faults = 0

Fault == faults < MaxFaults /\ faults' = faults + 1

\* the lock of the directory is held by another process than p
Locked(p) == IF p = "job" THEN proc["server"].pc \in {"check", "regenerate"}
                          ELSE proc["job"].pc # "idle"

(***************************************************************************)
(* RemoteAdapter#writeVmBackupMetadata: the file, then the journal, then   *)
(* the cache.                                                              *)
(***************************************************************************)
WriteVmBackupMetadata(b) ==
  /\ proc["job"].pc = "idle" /\ ~Locked("job")
  /\ b \notin written
  /\ Writes < MaxWrites
  /\ files' = files \cup {b}
  /\ written' = written \cup {b}
  /\ clock' = clock + 1
  /\ proc' = [proc EXCEPT !["job"] =
                [Idle EXCEPT !.pc = "journal", !.event = "add", !.backups = {b}, !.stamp = clock + 1]]
  /\ UNCHANGED <<cache, journal, faults>>

(***************************************************************************)
(* RemoteAdapter#deleteVmBackups: the file, then #forgetVmBackups: the     *)
(* cache, then the journal, then a cleanup of the directory.               *)
(***************************************************************************)
DeleteVmBackup(b) ==
  /\ proc["server"].pc = "idle"
  /\ b \in files
  /\ Writes < MaxWrites
  /\ files' = files \ {b}
  /\ proc' = [proc EXCEPT !["server"] = [Idle EXCEPT !.pc = "read", !.event = "del", !.backups = {b}]]
  /\ UNCHANGED <<written, cache, journal, clock, faults>>

\* _updateCache reads the cache; without one, it lists the directory instead
UpdateCacheRead(p) ==
  LET op == proc[p]
      updated == IF op.event = "add" THEN cache.entries \cup op.backups
                                     ELSE cache.entries \ op.backups
  IN  /\ op.pc = "read"
      /\ proc' = [proc EXCEPT ![p].pc = "write",
                              ![p].seen = IF cache = NoCache THEN Content(files) ELSE Content(updated)]
      /\ UNCHANGED <<files, written, cache, journal, clock, faults>>

\* ... and writes it back; a deletion stamps its journal entry next
UpdateCacheWrite(p) ==
  LET op == proc[p]
  IN  /\ op.pc = "write"
      /\ cache' = op.seen
      /\ IF op.event = "add"
         THEN /\ proc' = [proc EXCEPT ![p] = Idle]
              /\ UNCHANGED clock
         ELSE /\ clock' = clock + 1
              /\ proc' = [proc EXCEPT ![p].pc = "journal", ![p].seen = NoCache, ![p].stamp = clock + 1]
      /\ UNCHANGED <<files, written, journal, faults>>

\* what an operation does once its journal entry is written, or lost
Journaled(p) ==
  proc' = [proc EXCEPT ![p].pc = IF proc[p].event = "add" THEN "read" ELSE "clean"]

\* writeBackupJournalEntry: the file of the entry appears
WriteBackupJournalEntry(p) ==
  LET op == proc[p]
      EntryOf(b) == [stamp |-> op.stamp, backup |-> b, event |-> op.event]
  IN  /\ op.pc = "journal"
      /\ \E b \in op.backups : journal' = Append(journal, EntryOf(b))
      /\ Journaled(p)
      /\ UNCHANGED <<files, written, cache, clock, faults>>

\* ... or its write fails, which is only logged
LoseJournalEntry(p) ==
  /\ proc[p].pc = "journal"
  /\ Fault
  /\ Journaled(p)
  /\ UNCHANGED <<files, written, cache, journal, clock>>

(***************************************************************************)
(* cleanVm, at the end of a job or of a deletion: VmBackupDirectory lists  *)
(* the metadata and compares their number with the entries of the cache.   *)
(* An existing cache is regenerated when they differ, or when disks were   *)
(* removed or merged.                                                      *)
(***************************************************************************)
CleanScan(p) ==
  /\ IF p = "job" THEN JobsClean /\ proc[p].pc = "idle" ELSE proc[p].pc = "clean"
  /\ ~Locked(p)
  /\ proc' = [proc EXCEPT ![p].pc = "check", ![p].seen = Content(files)]
  /\ UNCHANGED <<files, written, cache, journal, clock, faults>>

\* the directory is locked: the deletion rejects, and refresh() is not called
CleanRefused ==
  /\ proc["server"].pc = "clean" /\ Locked("server")
  /\ proc' = [proc EXCEPT !["server"] = Idle]
  /\ UNCHANGED <<files, written, cache, journal, clock, faults>>

\* what a process does once it has cleaned the directory
Cleaned(p) == IF p = "job" THEN Idle ELSE [proc[p] EXCEPT !.pc = "refresh", !.seen = NoCache]

CheckCacheCount(p) ==
  LET inSync == cache # NoCache => Cardinality(cache.entries) = Cardinality(proc[p].seen.entries)
  IN  /\ proc[p].pc = "check"
      /\ \/ inSync /\ proc' = [proc EXCEPT ![p] = Cleaned(p)]
         \/ cache # NoCache /\ proc' = [proc EXCEPT ![p].pc = "regenerate"]
      /\ UNCHANGED <<files, written, cache, journal, clock, faults>>

RegenerateCache(p) ==
  /\ proc[p].pc = "regenerate"
  /\ cache' = proc[p].seen
  /\ proc' = [proc EXCEPT ![p] = Cleaned(p)]
  /\ UNCHANGED <<files, written, journal, clock, faults>>

Clean(p) == CleanScan(p) \/ CheckCacheCount(p) \/ RegenerateCache(p) \/ (p = "server" /\ CleanRefused)

\* the process of the job stops anywhere; a new one takes its place
Crash ==
  /\ proc["job"].pc # "idle"
  /\ Fault
  /\ proc' = [proc EXCEPT !["job"] = Idle]
  /\ UNCHANGED <<files, written, cache, journal, clock>>

\* a process goes on with the operation it has begun
Proceed(p) == UpdateCacheRead(p) \/ UpdateCacheWrite(p) \/ WriteBackupJournalEntry(p)

RepositoryStep ==
  \/ \E b \in Backups : WriteVmBackupMetadata(b) \/ DeleteVmBackup(b)
  \/ \E p \in Processes : Proceed(p) \/ LoseJournalEntry(p) \/ Clean(p)
  \/ Crash

\* the entries after a cursor, as readBackupJournal lists them
Appeared == {journal[i] : i \in DOMAIN journal}
ReadBackupJournal(cursor) == {e \in Appeared : e.stamp > cursor}

\* the entries have appeared in the order of their names
InOrder == \A i, j \in DOMAIN journal : i < j => journal[i].stamp < journal[j].stamp

=============================================================================
