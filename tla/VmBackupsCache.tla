---------------------------- MODULE VmBackupsCache ----------------------------
(***************************************************************************)
(* The in-memory listing xo-server keeps of a backup repository            *)
(* (VmBackupsCache), reading the repository while its writers are at work. *)
(*                                                                         *)
(* `get()` lists the repository once, from cache.json.gz, then brings what *)
(* it holds up to date from the journal, an hour later from a new listing. *)
(* Concurrent calls share the read in progress.  `refresh()` marks the     *)
(* entry stale, `delete()` and `remove()` drop it, all of them while reads *)
(* may be in flight: a read that waits finds, when it goes on, an entry    *)
(* which is no longer the one it left.  What the listing holds is also     *)
(* announced to the listeners of a collection, as differences.             *)
(*                                                                         *)
(* An entry and the object of backups it holds are one object here, named  *)
(* by its place in `entry`: `announced` may refer to it long after the     *)
(* entry itself has been dropped, and a replay changes it in place.        *)
(***************************************************************************)
EXTENDS BackupRepository

CONSTANTS
  MAX_REFRESH_READS,  \* reads one get() makes at most
  MaxDrops,           \* bound on the calls of delete() and remove()
  LateCalls           \* what may come after the repository has been dropped: "refusal",
                      \* a source that says it has no journal, "get", a call
                      \* whose caller had read the record of the remote before

ASSUME CacheAssumption ==
  /\ MAX_REFRESH_READS \in Nat \ {0}
  /\ MaxDrops \in Nat
  /\ LateCalls \subseteq {"refusal", "get"}

VARIABLES
  entry,        \* the entries still referred to, by id
  current,      \* #entries: the id of the entry of the repository, or 0
  announced,    \* #announced: the id of the entry whose backups are announced, or 0
  pending,      \* #pending: the read the calls of get() share, or 0
  unreplayable, \* #unreplayable
  read,         \* the reads in flight
  attached,     \* whether the repository is enabled: remove() has not been called
  drops,        \* calls of delete() and remove() so far
  heard         \* what a listener of the collection has gathered from its events

reader == <<entry, current, announced, pending, unreplayable, read, attached, drops, heard>>
vars == <<repository, faults, reader>>

Reads == 1 .. 2
Ids == 1 .. 4

\* `owed` is not in the code: the deletions refresh() has told this entry of
\* once their journal entries were there to be read
NoEntry == [built |-> FALSE, view |-> {}, cursor |-> 0, stale |-> FALSE, due |-> FALSE, owed |-> {}]

\* a read: the entry it works on, its rank in the loop of #refresh and what it
\* has got so far, a listing or the events and the new cursor of the journal
NoRead == [pc |-> "idle", entry |-> 0, nReads |-> 0, got |-> {}, gone |-> {}, cursor |-> 0]

\* one type invariant; a get() never makes more than MAX_REFRESH_READS reads
TypeOK ==
  /\ RepositoryTypeOK
  /\ entry \in [Ids -> [built : BOOLEAN, view : SUBSET Backups, cursor : Clock,
                        stale : BOOLEAN, due : BOOLEAN, owed : SUBSET Backups]]
  /\ {current, announced} \subseteq {0} \cup Ids
  /\ pending \in {0} \cup Reads
  /\ unreplayable \in BOOLEAN
  /\ read \in [Reads -> [pc : {"idle", "list", "regenerate", "listed", "journal", "replayed"},
                         entry : {0} \cup Ids, nReads : 0 .. MAX_REFRESH_READS,
                         got : SUBSET Backups, gone : SUBSET Backups, cursor : Clock]]
  /\ attached \in BOOLEAN
  /\ drops \in 0 .. MaxDrops
  /\ heard \subseteq Backups

Init ==
  /\ RepositoryInit
  /\ entry = [i \in Ids |-> NoEntry]
  /\ current = 0
  /\ announced = 0
  /\ pending = 0
  /\ unreplayable = FALSE
  /\ read = [r \in Reads |-> NoRead]
  /\ attached = TRUE
  /\ drops = 0
  /\ heard = {}

Referred == {current, announced} \cup {read[r].entry : r \in Reads}

\* the entries after a step.  Of a dropped entry a read still works on, the
\* backups and the cursor matter, of one which is only announced its backups;
\* one nothing refers to is forgotten.
KeepEntries(e) ==
  entry' = [i \in Ids |->
              IF i = current' THEN e[i]
              ELSE IF \E r \in Reads : read'[r].entry = i
                THEN [e[i] EXCEPT !.stale = FALSE, !.due = FALSE, !.owed = {}]
              ELSE IF i = announced' THEN [NoEntry EXCEPT !.built = TRUE, !.view = e[i].view]
              ELSE NoEntry]

\* the content the collection stands for
View(i) == IF i = 0 THEN {} ELSE entry[i].view

(***************************************************************************)
(* #build: the entry is registered before the listing.  Its cursor is      *)
(* taken five minutes behind the clock: before all the entries, or after   *)
(* those of the operations which have ended, one in progress being younger *)
(* than that.                                                              *)
(***************************************************************************)
BootstrapCursors ==
  LET safe == {c \in 0 .. clock : \A p \in Processes : proc[p].stamp # 0 => c < proc[p].stamp}
  IN  {0, CHOOSE c \in safe : \A d \in safe : d <= c}

Build(r, nReads, entries) ==
  \E c \in BootstrapCursors :
    LET id == CHOOSE i \in Ids : i \notin Referred
    IN  /\ current' = id
        /\ read' = [read EXCEPT ![r] = [NoRead EXCEPT !.pc = "list", !.entry = id, !.nReads = nReads]]
        /\ KeepEntries([entries EXCEPT ![id] = [NoEntry EXCEPT !.cursor = c]])

\* #replay unsets `stale` before it reads
Replay(r, id, nReads, entries) ==
  /\ current' = current
  /\ read' = [read EXCEPT ![r] = [NoRead EXCEPT !.pc = "journal", !.entry = id, !.nReads = nReads]]
  /\ KeepEntries([entries EXCEPT ![id].stale = FALSE])

\* mutant: an entry is listed once and only replayed from then on
NeedsBuildOnce == current = 0

\* whether #read lists the repository in full
NeedsBuild == current = 0 \/ entry[current].due

\* get() when no read is in progress; called inside the refresh window of an
\* entry which is not stale it returns what the entry holds and changes nothing
Start(entries) ==
  \E r \in Reads :
    /\ read[r].pc = "idle"
    /\ \A q \in Reads : q < r => read[q].pc # "idle"
    /\ pending' = r
    /\ IF NeedsBuild THEN Build(r, 1, entries) ELSE Replay(r, current, 1, entries)

\* mutant: the calls of get() do not share the read in progress
GetUncoalesced ==
  /\ attached \/ "get" \in LateCalls
  /\ UNCHANGED <<repository, faults, announced, unreplayable, attached, drops, heard>>
  /\ Start(entry)

Get ==
  /\ attached \/ "get" \in LateCalls
  /\ pending = 0
  /\ UNCHANGED <<repository, faults, announced, unreplayable, attached, drops, heard>>
  /\ Start(entry)

\* the timer reads the repositories of the collection; it marks them stale
\* first, which the read it starts at once unsets
Poll == announced # 0 /\ Get

(***************************************************************************)
(* What get() does once a read has ended: #refresh reads the entry again   *)
(* when it has become stale meanwhile, or lets the read settle.            *)
(***************************************************************************)
\* mutant: the reads are not counted
ReadAgainUncounted(r, entries) ==
  /\ current = read[r].entry
  /\ entries[current].stale
  /\ ~unreplayable'
  /\ ~entries[current].due

ReadAgain(r, entries) ==
  LET e == entries[current]
  IN  /\ current = read[r].entry
      /\ e.stale
      /\ ~unreplayable'
      /\ ~e.due
      /\ read[r].nReads < MAX_REFRESH_READS

Settle(r) ==
  /\ read' = [read EXCEPT ![r] = NoRead]
  /\ pending' = IF pending = r THEN 0 ELSE pending

Refreshed(r, entries) ==
  IF current # 0 /\ ReadAgain(r, entries)
  THEN /\ Replay(r, current, read[r].nReads + 1, entries)
       /\ UNCHANGED pending
  ELSE /\ Settle(r)
       /\ current' = current
       /\ KeepEntries(entries)

(***************************************************************************)
(* listAll, by way of RemoteAdapter#_readCacheListVmBackups: the cache, or *)
(* the directory, from which the cache is then written.                    *)
(***************************************************************************)
ListVmBackups(r) ==
  /\ read[r].pc = "list"
  /\ read' = [read EXCEPT ![r].pc = IF cache = NoCache THEN "regenerate" ELSE "listed",
                          ![r].got = IF cache = NoCache THEN files ELSE cache.entries]
  /\ UNCHANGED <<repository, faults, entry, current, announced, pending, unreplayable, attached, drops, heard>>

WriteListedCache(r) ==
  /\ read[r].pc = "regenerate"
  /\ cache' = Content(read[r].got)
  /\ read' = [read EXCEPT ![r].pc = "listed"]
  /\ UNCHANGED <<files, written, journal, clock, proc, faults,
                 entry, current, announced, pending, unreplayable, attached, drops, heard>>

\* mutant: the listing of an entry which has been dropped is announced as well
BuiltAnyway(r) ==
  LET id == read[r].entry
      view == read[r].got
      known == View(announced)
  IN  /\ read[r].pc = "listed"
      /\ announced' = id
      /\ heard' = (heard \cup (view \ known)) \ (known \ view)
      /\ UNCHANGED unreplayable
      /\ Refreshed(r, [entry EXCEPT ![id].built = TRUE, ![id].view = view])
      /\ UNCHANGED <<repository, faults, attached, drops>>

\* the listing is published, and announced unless the entry has been dropped
Built(r) ==
  LET id == read[r].entry
      view == read[r].got
      known == View(announced)
  IN  /\ read[r].pc = "listed"
      /\ IF current = id
         THEN /\ announced' = id
              /\ heard' = (heard \cup (view \ known)) \ (known \ view)
         ELSE UNCHANGED <<announced, heard>>
      /\ UNCHANGED unreplayable
      /\ Refreshed(r, [entry EXCEPT ![id].built = TRUE, ![id].view = view])
      /\ UNCHANGED <<repository, faults, attached, drops>>

(***************************************************************************)
(* readBackupJournalEvents: the last event of every backup named after the *)
(* cursor; an added backup whose metadata is gone counts as deleted, one   *)
(* whose metadata cannot be read (`failed`) holds the cursor back.         *)
(***************************************************************************)
ReadJournal(r, failed) ==
  LET id == read[r].entry
      entries == ReadBackupJournal(entry[id].cursor)
      last == {e \in entries : \A f \in entries : f.backup = e.backup => f.stamp <= e.stamp}
      added == {e.backup : e \in {e \in last : e.event = "add"}}
      retried == {e \in last : e.backup \in failed}
      passed == {e.stamp : e \in {e \in entries : \A f \in retried : e.stamp < f.stamp}}
      cursors == passed \cup {entry[id].cursor}
  IN  /\ read[r].pc = "journal"
      /\ failed \subseteq added \cap files
      /\ IF failed = {} THEN UNCHANGED faults ELSE Fault
      /\ read' = [read EXCEPT
                    ![r].pc = "replayed",
                    ![r].got = (added \cap files) \ failed,
                    ![r].gone = {e.backup : e \in last} \ (added \cap files),
                    ![r].cursor = CHOOSE c \in cursors : \A d \in cursors : d <= c]
      /\ UNCHANGED <<repository, entry, current, announced, pending, unreplayable, attached, drops, heard>>

\* mutant: the changes are announced whichever backups are the announced ones
ReplayedAloud(r) ==
  LET id == read[r].entry
      view == entry[id].view
  IN  /\ read[r].pc = "replayed"
      /\ heard' = (heard \cup (read[r].got \ view)) \ (read[r].gone \cap view)
      /\ unreplayable' = (unreplayable /\ current # id)
      /\ announced' = announced
      /\ Refreshed(r, [entry EXCEPT ![id].view = (view \cup read[r].got) \ read[r].gone,
                                    ![id].cursor = read[r].cursor])
      /\ UNCHANGED <<repository, faults, attached, drops>>

\* the events are applied in place, and announced if these are the announced
\* backups; the mark of a source without journal goes if the entry is in place
Replayed(r) ==
  LET id == read[r].entry
      view == entry[id].view
  IN  /\ read[r].pc = "replayed"
      /\ heard' = IF announced = id
                  THEN (heard \cup (read[r].got \ view)) \ (read[r].gone \cap view)
                  ELSE heard
      /\ unreplayable' = (unreplayable /\ current # id)
      /\ announced' = announced
      /\ Refreshed(r, [entry EXCEPT ![id].view = (view \cup read[r].got) \ read[r].gone,
                                    ![id].cursor = read[r].cursor])
      /\ UNCHANGED <<repository, faults, attached, drops>>

\* the source turns out to have no journal: the repository is listed again
Refused(r) ==
  LET id == read[r].entry
  IN  /\ read[r].pc = "journal"
      /\ current = id \/ "refusal" \in LateCalls
      /\ unreplayable' = (unreplayable \/ current = id)
      /\ announced' = announced
      /\ Build(r, read[r].nReads, entry)
      /\ UNCHANGED <<repository, faults, pending, attached, drops, heard>>

\* the repository cannot be read: the entry is dropped, if it is still there,
\* as by delete() unless it was being listed again: the mark then stays
ReadFailed(r) ==
  LET id == read[r].entry
      replaying == read[r].pc = "journal"
  IN  /\ read[r].pc \in {"list", "journal"}
      /\ Fault
      /\ current' = IF current = id THEN 0 ELSE current
      /\ unreplayable' \in {unreplayable /\ current # id} \cup {u \in {unreplayable} : ~replaying}
      /\ announced' = announced
      /\ read' = [read EXCEPT ![r] = NoRead]
      /\ pending' = IF pending = r THEN 0 ELSE pending
      /\ KeepEntries(entry)
      /\ UNCHANGED <<repository, attached, drops, heard>>

(***************************************************************************)
(* refresh(), at the end of a deletion by this server.                     *)
(***************************************************************************)
\* mutant: a read in progress is taken to be fresh enough
RefreshUnlessReading ==
  LET b == proc["server"].backups
      told == {e \in Appeared : /\ e.backup \in b
                                      /\ e.event = "del"
                                      /\ e.stamp > entry[current].cursor}
  IN  /\ proc["server"].pc = "refresh"
      /\ proc' = [proc EXCEPT !["server"] = Idle]
      /\ entry' = IF current = 0 THEN entry
                  ELSE [entry EXCEPT ![current].stale = (pending = 0),
                                     ![current].owed = @ \cup {e.backup : e \in told}]
      /\ UNCHANGED <<files, written, cache, journal, clock, faults,
                     current, announced, pending, unreplayable, read, attached, drops, heard>>

Refresh ==
  LET b == proc["server"].backups
      told == {e \in Appeared : /\ e.backup \in b
                                      /\ e.event = "del"
                                      /\ e.stamp > entry[current].cursor}
  IN  /\ proc["server"].pc = "refresh"
      /\ proc' = [proc EXCEPT !["server"] = Idle]
      /\ entry' = IF current = 0 THEN entry
                  ELSE [entry EXCEPT ![current].stale = TRUE,
                                     ![current].owed = @ \cup {e.backup : e \in told}]
      /\ UNCHANGED <<files, written, cache, journal, clock, faults,
                     current, announced, pending, unreplayable, read, attached, drops, heard>>

\* refresh() for the changes of others: at the end of a job and by the timer,
\* which may both come while a read is in progress; without one, it would only
\* make the next get() read the repository, as Get always does
RefreshForOthers ==
  /\ current # 0
  /\ \E r \in Reads : read[r].entry = current
  /\ ~entry[current].stale
  /\ entry' = [entry EXCEPT ![current].stale = TRUE]
  /\ UNCHANGED <<repository, faults, current, announced, pending, unreplayable, read, attached, drops, heard>>

\* an hour has gone by since the entry was built
RebuildInterval ==
  /\ current # 0
  /\ entry[current].built
  /\ ~entry[current].due
  /\ entry' = [entry EXCEPT ![current].due = TRUE]
  /\ UNCHANGED <<repository, faults, current, announced, pending, unreplayable, read, attached, drops, heard>>

\* delete(): the entry, the read in flight and the mark are forgotten
Delete ==
  /\ attached
  /\ drops < MaxDrops
  /\ drops' = drops + 1
  /\ current' = 0
  /\ pending' = 0
  /\ unreplayable' = FALSE
  /\ UNCHANGED <<announced, read>>
  /\ KeepEntries(entry)
  /\ UNCHANGED <<repository, faults, attached, heard>>

\* remove(): the repository is gone, and its archives with it
Remove ==
  /\ attached
  /\ drops < MaxDrops
  /\ drops' = drops + 1
  /\ attached' = FALSE
  /\ current' = 0
  /\ pending' = 0
  /\ unreplayable' = FALSE
  /\ announced' = 0
  /\ heard' = heard \ View(announced)
  /\ UNCHANGED read
  /\ KeepEntries(entry)
  /\ UNCHANGED <<repository, faults>>

ReadStep(r) ==
  \/ ListVmBackups(r)
  \/ WriteListedCache(r)
  \/ Built(r)
  \/ ReadJournal(r, {})
  \/ Replayed(r)

Next ==
  \/ RepositoryStep /\ UNCHANGED reader
  \/ Refresh
  \/ RefreshForOthers
  \/ Get
  \/ \E r \in Reads :
       \/ ReadStep(r)
       \/ \E failed \in (SUBSET Backups) \ {{}} : ReadJournal(r, failed)
       \/ Refused(r)
       \/ ReadFailed(r)
  \/ RebuildInterval
  \/ Delete
  \/ Remove

Spec == Init /\ [][Next]_vars

\* operations and reads go on, jobs keep cleaning the directory, the timers
\* keep reading the repositories of the collection and hours go by
Fairness ==
  /\ \A p \in Processes : WF_vars(Proceed(p) /\ UNCHANGED reader) /\ WF_vars(Clean(p) /\ UNCHANGED reader)
  /\ WF_vars(Refresh)
  /\ WF_vars(Poll)
  /\ \A r \in Reads : WF_vars(ReadStep(r))
  /\ WF_vars(RebuildInterval)

FairSpec == Spec /\ Fairness

(***************************************************************************)
(* Properties                                                              *)
(***************************************************************************)

\* A listener that applies the events of the collection holds exactly the
\* announced archives, whichever reads were dropped, replaced or in flight
\* when the changes were announced.
Mirror == heard = View(announced)

\* A deletion by this server is visible at once: refresh() having told the
\* entry of it, the entry no longer holds the backup, unless it is still marked
\* stale or its journal is being read, as long as the entries of the journal
\* appeared in the order of their names.
ReadYourDeletion ==
  (/\ InOrder
   /\ current # 0
   /\ entry[current].built
   /\ ~entry[current].stale
   /\ \A r \in Reads : read[r].entry # current)
  => entry[current].view \cap entry[current].owed = {}

\* The comments of #read and #replay: only an entry whose listing has
\* completed is replayed, though it is registered before it is listed.
Populated == \A r \in Reads : read[r].pc \in {"journal", "replayed"} => entry[read[r].entry].built

\* remove(): once a repository is gone, no archive of it is in the collection
\* again, whatever reads were in flight.
RemovedStaysRemoved == ~attached => announced = 0 /\ heard = {}

\* a drift cleanVm cannot see, since it only compares numbers
Unnoticed ==
  /\ cache # NoCache
  /\ cache.entries # files
  /\ Cardinality(cache.entries) = Cardinality(files)

\* Whatever was lost (an update of the cache, an entry of the journal, a read,
\* a process), the collection of a repository which stays ends up with the
\* backups which are really there, thanks to the hourly listing and to
\* #checkCacheCount, unless the cache is left with as many entries as there are
\* files, and others.
Converges ==
  <>[](attached /\ announced # 0) => \/ <>[](heard = files)
                                     \/ <>[]Unnoticed

=============================================================================
