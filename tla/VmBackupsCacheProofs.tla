------------------------ MODULE VmBackupsCacheProofs ------------------------
(***************************************************************************)
(* Proofs about the listing of a backup repository.                        *)
(***************************************************************************)
EXTENDS VmBackupsCache, FiniteSetTheorems, WellFoundedInduction, TLAPS

(* A set of numbers that is bounded and not empty has a largest one. *)
LEMMA Largest ==
  ASSUME NEW n \in Nat, NEW S \in SUBSET (0 .. n), S # {}
  PROVE  \E m \in S : \A x \in S : x <= m
<1> DEFINE T == {n - x : x \in S}
           R == OpToRel(<, Nat)
<1>1. T \subseteq Nat /\ T # {}
  <2>1. \A x \in S : n - x \in Nat
    OBVIOUS
  <2>2. PICK x \in S : TRUE
    OBVIOUS
  <2>3. n - x \in T
    BY <2>2
  <2> QED BY <2>1, <2>3
<1>2. IsWellFoundedOn(R, Nat)
  BY NatLessThanWellFounded, Zenon
<1>3. PICK t \in T : \A y \in T : t <= y
  <2>1. PICK t \in T : \A y \in T : ~ (<<y, t>> \in R)
    <3> HIDE DEF R, T
    <3> QED BY <1>1, <1>2, WFMin
  <2>2. \A x, y \in Nat : x < y => <<x, y>> \in R
    BY DEF OpToRel
  <2> HIDE DEF R, T
  <2>3. ASSUME NEW y \in T PROVE t <= y
    <3>1. y < t => <<y, t>> \in R
      BY <1>1, <2>2, Zenon
    <3>2. ~ (<<y, t>> \in R)
      BY <2>1, Zenon
    <3>3. y \in Nat /\ t \in Nat
      BY <1>1
    <3> QED BY <3>1, <3>2, <3>3
  <2> QED BY <2>3
<1>4. PICK m \in S : t = n - m
  OBVIOUS
<1>5. ASSUME NEW x \in S PROVE x <= m
  <2>1. n - x \in T
    OBVIOUS
  <2>2. t <= n - x
    BY <2>1, <1>3
  <2> QED BY <2>2, <1>4
<1> QED
  BY <1>5

(***************************************************************************)
(* The repository.  Its invariant is about what its processes may do: only *)
(* the server deletes, only a job adds, and a name never returns, so that  *)
(* a backup whose deletion is in the journal is gone for good.             *)
(***************************************************************************)

\* the job only adds and the server only deletes
Roles ==
  /\ proc["job"].event # "del"
  /\ proc["job"].pc \in {"read", "write", "journal"} => proc["job"].event = "add"
  /\ proc["server"].pc # "idle" => proc["server"].event = "del"

\* the deletion in progress has its place on the clock
Budget == clock + (IF proc["server"].pc \in {"read", "write"} THEN 1 ELSE 0) <= MaxWrites

\* a backup that is being deleted, or whose deletion is in the journal, is gone
Gone ==
  /\ \A e \in Appeared : e.event = "del" => e.backup \in written \ files
  /\ proc["server"].backups \subseteq written \ files

RepositoryInv ==
  /\ RepositoryTypeOK
  /\ journal \in Seq(Entries)
  /\ Roles
  /\ Budget
  /\ Gone

LEMMA InitRepository == RepositoryInit => RepositoryInv
<1> SUFFICES ASSUME RepositoryInit PROVE RepositoryInv
  OBVIOUS
<1> USE RepositoryAssumption DEF RepositoryInit, Idle, Processes
<1>1. RepositoryTypeOK
  <2>1. cache \in Caches
    BY DEF Caches
  <2>2. Idle \in Operations
    BY DEF Operations, Caches, Clock
  <2> QED BY <2>1, <2>2 DEF RepositoryTypeOK, Clock
<1>2. Roles /\ Budget
  BY DEF Roles, Budget
<1>3. Gone
  BY DEF Gone, Appeared
<1> QED
  BY <1>1, <1>2, <1>3 DEF RepositoryInv

(* The bound on the clock is the one the deletion in progress leaves. *)
LEMMA WritesAre ==
  ASSUME RepositoryInv
  PROVE  Writes = clock + (IF proc["server"].pc \in {"read", "write"} THEN 1 ELSE 0)
<1> DEFINE D == {p \in Processes : proc[p].event = "del" /\ proc[p].pc \in {"read", "write"}}
<1>1. D = IF proc["server"].pc \in {"read", "write"} THEN {"server"} ELSE {}
  BY DEF RepositoryInv, Roles, Processes
<1>2. Cardinality({"server"}) = 1 /\ Cardinality({}) = 0
  BY FS_Singleton, FS_EmptySet
<1> QED
  BY <1>1, <1>2 DEF Writes

(* An entry that appears is added to those that have appeared. *)
LEMMA Appears ==
  ASSUME journal \in Seq(Entries), NEW e, journal' = Append(journal, e)
  PROVE  /\ Appeared' = Appeared \cup {e}
         /\ InOrder' => InOrder /\ \A f \in Appeared : f.stamp < e.stamp
         /\ e \in Entries => journal' \in Seq(Entries)
<1> DEFINE n == Len(journal)
<1>1. n \in Nat /\ DOMAIN journal = 1 .. n
  OBVIOUS
<1>2. /\ DOMAIN journal' = 1 .. n + 1
      /\ \A i \in 1 .. n : journal'[i] = journal[i]
      /\ journal'[n + 1] = e
  OBVIOUS
<1> HIDE DEF n
<1>3. Appeared' = Appeared \cup {e}
  BY <1>1, <1>2 DEF Appeared
<1>4. InOrder' => InOrder /\ \A f \in Appeared : f.stamp < e.stamp
  BY <1>1, <1>2 DEF InOrder, Appeared
<1>5. e \in Entries => journal' \in Seq(Entries)
  OBVIOUS
<1> QED
  BY <1>3, <1>4, <1>5

(* What a backup repository never does: bring a backup back, or take an    *)
(* entry of its journal back.                                              *)
OnlyForward ==
  /\ written \ files \subseteq written' \ files'
  /\ \/ Appeared' = Appeared /\ InOrder' = InOrder
     \/ \E e \in Entries :
          /\ Appeared' = Appeared \cup {e}
          /\ InOrder' => InOrder /\ \A f \in Appeared : f.stamp < e.stamp

LEMMA SameJournal ==
  ASSUME journal' = journal
  PROVE  Appeared' = Appeared /\ InOrder' = InOrder
  BY DEF Appeared, InOrder

(* The parts that the steps which leave the journal alone have to keep.    *)
LEMMA KeepsRepository ==
  ASSUME RepositoryInv, journal' = journal,
         files' \subseteq written', written' \subseteq Backups,
         written \ files \subseteq written' \ files',
         proc' \in [Processes -> Operations], clock' \in Clock, cache' \in Caches,
         faults' \in 0 .. MaxFaults, Roles', Budget',
         proc'["server"].backups \subseteq written' \ files'
  PROVE  RepositoryInv' /\ OnlyForward
<1>1. Appeared' = Appeared /\ InOrder' = InOrder
  BY SameJournal
<1>2. Gone'
  BY <1>1 DEF RepositoryInv, Gone
<1>3. RepositoryTypeOK'
  BY DEF RepositoryInv, RepositoryTypeOK
<1> QED
  BY <1>1, <1>2, <1>3 DEF RepositoryInv, OnlyForward

LEMMA RepositoryKept ==
  ASSUME RepositoryInv, RepositoryStep
  PROVE  RepositoryInv' /\ OnlyForward
<1> USE RepositoryAssumption
<1>0. /\ files \subseteq written /\ written \subseteq Backups
      /\ cache \in Caches
      /\ journal \in Seq(Entries)
      /\ clock \in Clock
      /\ proc \in [Processes -> Operations]
      /\ faults \in 0 .. MaxFaults
      /\ {"server", "job"} = Processes
      /\ Clock \subseteq Nat
      /\ Idle \in Operations
  BY DEF RepositoryInv, RepositoryTypeOK, Processes, Clock, Idle, Operations, Caches
<1> USE DEF Roles
<1>r. Roles /\ Budget
  BY DEF RepositoryInv
<1>g. Gone
  BY DEF RepositoryInv
<1>1. ASSUME NEW b \in Backups, WriteVmBackupMetadata(b)
      PROVE  RepositoryInv' /\ OnlyForward
  <2>1. clock + 1 <= MaxWrites /\ clock + 1 \in Clock
    BY <1>0, <1>1, WritesAre DEF WriteVmBackupMetadata, Clock
  <2>2. proc' \in [Processes -> Operations] /\ Roles'
    <3> DEFINE op == [Idle EXCEPT !.pc = "journal", !.event = "add", !.backups = {b}, !.stamp = clock + 1]
    <3>1. proc' = [proc EXCEPT !["job"] = op]
      BY <1>1 DEF WriteVmBackupMetadata
    <3>2. \A x \in Operations : [x EXCEPT !.pc = "journal", !.event = "add"] \in Operations
      BY DEF Operations
    <3>3. \A x \in Operations : [x EXCEPT !.backups = {b}, !.stamp = clock + 1] \in Operations
      BY <2>1 DEF Operations
    <3>4. op \in Operations
      BY <1>0, <3>2, <3>3
    <3>5. op.pc = "journal" /\ op.event = "add"
      BY DEF Idle
    <3> HIDE DEF op
    <3> QED BY <1>0, <1>r, <3>1, <3>4, <3>5
  <2>3. Budget' /\ proc'["server"] = proc["server"]
    BY <1>0, <1>1, <2>1, WritesAre DEF WriteVmBackupMetadata, Budget
  <2>4. written \ files \subseteq written' \ files' /\ files' \subseteq written' /\ written' \subseteq Backups
    BY <1>0, <1>1 DEF WriteVmBackupMetadata
  <2>5. proc'["server"].backups \subseteq written' \ files'
    BY <1>g, <2>3, <2>4 DEF Gone
  <2>6. journal' = journal /\ clock' \in Clock /\ cache' = cache /\ faults' = faults
    BY <1>0, <1>1, <2>1 DEF WriteVmBackupMetadata
  <2> QED BY <1>0, <2>2, <2>3, <2>4, <2>5, <2>6, KeepsRepository
<1>2. ASSUME NEW b \in Backups, DeleteVmBackup(b)
      PROVE  RepositoryInv' /\ OnlyForward
  <2>2. proc' \in [Processes -> Operations] /\ Roles'
    <3> DEFINE op == [Idle EXCEPT !.pc = "read", !.event = "del", !.backups = {b}]
    <3>1. proc' = [proc EXCEPT !["server"] = op]
      BY <1>2 DEF DeleteVmBackup
    <3>2. \A x \in Operations : [x EXCEPT !.pc = "read", !.event = "del"] \in Operations
      BY DEF Operations
    <3>3. \A x \in Operations : [x EXCEPT !.backups = {b}] \in Operations
      BY DEF Operations
    <3>4. op \in Operations
      BY <1>0, <3>2, <3>3
    <3>5. op.event = "del"
      BY DEF Idle
    <3> HIDE DEF op
    <3> QED BY <1>0, <1>r, <3>1, <3>4, <3>5
  <2>3. Budget'
    BY <1>0, <1>2, WritesAre DEF DeleteVmBackup, Budget, Idle
  <2>4. written \ files \subseteq written' \ files' /\ files' \subseteq written' /\ written' = written
    BY <1>0, <1>2 DEF DeleteVmBackup
  <2>5. proc'["server"].backups \subseteq written' \ files'
    BY <1>0, <1>2 DEF DeleteVmBackup, Idle
  <2>6. journal' = journal /\ clock' \in Clock /\ cache' = cache /\ faults' = faults
    BY <1>0, <1>2 DEF DeleteVmBackup
  <2> QED BY <1>0, <2>2, <2>3, <2>4, <2>5, <2>6, KeepsRepository
<1>3. ASSUME NEW p \in Processes, UpdateCacheRead(p)
      PROVE  RepositoryInv' /\ OnlyForward
  <2>1. \A c \in SUBSET Backups : Content(c) \in Caches /\ Content(c).entries = c
    BY DEF Caches, Content
  <2>2. cache # NoCache => cache.entries \in SUBSET Backups
    BY <1>0, <2>1 DEF Caches
  <2>3. PICK c \in Caches : proc' = [proc EXCEPT ![p].pc = "write", ![p].seen = c]
    BY <1>0, <1>3, <2>1, <2>2 DEF UpdateCacheRead, Operations
  <2>4. proc' \in [Processes -> Operations]
    <3>1. proc' = [proc EXCEPT ![p] = [proc[p] EXCEPT !.pc = "write", !.seen = c]]
      BY <1>0, <2>3 DEF Operations
    <3>2. \A x \in Operations : [x EXCEPT !.pc = "write", !.seen = c] \in Operations
      BY DEF Operations
    <3> QED BY <1>0, <3>1, <3>2
  <2>5. Roles' /\ Budget' /\ proc'["server"].backups = proc["server"].backups
    BY <1>0, <1>3, <1>r, <2>3 DEF UpdateCacheRead, Budget, Operations
  <2>6. UNCHANGED <<files, written, cache, journal, clock, faults>>
    BY <1>3 DEF UpdateCacheRead
  <2> QED BY <1>0, <1>g, <2>4, <2>5, <2>6, KeepsRepository DEF Gone
<1>4. ASSUME NEW p \in Processes, UpdateCacheWrite(p)
      PROVE  RepositoryInv' /\ OnlyForward
  <2>1. UNCHANGED <<files, written, journal, faults>> /\ cache' = proc[p].seen /\ cache' \in Caches
    BY <1>0, <1>4 DEF UpdateCacheWrite, Operations
  <2>2. CASE proc[p].event = "add"
    <3>1. proc' = [proc EXCEPT ![p] = Idle] /\ clock' = clock
      BY <1>4, <2>2 DEF UpdateCacheWrite
    <3>2. proc' \in [Processes -> Operations] /\ Roles'
      BY <1>0, <1>r, <3>1 DEF Idle
    <3>3. Budget'
      BY <1>0, <1>r, <3>1 DEF Budget, Idle
    <3>4. proc'["server"].backups \subseteq written' \ files'
      BY <1>0, <1>g, <2>1, <3>1 DEF Gone, Idle
    <3> QED BY <1>0, <2>1, <3>1, <3>2, <3>3, <3>4, KeepsRepository
  <2>3. CASE proc[p].event # "add"
    <3>1. /\ proc' = [proc EXCEPT ![p].pc = "journal", ![p].seen = NoCache, ![p].stamp = clock + 1]
          /\ clock' = clock + 1
      BY <1>4, <2>3 DEF UpdateCacheWrite
    <3>2. p = "server" /\ proc[p].pc = "write"
      BY <1>0, <1>4, <1>r, <2>3 DEF UpdateCacheWrite
    <3>3. clock + 1 <= MaxWrites /\ clock + 1 \in Clock
      BY <1>0, <1>r, <3>2 DEF Budget, Clock
    <3>4. proc' \in [Processes -> Operations] /\ Roles'
      <4>1. NoCache \in Caches
        BY DEF Caches
      <4> DEFINE op == [proc[p] EXCEPT !.pc = "journal", !.seen = NoCache, !.stamp = clock + 1]
      <4>2. proc' = [proc EXCEPT ![p] = op]
        BY <1>0, <3>1 DEF Operations
      <4>3. op \in Operations
        BY <1>0, <3>3, <4>1 DEF Operations
      <4>4. proc' \in [Processes -> Operations]
        <5> HIDE DEF op
        <5> QED BY <1>0, <4>2, <4>3
      <4>5. Roles'
        BY <1>0, <1>r, <3>1, <3>2 DEF Operations
      <4> QED BY <4>4, <4>5
    <3>5. Budget'
      BY <1>0, <3>1, <3>2, <3>3 DEF Budget, Operations
    <3>6. proc'["server"].backups \subseteq written' \ files'
      BY <1>0, <1>g, <2>1, <3>1, <3>2 DEF Gone, Operations
    <3> QED BY <1>0, <2>1, <3>1, <3>3, <3>4, <3>5, <3>6, KeepsRepository
  <2> QED BY <2>2, <2>3
<1>5. ASSUME NEW p \in Processes, Journaled(p), proc[p].pc = "journal"
      PROVE  /\ proc' \in [Processes -> Operations]
             /\ Roles'
             /\ clock' = clock => Budget'
             /\ proc'["server"].backups = proc["server"].backups
  <2>1. proc' \in [Processes -> Operations] /\ proc'["server"].backups = proc["server"].backups
    <3>1. PICK pc \in {"read", "clean"} : proc' = [proc EXCEPT ![p].pc = pc]
      BY <1>5 DEF Journaled
    <3>2. proc' = [proc EXCEPT ![p] = [proc[p] EXCEPT !.pc = pc]]
      BY <1>0, <3>1
    <3>3. \A x \in Operations : [x EXCEPT !.pc = pc] \in Operations /\ [x EXCEPT !.pc = pc].backups = x.backups
      BY DEF Operations
    <3> QED BY <1>0, <3>2, <3>3
  <2>2. Roles'
    BY <1>0, <1>r, <1>5 DEF Journaled, Operations
  <2>3. clock' = clock => Budget'
    BY <1>0, <1>r, <1>5 DEF Journaled, Operations, Budget
  <2> QED BY <2>1, <2>2, <2>3
<1>6. ASSUME NEW p \in Processes, WriteBackupJournalEntry(p)
      PROVE  RepositoryInv' /\ OnlyForward
  <2>1. proc[p].pc = "journal" /\ Journaled(p) /\ UNCHANGED <<files, written, cache, clock, faults>>
    BY <1>6 DEF WriteBackupJournalEntry
  <2>2. PICK b \in proc[p].backups :
          journal' = Append(journal, [stamp |-> proc[p].stamp, backup |-> b, event |-> proc[p].event])
    BY <1>6 DEF WriteBackupJournalEntry
  <2> DEFINE e == [stamp |-> proc[p].stamp, backup |-> b, event |-> proc[p].event]
  <2>3. e \in Entries /\ (e.event = "del" => e.backup \in written \ files)
    BY <1>0, <1>r, <1>g, <2>1 DEF Entries, Operations, Gone
  <2> HIDE DEF e
  <2>4. /\ Appeared' = Appeared \cup {e}
        /\ InOrder' => InOrder /\ \A f \in Appeared : f.stamp < e.stamp
        /\ journal' \in Seq(Entries)
    BY <1>0, <2>2, <2>3, Appears DEF e
  <2>5. Gone'
    BY <1>5, <1>g, <2>1, <2>3, <2>4 DEF Gone
  <2>6. RepositoryTypeOK'
    <3>1. \A i \in DOMAIN journal' : journal'[i] \in Entries
      BY <2>4
    <3> QED BY <1>0, <1>5, <2>1, <3>1 DEF RepositoryTypeOK
  <2>7. OnlyForward
    BY <2>1, <2>3, <2>4 DEF OnlyForward
  <2> QED BY <1>5, <2>1, <2>4, <2>5, <2>6, <2>7 DEF RepositoryInv
<1>7. ASSUME NEW p \in Processes, LoseJournalEntry(p)
      PROVE  RepositoryInv' /\ OnlyForward
  <2>1. proc[p].pc = "journal" /\ Journaled(p) /\ UNCHANGED <<files, written, cache, clock, journal>>
    BY <1>7 DEF LoseJournalEntry
  <2>2. faults' \in 0 .. MaxFaults
    BY <1>0, <1>7 DEF LoseJournalEntry, Fault
  <2> QED BY <1>0, <1>5, <1>g, <2>1, <2>2, KeepsRepository DEF Gone
<1>8. ASSUME NEW p \in Processes, NEW op \in Operations, proc' = [proc EXCEPT ![p] = op],
             op.backups \in {{}, proc[p].backups}, op.event \in {"none", proc[p].event},
             op.pc # "idle" => p = "job" \/ op.event = "del",
             op.pc \notin {"read", "write", "journal"},
             UNCHANGED <<files, written, journal, clock>>, cache' \in Caches, faults' \in 0 .. MaxFaults
      PROVE  RepositoryInv' /\ OnlyForward
  <2>1. proc' \in [Processes -> Operations] /\ Roles'
    BY <1>0, <1>r, <1>8
  <2>2. Budget'
    BY <1>0, <1>r, <1>8 DEF Budget
  <2>3. proc'["server"].backups \subseteq written' \ files'
    BY <1>0, <1>g, <1>8 DEF Gone
  <2> QED BY <1>0, <1>8, <2>1, <2>2, <2>3, KeepsRepository
<1>9. ASSUME NEW p \in Processes
      PROVE  /\ Cleaned(p) \in Operations
             /\ Cleaned(p).backups \in {{}, proc[p].backups}
             /\ Cleaned(p).event \in {"none", proc[p].event}
             /\ Cleaned(p).pc \in {"idle", "refresh"}
             /\ Cleaned(p).pc # "idle" => Cleaned(p).event = proc[p].event /\ p = "server"
  BY <1>0 DEF Cleaned, Operations, Caches, Idle
<1>10. ASSUME NEW p \in Processes, Clean(p)
       PROVE  RepositoryInv' /\ OnlyForward
  <2>1. CASE CleanScan(p)
    <3> DEFINE op == [proc[p] EXCEPT !.pc = "check", !.seen = Content(files)]
    <3>1. proc' = [proc EXCEPT ![p] = op]
      BY <1>0, <2>1 DEF CleanScan, Operations
    <3>2. op \in Operations /\ op.backups = proc[p].backups /\ op.event = proc[p].event /\ op.pc = "check"
      BY <1>0 DEF Operations, Caches
    <3>3. p = "job" \/ op.event = "del"
      BY <1>0, <1>r, <2>1, <3>2 DEF CleanScan
    <3> HIDE DEF op
    <3>4. UNCHANGED <<files, written, cache, journal, clock, faults>>
      BY <2>1 DEF CleanScan
    <3> QED BY <1>0, <1>8, <3>1, <3>2, <3>3, <3>4
  <2>2. CASE CheckCacheCount(p)
    <3>1. UNCHANGED <<files, written, cache, journal, clock, faults>> /\ proc[p].pc = "check"
      BY <2>2 DEF CheckCacheCount
    <3>2. CASE proc' = [proc EXCEPT ![p] = Cleaned(p)]
      <4>1. Cleaned(p).pc # "idle" => p = "job" \/ Cleaned(p).event = "del"
        BY <1>r, <1>9, <3>1
      <4> QED BY <1>0, <1>8, <1>9, <3>1, <3>2, <4>1
    <3>3. CASE proc' = [proc EXCEPT ![p].pc = "regenerate"]
      <4> DEFINE op == [proc[p] EXCEPT !.pc = "regenerate"]
      <4>1. proc' = [proc EXCEPT ![p] = op]
        BY <1>0, <3>3 DEF Operations
      <4>2. op \in Operations /\ op.backups = proc[p].backups /\ op.event = proc[p].event /\ op.pc = "regenerate"
        BY <1>0 DEF Operations
      <4>3. p = "job" \/ op.event = "del"
        BY <1>0, <1>r, <3>1, <4>2
      <4> HIDE DEF op
      <4> QED BY <1>0, <1>8, <3>1, <4>1, <4>2, <4>3
    <3> QED BY <2>2, <3>2, <3>3 DEF CheckCacheCount
  <2>3. CASE RegenerateCache(p)
    <3>1. UNCHANGED <<files, written, journal, clock, faults>> /\ cache' \in Caches /\ proc[p].pc = "regenerate"
      BY <1>0, <2>3 DEF RegenerateCache, Operations
    <3>2. proc' = [proc EXCEPT ![p] = Cleaned(p)]
      BY <2>3 DEF RegenerateCache
    <3>3. Cleaned(p).pc # "idle" => p = "job" \/ Cleaned(p).event = "del"
      BY <1>r, <1>9, <3>1
    <3> QED BY <1>0, <1>8, <1>9, <3>1, <3>2, <3>3
  <2>4. CASE p = "server" /\ CleanRefused
    BY <1>0, <1>8, <2>4 DEF CleanRefused, Idle
  <2> QED BY <1>10, <2>1, <2>2, <2>3, <2>4 DEF Clean
<1>11. CASE Crash
  <2>1. faults' \in 0 .. MaxFaults
    BY <1>0, <1>11 DEF Crash, Fault
  <2> QED BY <1>0, <1>8, <1>11, <2>1 DEF Crash, Idle
<1> QED
  BY <1>1, <1>2, <1>3, <1>4, <1>6, <1>7, <1>10, <1>11 DEF RepositoryStep, Proceed

(***************************************************************************)
(* The reads and the entries they work on.                                 *)
(***************************************************************************)
EntryType == [built : BOOLEAN, view : SUBSET Backups, cursor : Clock,
              stale : BOOLEAN, due : BOOLEAN, owed : SUBSET Backups]

ReadType == [pc : {"idle", "list", "regenerate", "listed", "journal", "replayed"},
             entry : {0} \cup Ids, nReads : 0 .. MAX_REFRESH_READS,
             got : SUBSET Backups, gone : SUBSET Backups, cursor : Clock]

ReaderTypeOK ==
  /\ entry \in [Ids -> EntryType]
  /\ current \in {0} \cup Ids
  /\ announced \in {0} \cup Ids
  /\ pending \in {0} \cup Reads
  /\ unreplayable \in BOOLEAN
  /\ read \in [Reads -> ReadType]
  /\ attached \in BOOLEAN
  /\ drops \in 0 .. MaxDrops
  /\ heard \subseteq Backups

LEMMA TypeParts == TypeOK <=> RepositoryTypeOK /\ ReaderTypeOK
  BY DEF TypeOK, ReaderTypeOK, EntryType, ReadType

\* a read that lists the repository in full
Listing(r) == read[r].pc \in {"list", "regenerate", "listed"}

\* a read in flight works on an entry
Shape == \A r \in Reads : read[r].entry = 0 <=> read[r].pc = "idle"

\* when every read is in flight, one of them is on the entry in place: there
\* is an id left for a new entry
Free == (\A r \in Reads : read[r].entry # 0) => current \in {0} \cup {read[r].entry : r \in Reads}

\* an entry that is being listed is not announced, and no other read lists it
FreshListing ==
  \A r \in Reads : Listing(r) =>
    /\ read[r].entry # announced
    /\ \A q \in Reads : q # r /\ Listing(q) => read[q].entry # read[r].entry

\* no event both adds and deletes a backup
GotGone == \A r \in Reads : read[r].pc = "replayed" => read[r].got \cap read[r].gone = {}

ReadsInv == Shape /\ Free /\ FreshListing /\ GotGone

ReaderInv == ReaderTypeOK /\ ReadsInv /\ Mirror

(* There is always an id for a new entry. *)
LEMMA FreshId ==
  ASSUME ReaderTypeOK, Free
  PROVE  \E i \in Ids : i \notin Referred
<1> DEFINE a == read[1].entry
           b == read[2].entry
<1>1. Reads = {1, 2} /\ a \in Nat /\ b \in Nat /\ current \in Nat /\ announced \in Nat
  BY DEF ReaderTypeOK, ReadType, Reads, Ids
<1>2. Referred = {current, announced, a, b}
  BY <1>1 DEF Referred
<1>3. a = 0 \/ b = 0 \/ current \in {0, a, b}
  BY <1>1 DEF Free
<1> HIDE DEF a, b
<1>4. ASSUME NEW x \in Nat, NEW y \in Nat, NEW z \in Nat, Referred \subseteq {0, x, y, z}
      PROVE  \E i \in Ids : i \notin Referred
  <2>1. \E i \in {1, 2, 3, 4} : i # x /\ i # y /\ i # z
    OBVIOUS
  <2> QED BY <1>4, <2>1 DEF Ids
<1>5. CASE a = 0
  BY <1>1, <1>2, <1>4, <1>5
<1>6. CASE b = 0
  BY <1>1, <1>2, <1>4, <1>6
<1>7. CASE current \in {0, a, b}
  BY <1>1, <1>2, <1>4, <1>7
<1> QED
  BY <1>3, <1>5, <1>6, <1>7

(* What KeepEntries keeps of the entries that are still referred to. *)
Kept(e) ==
  /\ entry' \in [Ids -> EntryType]
  /\ current' # 0 => entry'[current'] = e[current']
  /\ announced' # 0 => entry'[announced'].view = e[announced'].view
  /\ \A r \in Reads : read'[r].entry # 0 =>
       LET i == read'[r].entry
       IN  /\ entry'[i].built = e[i].built
           /\ entry'[i].view = e[i].view
           /\ entry'[i].cursor = e[i].cursor

LEMMA Keeps ==
  ASSUME NEW e \in [Ids -> EntryType], KeepEntries(e),
         current' \in {0} \cup Ids, announced' \in {0} \cup Ids, read' \in [Reads -> ReadType]
  PROVE  Kept(e)
<1>1. NoEntry \in EntryType /\ 0 \notin Ids
  BY RepositoryAssumption DEF NoEntry, EntryType, Clock, Ids
<1>2. ASSUME NEW i \in Ids
      PROVE  /\ entry'[i] \in EntryType
             /\ i = current' => entry'[i] = e[i]
             /\ i = announced' => entry'[i].view = e[i].view
             /\ (\E r \in Reads : read'[r].entry = i) =>
                  /\ entry'[i].built = e[i].built
                  /\ entry'[i].view = e[i].view
                  /\ entry'[i].cursor = e[i].cursor
  <2>0. e[i] \in EntryType
    OBVIOUS
  <2>1. CASE i = current'
    BY <2>0, <2>1 DEF KeepEntries
  <2>2. CASE i # current' /\ \E r \in Reads : read'[r].entry = i
    <3>1. entry'[i] = [e[i] EXCEPT !.stale = FALSE, !.due = FALSE, !.owed = {}]
      BY <2>2 DEF KeepEntries
    <3> QED BY <2>0, <2>2, <3>1 DEF EntryType
  <2>3. CASE i # current' /\ ~ (\E r \in Reads : read'[r].entry = i) /\ i = announced'
    <3>1. entry'[i] = [NoEntry EXCEPT !.built = TRUE, !.view = e[i].view]
      BY <2>3 DEF KeepEntries
    <3> QED BY <1>1, <2>0, <2>3, <3>1 DEF EntryType, NoEntry
  <2>4. CASE i # current' /\ ~ (\E r \in Reads : read'[r].entry = i) /\ i # announced'
    BY <1>1, <2>4 DEF KeepEntries
  <2> QED BY <2>1, <2>2, <2>3, <2>4
<1>3. entry' \in [Ids -> EntryType]
  BY <1>2 DEF KeepEntries
<1>4. \A r \in Reads : read'[r].entry \in {0} \cup Ids
  BY DEF ReadType
<1> QED
  BY <1>2, <1>3, <1>4 DEF Kept

LEMMA CursorsTyped ==
  ASSUME RepositoryInv
  PROVE  BootstrapCursors \subseteq Clock
<1> DEFINE safe == {c \in 0 .. clock : \A p \in Processes : proc[p].stamp # 0 => c < proc[p].stamp}
<1>1. clock \in Nat /\ clock <= MaxWrites /\ \A p \in Processes : proc[p].stamp \in Nat
  BY RepositoryAssumption DEF RepositoryInv, RepositoryTypeOK, Operations, Clock
<1>2. 0 \in safe
  BY <1>1
<1>3. \E m \in safe : \A x \in safe : x <= m
  <2>1. safe \in SUBSET (0 .. clock)
    OBVIOUS
  <2> HIDE DEF safe
  <2> QED BY <1>1, <1>2, <2>1, Largest
<1>4. (CHOOSE c \in safe : \A d \in safe : d <= c) \in safe
  <2> HIDE DEF safe
  <2> QED BY <1>3
<1>5. safe \subseteq Clock /\ 0 \in Clock
  BY <1>1, RepositoryAssumption DEF Clock
<1> QED
  BY <1>4, <1>5 DEF BootstrapCursors

(* A read that begins. *)
LEMMA BegunTyped ==
  ASSUME NEW pc \in {"list", "journal"}, NEW id \in Ids, NEW n \in 0 .. MAX_REFRESH_READS
  PROVE  [NoRead EXCEPT !.pc = pc, !.entry = id, !.nReads = n] \in ReadType
<1>1. NoRead \in ReadType
  BY RepositoryAssumption, CacheAssumption DEF NoRead, ReadType, Clock
<1>2. [NoRead EXCEPT !.pc = pc] \in ReadType
  BY <1>1 DEF ReadType
<1>3. \A x \in ReadType : [x EXCEPT !.entry = id, !.nReads = n] \in ReadType
  BY DEF ReadType
<1> QED
  BY <1>2, <1>3

(* #build: a new entry, which nothing refers to, is registered and listed. *)
Builds(r, nReads, e, id, c) ==
  /\ id \in Ids
  /\ id \notin Referred
  /\ c \in Clock
  /\ current' = id
  /\ read' = [read EXCEPT ![r] = [NoRead EXCEPT !.pc = "list", !.entry = id, !.nReads = nReads]]
  /\ read' \in [Reads -> ReadType]
  /\ Kept([e EXCEPT ![id] = [NoEntry EXCEPT !.cursor = c]])

LEMMA BuildBuilds ==
  ASSUME RepositoryInv, ReaderTypeOK, Free, NEW r \in Reads, NEW n \in 0 .. MAX_REFRESH_READS,
         NEW e \in [Ids -> EntryType], announced' \in {0} \cup Ids, Build(r, n, e)
  PROVE  \E id, c : Builds(r, n, e, id, c)
<1>1. PICK c \in BootstrapCursors :
        LET id == CHOOSE i \in Ids : i \notin Referred
        IN  /\ current' = id
            /\ read' = [read EXCEPT ![r] = [NoRead EXCEPT !.pc = "list", !.entry = id, !.nReads = n]]
            /\ KeepEntries([e EXCEPT ![id] = [NoEntry EXCEPT !.cursor = c]])
  BY DEF Build
<1> DEFINE id == CHOOSE i \in Ids : i \notin Referred
           e1 == [e EXCEPT ![id] = [NoEntry EXCEPT !.cursor = c]]
<1>2. id \in Ids /\ id \notin Referred
  BY FreshId
<1>3. c \in Clock
  BY CursorsTyped
<1>4. /\ current' = id
      /\ read' = [read EXCEPT ![r] = [NoRead EXCEPT !.pc = "list", !.entry = id, !.nReads = n]]
      /\ KeepEntries(e1)
  BY <1>1
<1> HIDE DEF id
<1>5. read' \in [Reads -> ReadType]
  <2>1. [NoRead EXCEPT !.pc = "list", !.entry = id, !.nReads = n] \in ReadType
    BY <1>2, BegunTyped
  <2> QED BY <1>4, <2>1 DEF ReaderTypeOK
<1>6. e1 \in [Ids -> EntryType]
  <2>1. [NoEntry EXCEPT !.cursor = c] \in EntryType
    BY <1>3 DEF NoEntry, EntryType
  <2> QED BY <2>1
<1>7. Kept(e1)
  <2> HIDE DEF e1
  <2> QED BY <1>2, <1>4, <1>5, <1>6, Keeps
<1>8. Builds(r, n, e, id, c)
  BY <1>2, <1>3, <1>4, <1>5, <1>7 DEF Builds
<1> QED
  BY <1>8

(* #replay: a read of the journal begins on the entry. *)
Replays(r, id, nReads, e) ==
  /\ current' = current
  /\ read' = [read EXCEPT ![r] = [NoRead EXCEPT !.pc = "journal", !.entry = id, !.nReads = nReads]]
  /\ read' \in [Reads -> ReadType]
  /\ Kept([e EXCEPT ![id].stale = FALSE])

LEMMA ReplayReplays ==
  ASSUME ReaderTypeOK, NEW r \in Reads, NEW id \in Ids, NEW n \in 0 .. MAX_REFRESH_READS,
         NEW e \in [Ids -> EntryType], announced' \in {0} \cup Ids, Replay(r, id, n, e)
  PROVE  Replays(r, id, n, e)
<1> DEFINE e1 == [e EXCEPT ![id].stale = FALSE]
<1>1. [NoRead EXCEPT !.pc = "journal", !.entry = id, !.nReads = n] \in ReadType
  BY BegunTyped
<1>2. read' \in [Reads -> ReadType]
  BY <1>1 DEF Replay, ReaderTypeOK
<1>3. e1 \in [Ids -> EntryType]
  BY DEF EntryType
<1>4. KeepEntries(e1) /\ current' \in {0} \cup Ids
  BY DEF Replay, ReaderTypeOK
<1>5. Kept(e1)
  <2> HIDE DEF e1
  <2> QED BY <1>2, <1>3, <1>4, Keeps
<1> QED
  BY <1>2, <1>5 DEF Replay, Replays

(* A read that ends leaves its place. *)
LEMMA SettledTyped ==
  ASSUME ReaderTypeOK, NEW r \in Reads, read' = [read EXCEPT ![r] = NoRead]
  PROVE  read' \in [Reads -> ReadType]
<1>1. NoRead \in ReadType
  BY RepositoryAssumption, CacheAssumption DEF NoRead, ReadType, Clock
<1> QED
  BY <1>1 DEF ReaderTypeOK

(* The reads after each of the steps they may take. *)
LEMMA ReadsAfterBuild ==
  ASSUME ReaderTypeOK, ReadsInv, NEW r \in Reads, NEW n, NEW e, NEW id, NEW c, Builds(r, n, e, id, c), announced' = announced
  PROVE  ReadsInv'
<1>1. /\ read'[r].pc = "list" /\ read'[r].entry = id
      /\ \A q \in Reads : q # r => read'[q] = read[q]
  BY DEF Builds, ReaderTypeOK, NoRead
<1>2. id # 0 /\ id # announced /\ \A q \in Reads : read[q].entry # id
  BY DEF Builds, Referred, Ids
<1>3. current' = id
  BY DEF Builds
<1>4. Shape' /\ GotGone'
  BY <1>1, <1>2 DEF ReadsInv, Shape, GotGone
<1>5. Free'
  BY <1>1, <1>3 DEF Free
<1>6. FreshListing'
  BY <1>1, <1>2 DEF ReadsInv, FreshListing, Listing
<1> QED
  BY <1>4, <1>5, <1>6 DEF ReadsInv

LEMMA ReadsAfterReplay ==
  ASSUME ReaderTypeOK, ReadsInv, NEW r \in Reads, NEW n, NEW e, current # 0, Replays(r, current, n, e),
         announced' = announced \/ (announced' = read[r].entry /\ Listing(r))
  PROVE  ReadsInv'
<1>1. /\ read'[r].pc = "journal" /\ read'[r].entry = current
      /\ \A q \in Reads : q # r => read'[q] = read[q]
  BY DEF Replays, ReaderTypeOK, NoRead
<1>2. current' = current
  BY DEF Replays
<1>3. Shape' /\ GotGone'
  BY <1>1 DEF ReadsInv, Shape, GotGone
<1>4. Free'
  BY <1>1, <1>2 DEF Free
<1>5. FreshListing'
  BY <1>1 DEF ReadsInv, FreshListing, Listing
<1> QED
  BY <1>3, <1>4, <1>5 DEF ReadsInv

LEMMA ReadsAfterEnd ==
  ASSUME ReaderTypeOK, ReadsInv, NEW r \in Reads, read' = [read EXCEPT ![r] = NoRead],
         announced' = announced \/ (announced' = read[r].entry /\ Listing(r))
  PROVE  ReadsInv'
<1>1. /\ read'[r].pc = "idle" /\ read'[r].entry = 0
      /\ \A q \in Reads : q # r => read'[q] = read[q]
  BY DEF ReaderTypeOK, NoRead
<1>2. Shape' /\ GotGone' /\ Free'
  BY <1>1 DEF ReadsInv, Shape, GotGone, Free
<1>3. FreshListing'
  BY <1>1 DEF ReadsInv, FreshListing, Listing
<1> QED
  BY <1>2, <1>3 DEF ReadsInv

\* a read goes on with the entry it works on
LEMMA ReadsGoOn ==
  ASSUME ReaderTypeOK, ReadsInv, NEW r \in Reads, read' \in [Reads -> ReadType],
         \A q \in Reads : q # r => read'[q] = read[q],
         read'[r].entry = read[r].entry, read[r].pc # "idle", read'[r].pc # "idle",
         Listing(r)' => Listing(r), read'[r].pc = "replayed" => read'[r].got \cap read'[r].gone = {},
         current' = current, announced' = announced
  PROVE  ReadsInv'
<1>1. Shape' /\ GotGone'
  BY DEF ReadsInv, Shape, GotGone
<1>2. Free'
  BY DEF ReadsInv, Free
<1>3. FreshListing'
  BY DEF ReadsInv, FreshListing, Listing
<1> QED
  BY <1>1, <1>2, <1>3 DEF ReadsInv

\* or nothing changes but what is in place or announced
LEMMA ReadsStay ==
  ASSUME ReadsInv, read' = read, current' \in {0, current}, announced' \in {0, announced}
  PROVE  ReadsInv'
<1>1. Shape' /\ GotGone' /\ Free'
  BY DEF ReadsInv, Shape, GotGone, Free
<1>2. FreshListing'
  BY DEF ReadsInv, FreshListing, Listing, Shape
<1> QED
  BY <1>1, <1>2 DEF ReadsInv

(***************************************************************************)
(* What each action does, in the terms above.                              *)
(***************************************************************************)

(* A step of the reader that leaves the repository alone. *)
LEMMA RepositoryIdle ==
  ASSUME RepositoryInv, UNCHANGED repository, faults' \in 0 .. MaxFaults
  PROVE  RepositoryInv' /\ OnlyForward
<1>1. UNCHANGED <<files, written, cache, journal, clock, proc>>
  BY DEF repository
<1>2. Roles' /\ Budget' /\ proc'["server"].backups \subseteq written' \ files'
  BY <1>1 DEF RepositoryInv, Roles, Budget, Gone
<1> QED
  BY <1>1, <1>2, KeepsRepository DEF RepositoryInv, RepositoryTypeOK

LEMMA FaultTyped ==
  ASSUME RepositoryInv, Fault
  PROVE  faults' \in 0 .. MaxFaults
  BY RepositoryAssumption DEF RepositoryInv, RepositoryTypeOK, Fault

\* get(): a read begins, that lists a new entry or replays the one in place
GetEffect(r) ==
  /\ pending = 0
  /\ read[r].pc = "idle"
  /\ pending' = r
  /\ \/ \E id, c : Builds(r, 1, entry, id, c)
     \/ current # 0 /\ Replays(r, current, 1, entry)

LEMMA GetDoes ==
  ASSUME RepositoryInv, ReaderInv, Get
  PROVE  \E r \in Reads : GetEffect(r)
<1>1. PICK r \in Reads :
        /\ read[r].pc = "idle"
        /\ pending' = r
        /\ IF NeedsBuild THEN Build(r, 1, entry) ELSE Replay(r, current, 1, entry)
  BY DEF Get, Start
<1>2. ReaderTypeOK /\ Free /\ entry \in [Ids -> EntryType] /\ announced' \in {0} \cup Ids
  BY DEF ReaderInv, ReadsInv, ReaderTypeOK, Get
<1>3. 1 \in 0 .. MAX_REFRESH_READS
  BY CacheAssumption
<1>4. CASE NeedsBuild
  BY <1>1, <1>2, <1>3, <1>4, BuildBuilds DEF GetEffect, Get
<1>5. CASE ~NeedsBuild
  <2>1. current # 0 /\ current \in Ids
    BY <1>2, <1>5 DEF NeedsBuild, ReaderTypeOK
  <2> QED BY <1>1, <1>2, <1>3, <1>5, <2>1, ReplayReplays DEF GetEffect, Get
<1> QED
  BY <1>4, <1>5

\* #refresh: the read begins again on the entry in place, or ends
Refreshes(r, e) ==
  \/ /\ current # 0
     /\ current = read[r].entry
     /\ \E n : Replays(r, current, n, e)
     /\ pending' = pending
  \/ /\ read' = [read EXCEPT ![r] = NoRead]
     /\ read' \in [Reads -> ReadType]
     /\ pending' = IF pending = r THEN 0 ELSE pending
     /\ current' = current
     /\ Kept(e)

LEMMA RefreshedRefreshes ==
  ASSUME ReaderTypeOK, NEW r \in Reads, NEW e \in [Ids -> EntryType], announced' \in {0} \cup Ids, Refreshed(r, e)
  PROVE  Refreshes(r, e)
<1>1. CASE current # 0 /\ ReadAgain(r, e)
  <2>1. current = read[r].entry /\ read[r].nReads < MAX_REFRESH_READS
    BY <1>1 DEF ReadAgain
  <2>2. read[r].nReads + 1 \in 0 .. MAX_REFRESH_READS /\ current \in Ids
    BY <1>1, <2>1, CacheAssumption DEF ReaderTypeOK, ReadType
  <2>3. Replay(r, current, read[r].nReads + 1, e) /\ pending' = pending
    BY <1>1 DEF Refreshed
  <2> QED BY <1>1, <2>1, <2>2, <2>3, ReplayReplays DEF Refreshes
<1>2. CASE ~ (current # 0 /\ ReadAgain(r, e))
  <2>1. Settle(r) /\ current' = current /\ KeepEntries(e)
    BY <1>2 DEF Refreshed
  <2>2. read' \in [Reads -> ReadType]
    BY <2>1, SettledTyped DEF Settle
  <2>3. Kept(e)
    BY <2>1, <2>2, Keeps DEF ReaderTypeOK
  <2> QED BY <2>1, <2>2, <2>3 DEF Settle, Refreshes
<1> QED
  BY <1>1, <1>2

LEMMA RefreshesReads ==
  ASSUME ReaderTypeOK, ReadsInv, NEW r \in Reads, NEW e, Refreshes(r, e),
         announced' = announced \/ (announced' = read[r].entry /\ Listing(r))
  PROVE  /\ ReadsInv'
         /\ current' = current
         /\ read' \in [Reads -> ReadType]
         /\ pending' \in {0, pending}
<1>1. CASE \E n : current # 0 /\ Replays(r, current, n, e) /\ pending' = pending
  BY <1>1, ReadsAfterReplay DEF Replays
<1>2. CASE /\ read' = [read EXCEPT ![r] = NoRead]
           /\ read' \in [Reads -> ReadType]
           /\ pending' \in {0, pending}
           /\ current' = current
  BY <1>2, ReadsAfterEnd
<1> QED
  BY <1>1, <1>2 DEF Refreshes

\* the backups of the announced entry after #refresh
LEMMA RefreshesView ==
  ASSUME ReaderTypeOK, NEW r \in Reads, NEW e \in [Ids -> EntryType], announced' \in Ids, Refreshes(r, e)
  PROVE  entry' \in [Ids -> EntryType] /\ entry'[announced'].view = e[announced'].view
<1>1. ASSUME NEW n, Replays(r, current, n, e), current # 0
      PROVE  entry' \in [Ids -> EntryType] /\ entry'[announced'].view = e[announced'].view
  <2>1. current \in Ids /\ 0 \notin Ids
    BY <1>1 DEF ReaderTypeOK, Ids
  <2>2. [e EXCEPT ![current].stale = FALSE][announced'].view = e[announced'].view
    BY <2>1 DEF EntryType
  <2> QED BY <1>1, <2>1, <2>2 DEF Replays, Kept
<1>2. CASE Kept(e)
  BY <1>2 DEF Kept, Ids
<1> QED
  BY <1>1, <1>2 DEF Refreshes

LEMMA RefreshesEntries ==
  ASSUME NEW r, NEW e, Refreshes(r, e)
  PROVE  entry' \in [Ids -> EntryType]
  BY DEF Refreshes, Replays, Kept

(***************************************************************************)
(* Every action preserves the invariant of the repository and of the reads *)
(* and leaves what was heard a mirror of what is announced.                *)
(***************************************************************************)
Inv == RepositoryInv /\ ReaderInv

\* nothing the listeners see changes
LEMMA MirrorKept ==
  ASSUME ReaderTypeOK, Mirror, announced' = announced, heard' = heard,
         announced # 0 => entry'[announced].view = entry[announced].view
  PROVE  Mirror'
  BY DEF Mirror, View

LEMMA GetKeeps ==
  ASSUME Inv, Get
  PROVE  Inv' /\ OnlyForward
<1>0. RepositoryInv /\ ReaderInv /\ ReaderTypeOK /\ ReadsInv /\ Mirror
  BY DEF Inv, ReaderInv
<1>1. UNCHANGED <<repository, faults, announced, unreplayable, attached, drops, heard>>
  BY DEF Get
<1>2. RepositoryInv' /\ OnlyForward
  BY <1>0, <1>1, RepositoryIdle DEF RepositoryInv, RepositoryTypeOK
<1>3. PICK r \in Reads : GetEffect(r)
  BY <1>0, GetDoes
<1>4. ASSUME NEW id, NEW c, Builds(r, 1, entry, id, c)
      PROVE  ReaderInv'
  <2>1. ReadsInv'
    BY <1>0, <1>1, <1>4, ReadsAfterBuild
  <2>2. ReaderTypeOK'
    BY <1>0, <1>1, <1>3, <1>4 DEF ReaderTypeOK, Builds, Kept, GetEffect
  <2>3. announced # 0 => entry'[announced].view = entry[announced].view
    <3>1. id \in Ids /\ id # announced
      BY <1>4 DEF Builds, Referred
    <3> QED BY <1>0, <1>1, <1>4, <3>1 DEF ReaderTypeOK, Builds, Kept
  <2> QED BY <1>0, <1>1, <2>1, <2>2, <2>3, MirrorKept DEF ReaderInv
<1>5. ASSUME current # 0, Replays(r, current, 1, entry)
      PROVE  ReaderInv'
  <2>1. ReadsInv'
    BY <1>0, <1>1, <1>5, ReadsAfterReplay
  <2>2. ReaderTypeOK'
    BY <1>0, <1>1, <1>3, <1>5 DEF ReaderTypeOK, Replays, Kept, GetEffect
  <2>3. announced # 0 => entry'[announced].view = entry[announced].view
    <3>1. current \in Ids /\ announced \in {0} \cup Ids /\ entry \in [Ids -> EntryType]
      BY <1>0, <1>5 DEF ReaderTypeOK
    <3>2. announced # 0 => [entry EXCEPT ![current].stale = FALSE][announced].view = entry[announced].view
      BY <3>1 DEF EntryType
    <3> QED BY <1>1, <1>5, <3>2 DEF Replays, Kept
  <2> QED BY <1>0, <1>1, <2>1, <2>2, <2>3, MirrorKept DEF ReaderInv
<1> QED
  BY <1>2, <1>3, <1>4, <1>5 DEF GetEffect, Inv

LEMMA ListVmBackupsKeeps ==
  ASSUME Inv, NEW r \in Reads, ListVmBackups(r)
  PROVE  Inv' /\ OnlyForward
<1>0. RepositoryInv /\ ReaderTypeOK /\ ReadsInv /\ Mirror
  BY DEF Inv, ReaderInv
<1>1. UNCHANGED <<repository, faults, entry, current, announced, pending, unreplayable, attached, drops, heard>>
  BY DEF ListVmBackups
<1>2. RepositoryInv' /\ OnlyForward
  BY <1>0, <1>1, RepositoryIdle DEF RepositoryInv, RepositoryTypeOK
<1>3. PICK pc \in {"regenerate", "listed"}, g \in SUBSET Backups :
        read' = [read EXCEPT ![r].pc = pc, ![r].got = g]
  <2>1. files \in SUBSET Backups
    BY <1>0 DEF RepositoryInv, RepositoryTypeOK
  <2>2. cache # NoCache => cache.entries \in SUBSET Backups
    BY <1>0 DEF RepositoryInv, RepositoryTypeOK, Caches, Content
  <2> QED BY <2>1, <2>2 DEF ListVmBackups
<1>4. read' \in [Reads -> ReadType]
  <2>1. read' = [read EXCEPT ![r] = [read[r] EXCEPT !.pc = pc, !.got = g]]
    BY <1>0, <1>3 DEF ReaderTypeOK, ReadType
  <2>2. \A x \in ReadType : [x EXCEPT !.pc = pc, !.got = g] \in ReadType
    BY DEF ReadType
  <2> QED BY <1>0, <2>1, <2>2 DEF ReaderTypeOK
<1>5. /\ \A q \in Reads : q # r => read'[q] = read[q]
      /\ read'[r].entry = read[r].entry
      /\ read'[r].pc \in {"regenerate", "listed"}
      /\ read[r].pc = "list"
  BY <1>0, <1>3 DEF ListVmBackups, ReaderTypeOK, ReadType
<1>6. ReadsInv'
  BY <1>0, <1>1, <1>4, <1>5, ReadsGoOn DEF Listing
<1>7. ReaderTypeOK' /\ Mirror'
  BY <1>0, <1>1, <1>4 DEF ReaderTypeOK, Mirror, View
<1> QED
  BY <1>2, <1>6, <1>7 DEF Inv, ReaderInv

LEMMA WriteListedCacheKeeps ==
  ASSUME Inv, NEW r \in Reads, WriteListedCache(r)
  PROVE  Inv' /\ OnlyForward
<1>0. RepositoryInv /\ ReaderTypeOK /\ ReadsInv /\ Mirror
  BY DEF Inv, ReaderInv
<1>1. /\ UNCHANGED <<files, written, journal, clock, proc, faults,
                      entry, current, announced, pending, unreplayable, attached, drops, heard>>
      /\ cache' = Content(read[r].got)
      /\ read' = [read EXCEPT ![r].pc = "listed"]
      /\ read[r].pc = "regenerate"
  BY DEF WriteListedCache
<1>2. cache' \in Caches
  BY <1>0, <1>1 DEF ReaderTypeOK, ReadType, Caches
<1>3. RepositoryInv' /\ OnlyForward
  <2>1. Roles' /\ Budget' /\ proc'["server"].backups \subseteq written' \ files'
    BY <1>0, <1>1 DEF RepositoryInv, Roles, Budget, Gone
  <2> QED BY <1>0, <1>1, <1>2, <2>1, KeepsRepository DEF RepositoryInv, RepositoryTypeOK
<1>4. read' \in [Reads -> ReadType]
  BY <1>0, <1>1 DEF ReaderTypeOK, ReadType
<1>5. /\ \A q \in Reads : q # r => read'[q] = read[q]
      /\ read'[r].entry = read[r].entry
      /\ read'[r].pc = "listed"
  BY <1>0, <1>1 DEF ReaderTypeOK, ReadType
<1>6. ReadsInv'
  BY <1>0, <1>1, <1>4, <1>5, ReadsGoOn DEF Listing
<1>7. ReaderTypeOK' /\ Mirror'
  BY <1>0, <1>1, <1>4 DEF ReaderTypeOK, Mirror, View
<1> QED
  BY <1>3, <1>6, <1>7 DEF Inv, ReaderInv

\* the entry a listing is published in
Published(r) == [entry EXCEPT ![read[r].entry].built = TRUE, ![read[r].entry].view = read[r].got]

LEMMA BuiltDoes ==
  ASSUME ReaderTypeOK, ReadsInv, NEW r \in Reads, Built(r)
  PROVE  /\ read[r].entry \in Ids
         /\ Published(r) \in [Ids -> EntryType]
         /\ Published(r)[read[r].entry].view = read[r].got
         /\ announced' \in {0} \cup Ids
         /\ Refreshes(r, Published(r))
<1>1. read[r].entry \in Ids
  BY DEF ReaderTypeOK, ReadType, ReadsInv, Shape, Built
<1>2. /\ Published(r) \in [Ids -> EntryType]
      /\ Published(r)[read[r].entry].view = read[r].got
  <2>1. Published(r) = [entry EXCEPT ![read[r].entry] = [entry[read[r].entry] EXCEPT !.built = TRUE, !.view = read[r].got]]
    BY <1>1 DEF Published, ReaderTypeOK, EntryType
  <2>2. [entry[read[r].entry] EXCEPT !.built = TRUE, !.view = read[r].got] \in EntryType
    <3>1. read[r].got \in SUBSET Backups /\ entry[read[r].entry] \in EntryType
      BY <1>1 DEF ReaderTypeOK, ReadType
    <3> QED BY <3>1 DEF EntryType
  <2> QED BY <1>1, <2>1, <2>2 DEF ReaderTypeOK, EntryType
<1>3. announced' \in {0} \cup Ids
  BY <1>1 DEF Built, ReaderTypeOK
<1>4. Refreshed(r, Published(r))
  BY DEF Built, Published
<1> QED
  BY <1>1, <1>2, <1>3, <1>4, RefreshedRefreshes

LEMMA BuiltKeeps ==
  ASSUME Inv, NEW r \in Reads, Built(r)
  PROVE  Inv' /\ OnlyForward
<1>0. RepositoryInv /\ ReaderTypeOK /\ ReadsInv /\ Mirror
  BY DEF Inv, ReaderInv
<1>1. UNCHANGED <<repository, faults, unreplayable, attached, drops>> /\ Listing(r)
  BY DEF Built, Listing
<1>2. RepositoryInv' /\ OnlyForward
  BY <1>0, <1>1, RepositoryIdle DEF RepositoryInv, RepositoryTypeOK
<1> DEFINE id == read[r].entry
           e == Published(r)
<1>3. /\ id \in Ids
      /\ e \in [Ids -> EntryType]
      /\ e[id].view = read[r].got
      /\ announced' \in {0} \cup Ids
      /\ Refreshes(r, e)
  BY <1>0, BuiltDoes
<1>4. id # announced /\ \A i \in Ids : i # id => e[i] = entry[i]
  BY <1>0, <1>1, <1>3 DEF ReadsInv, FreshListing, Published, ReaderTypeOK
<1>5. /\ current = id => announced' = id /\ heard' = (heard \cup (read[r].got \ View(announced))) \ (View(announced) \ read[r].got)
      /\ current # id => announced' = announced /\ heard' = heard
  BY DEF Built
<1>6. read[r].got \subseteq Backups
  BY <1>0 DEF ReaderTypeOK, ReadType
<1> HIDE DEF e, id
<1>7. /\ ReadsInv'
      /\ current' = current
      /\ read' \in [Reads -> ReadType]
      /\ pending' \in {0, pending}
  BY <1>0, <1>1, <1>3, <1>5, RefreshesReads DEF id
<1>8. entry' \in [Ids -> EntryType]
  BY <1>3, RefreshesEntries
<1>9. announced' \in Ids => entry'[announced'].view = e[announced'].view
  BY <1>0, <1>3, RefreshesView
<1>10. Mirror'
  <2>1. CASE current = id
    <3>1. heard' = read[r].got
      BY <1>0, <1>5, <2>1 DEF Mirror
    <3>2. entry'[announced'].view = read[r].got /\ announced' # 0
      BY <1>3, <1>5, <1>9, <2>1 DEF Ids
    <3> QED BY <3>1, <3>2 DEF Mirror, View
  <2>2. CASE current # id
    BY <1>0, <1>3, <1>4, <1>5, <1>9, <2>2 DEF Mirror, View, ReaderTypeOK, Ids
  <2> QED BY <2>1, <2>2
<1>11. ReaderTypeOK'
  <2>1. heard' \subseteq Backups
    BY <1>0, <1>5, <1>6 DEF ReaderTypeOK
  <2> QED BY <1>0, <1>1, <1>3, <1>7, <1>8, <2>1 DEF ReaderTypeOK
<1> QED
  BY <1>2, <1>7, <1>10, <1>11 DEF Inv, ReaderInv

LEMMA JournalTyped ==
  ASSUME RepositoryInv
  PROVE  Appeared \subseteq Entries
  BY DEF RepositoryInv, Appeared

(* What a read of the journal brings: backups that are there, the deletion *)
(* of every backup that is gone, and a cursor which is one of the entries. *)
JournalEffect(r) ==
  LET id == read[r].entry
  IN  \E got, gone \in SUBSET Backups, c \in Clock :
        /\ read' = [read EXCEPT ![r].pc = "replayed", ![r].got = got, ![r].gone = gone, ![r].cursor = c]
        /\ got \cap gone = {}
        /\ got \subseteq files
        /\ \A e \in Appeared : e.stamp > entry[id].cursor /\ e.backup \notin files => e.backup \in gone
        /\ c \in {entry[id].cursor} \cup {e.stamp : e \in Appeared}

LEMMA JournalDoes ==
  ASSUME RepositoryInv, ReaderTypeOK, ReadsInv, NEW r \in Reads, NEW failed, ReadJournal(r, failed)
  PROVE  JournalEffect(r)
<1> DEFINE id == read[r].entry
           entries == ReadBackupJournal(entry[id].cursor)
           last == {e \in entries : \A f \in entries : f.backup = e.backup => f.stamp <= e.stamp}
           added == {e.backup : e \in {e \in last : e.event = "add"}}
           retried == {e \in last : e.backup \in failed}
           passed == {e.stamp : e \in {e \in entries : \A f \in retried : e.stamp < f.stamp}}
           cursors == passed \cup {entry[id].cursor}
           got == (added \cap files) \ failed
           gone == {e.backup : e \in last} \ (added \cap files)
           c == CHOOSE c \in cursors : \A d \in cursors : d <= c
<1>1. read' = [read EXCEPT ![r].pc = "replayed", ![r].got = got, ![r].gone = gone, ![r].cursor = c]
  BY DEF ReadJournal
<1>2. Appeared \subseteq Entries
  BY JournalTyped
<1>3. entries = {e \in Appeared : e.stamp > entry[id].cursor}
  BY DEF ReadBackupJournal
<1>4. id \in Ids /\ entry[id].cursor \in Clock
  BY DEF ReaderTypeOK, ReadType, EntryType, ReadsInv, Shape, ReadJournal
<1> HIDE DEF entries, id
<1>5. last \subseteq Entries
  BY <1>2, <1>3
<1>6. got \in SUBSET Backups /\ gone \in SUBSET Backups
  <2>1. \A e \in last : e.backup \in Backups
    BY <1>5 DEF Entries
  <2>2. added \subseteq Backups
    BY <2>1
  <2> HIDE DEF last, added
  <2> QED BY <2>1, <2>2
<1>7. got \cap gone = {} /\ got \subseteq files
  OBVIOUS
<1>8. ASSUME NEW e \in Appeared, e.stamp > entry[id].cursor, e.backup \notin files
      PROVE  e.backup \in gone
  <2> DEFINE same == {f \in entries : f.backup = e.backup}
             stamps == {f.stamp : f \in same}
  <2>1. e \in same
    BY <1>3, <1>8
  <2>2. e.stamp \in stamps
    BY <2>1
  <2>3. stamps \in SUBSET (0 .. MaxWrites)
    BY <1>2, <1>3 DEF Entries, Clock
  <2>4. PICK m \in stamps : \A x \in stamps : x <= m
    <3> HIDE DEF stamps
    <3> QED BY <2>2, <2>3, Largest, RepositoryAssumption
  <2>5. PICK f \in same : m = f.stamp
    OBVIOUS
  <2>6. \A g \in entries : g.backup = f.backup => g.stamp <= f.stamp
    <3>1. \A g \in entries : g.backup = f.backup => g.stamp \in stamps
      BY <2>5
    <3> QED BY <2>4, <2>5, <3>1
  <2>7. f \in last
    BY <2>5, <2>6
  <2>8. f.backup = e.backup
    BY <2>5
  <2> HIDE DEF last, added, same
  <2> QED BY <1>8, <2>7, <2>8
<1>9. c \in cursors
  <2>1. cursors \in SUBSET (0 .. MaxWrites)
    <3>1. passed \subseteq Clock
      BY <1>2, <1>3 DEF Entries
    <3> HIDE DEF passed
    <3> QED BY <1>4, <3>1 DEF Clock
  <2>2. cursors # {}
    OBVIOUS
  <2> HIDE DEF cursors
  <2>3. \E m \in cursors : \A x \in cursors : x <= m
    BY <2>1, <2>2, Largest, RepositoryAssumption
  <2> QED BY <2>3
<1>10. cursors \subseteq {entry[id].cursor} \cup {e.stamp : e \in Appeared} /\ cursors \subseteq Clock
  <2>1. \A x \in passed : \E e \in Appeared : x = e.stamp
    BY <1>3
  <2>2. \A e \in Appeared : e.stamp \in Clock
    BY <1>2 DEF Entries
  <2> HIDE DEF passed
  <2> QED BY <1>4, <2>1, <2>2
<1> HIDE DEF got, gone, c, cursors
<1> QED
  BY <1>1, <1>6, <1>7, <1>8, <1>9, <1>10 DEF JournalEffect, id

LEMMA ReadJournalKeeps ==
  ASSUME Inv, NEW r \in Reads, NEW failed, ReadJournal(r, failed)
  PROVE  Inv' /\ OnlyForward
<1>0. RepositoryInv /\ ReaderTypeOK /\ ReadsInv /\ Mirror
  BY DEF Inv, ReaderInv
<1>1. UNCHANGED <<repository, entry, current, announced, pending, unreplayable, attached, drops, heard>>
  BY DEF ReadJournal
<1>2. faults' \in 0 .. MaxFaults
  <2>1. CASE failed = {}
    BY <1>0, <2>1 DEF ReadJournal, RepositoryInv, RepositoryTypeOK
  <2>2. CASE failed # {}
    BY <1>0, <2>2, FaultTyped DEF ReadJournal
  <2> QED BY <2>1, <2>2
<1>3. RepositoryInv' /\ OnlyForward
  BY <1>0, <1>1, <1>2, RepositoryIdle
<1>4. PICK got \in SUBSET Backups, gone \in SUBSET Backups, c \in Clock :
        /\ read' = [read EXCEPT ![r].pc = "replayed", ![r].got = got, ![r].gone = gone, ![r].cursor = c]
        /\ got \cap gone = {}
  BY <1>0, JournalDoes DEF JournalEffect
<1>5. PICK x \in ReadType :
        /\ read' = [read EXCEPT ![r] = x]
        /\ x.pc = "replayed" /\ x.entry = read[r].entry /\ x.got \cap x.gone = {}
  <2> DEFINE x == [read[r] EXCEPT !.pc = "replayed", !.got = got, !.gone = gone, !.cursor = c]
  <2>1. read[r] \in ReadType
    BY <1>0 DEF ReaderTypeOK
  <2>2. read' = [read EXCEPT ![r] = x]
    BY <1>0, <1>4 DEF ReaderTypeOK, ReadType
  <2>3. x \in ReadType
    BY <2>1 DEF ReadType
  <2>4. x.pc = "replayed" /\ x.entry = read[r].entry /\ x.got = got /\ x.gone = gone
    BY <2>1 DEF ReadType
  <2> HIDE DEF x
  <2> QED BY <1>4, <2>2, <2>3, <2>4
<1>6. read' \in [Reads -> ReadType]
  BY <1>0, <1>5 DEF ReaderTypeOK
<1>7. /\ \A q \in Reads : q # r => read'[q] = read[q]
      /\ read'[r] = x
      /\ read[r].pc = "journal"
  BY <1>0, <1>5 DEF ReaderTypeOK, ReadJournal
<1>8. ReadsInv'
  BY <1>0, <1>1, <1>5, <1>6, <1>7, ReadsGoOn DEF Listing
<1>9. ReaderTypeOK' /\ Mirror'
  BY <1>0, <1>1, <1>6 DEF ReaderTypeOK, Mirror, View
<1> QED
  BY <1>3, <1>8, <1>9 DEF Inv, ReaderInv

\* the entry the events of the journal are applied to
Applied(r) == [entry EXCEPT ![read[r].entry].view = (entry[read[r].entry].view \cup read[r].got) \ read[r].gone,
                            ![read[r].entry].cursor = read[r].cursor]

LEMMA ReplayedDoes ==
  ASSUME ReaderTypeOK, ReadsInv, NEW r \in Reads, Replayed(r)
  PROVE  /\ read[r].entry \in Ids
         /\ Applied(r) \in [Ids -> EntryType]
         /\ Applied(r)[read[r].entry] =
              [entry[read[r].entry] EXCEPT !.view = (entry[read[r].entry].view \cup read[r].got) \ read[r].gone,
                                           !.cursor = read[r].cursor]
         /\ \A i \in Ids : i # read[r].entry => Applied(r)[i] = entry[i]
         /\ Refreshes(r, Applied(r))
<1> DEFINE id == read[r].entry
           x == [entry[id] EXCEPT !.view = (entry[id].view \cup read[r].got) \ read[r].gone, !.cursor = read[r].cursor]
<1>1. id \in Ids
  BY DEF ReaderTypeOK, ReadType, ReadsInv, Shape, Replayed
<1>2. read[r].got \in SUBSET Backups /\ read[r].cursor \in Clock /\ entry[id] \in EntryType
  BY <1>1 DEF ReaderTypeOK, ReadType
<1>3. Applied(r) = [entry EXCEPT ![id] = x]
  BY <1>1 DEF Applied, ReaderTypeOK, EntryType
<1>4. x \in EntryType
  BY <1>2 DEF EntryType
<1>5. /\ Applied(r) \in [Ids -> EntryType]
      /\ Applied(r)[id] = x
      /\ \A i \in Ids : i # id => Applied(r)[i] = entry[i]
  <2> HIDE DEF x, id
  <2> QED BY <1>1, <1>3, <1>4 DEF ReaderTypeOK
<1>6. announced' \in {0} \cup Ids
  BY DEF Replayed, ReaderTypeOK
<1>7. Refreshed(r, Applied(r))
  BY DEF Replayed, Applied
<1> QED
  BY <1>1, <1>5, <1>6, <1>7, RefreshedRefreshes

LEMMA ReplayedKeeps ==
  ASSUME Inv, NEW r \in Reads, Replayed(r)
  PROVE  Inv' /\ OnlyForward
<1>0. RepositoryInv /\ ReaderTypeOK /\ ReadsInv /\ Mirror
  BY DEF Inv, ReaderInv
<1>1. UNCHANGED <<repository, faults, attached, drops, announced>> /\ read[r].pc = "replayed"
  BY DEF Replayed
<1>2. RepositoryInv' /\ OnlyForward
  BY <1>0, <1>1, RepositoryIdle DEF RepositoryInv, RepositoryTypeOK
<1> DEFINE id == read[r].entry
           e == Applied(r)
           view == entry[id].view
           got == read[r].got
           gone == read[r].gone
<1>3. /\ id \in Ids
      /\ e \in [Ids -> EntryType]
      /\ e[id] = [entry[id] EXCEPT !.view = (view \cup got) \ gone, !.cursor = read[r].cursor]
      /\ \A i \in Ids : i # id => e[i] = entry[i]
      /\ Refreshes(r, e)
  BY <1>0, ReplayedDoes
<1>4. e[id].view = (view \cup got) \ gone
  <2>1. entry[id] \in EntryType
    BY <1>0, <1>3 DEF ReaderTypeOK
  <2> HIDE DEF e, id
  <2> QED BY <1>3, <2>1 DEF EntryType
<1>5. got \cap gone = {}
  BY <1>0, <1>1 DEF ReadsInv, GotGone
<1>6. /\ announced = id => heard' = (heard \cup (got \ view)) \ (gone \cap view)
      /\ announced # id => heard' = heard
      /\ unreplayable' = (unreplayable /\ current # id)
  BY DEF Replayed
<1>7. got \subseteq Backups
  BY <1>0 DEF ReaderTypeOK, ReadType
<1>8. announced \in {0} \cup Ids /\ 0 \notin Ids
  BY <1>0 DEF ReaderTypeOK, Ids
<1> HIDE DEF e, id
<1>9. /\ ReadsInv'
      /\ current' = current
      /\ read' \in [Reads -> ReadType]
      /\ pending' \in {0, pending}
  BY <1>0, <1>1, <1>3, RefreshesReads
<1>10. entry' \in [Ids -> EntryType]
  BY <1>3, RefreshesEntries
<1>11. announced' \in Ids => entry'[announced'].view = e[announced'].view
  BY <1>0, <1>3, RefreshesView
<1> HIDE DEF got, gone, view
<1>12. Mirror'
  <2>1. CASE announced = id
    <3>1. heard = view
      BY <1>0, <1>3, <1>8, <2>1 DEF Mirror, View, view
    <3>2. heard' = (view \cup got) \ gone
      BY <1>5, <1>6, <2>1, <3>1
    <3> QED BY <1>1, <1>3, <1>4, <1>8, <1>11, <2>1, <3>2 DEF Mirror, View
  <2>2. CASE announced # id
    BY <1>0, <1>1, <1>3, <1>6, <1>8, <1>11, <2>2 DEF Mirror, View
  <2> QED BY <2>1, <2>2
<1>13. ReaderTypeOK'
  <2>1. heard' \subseteq Backups
    BY <1>0, <1>6, <1>7 DEF ReaderTypeOK
  <2>2. unreplayable' \in BOOLEAN
    BY <1>6
  <2> QED BY <1>0, <1>1, <1>9, <1>10, <2>1, <2>2 DEF ReaderTypeOK
<1> QED
  BY <1>2, <1>9, <1>12, <1>13 DEF Inv, ReaderInv

LEMMA RefusedDoes ==
  ASSUME RepositoryInv, ReaderTypeOK, ReadsInv, NEW r \in Reads, Refused(r)
  PROVE  \E id, c : Builds(r, read[r].nReads, entry, id, c)
<1>1. /\ read[r].nReads \in 0 .. MAX_REFRESH_READS
      /\ entry \in [Ids -> EntryType]
      /\ announced' \in {0} \cup Ids
      /\ Free
      /\ Build(r, read[r].nReads, entry)
  BY DEF ReaderTypeOK, ReadType, ReadsInv, Refused
<1> QED
  BY <1>1, BuildBuilds

LEMMA RefusedKeeps ==
  ASSUME Inv, NEW r \in Reads, Refused(r)
  PROVE  Inv' /\ OnlyForward
<1>0. RepositoryInv /\ ReaderTypeOK /\ ReadsInv /\ Mirror
  BY DEF Inv, ReaderInv
<1>1. /\ UNCHANGED <<repository, faults, pending, attached, drops, heard, announced>>
      /\ unreplayable' \in BOOLEAN
  BY DEF Refused
<1>2. RepositoryInv' /\ OnlyForward
  BY <1>0, <1>1, RepositoryIdle DEF RepositoryInv, RepositoryTypeOK
<1>3. PICK id, c : Builds(r, read[r].nReads, entry, id, c)
  BY <1>0, RefusedDoes
<1>4. ReadsInv'
  BY <1>0, <1>1, <1>3, ReadsAfterBuild
<1>5. ReaderTypeOK'
  BY <1>0, <1>1, <1>3 DEF ReaderTypeOK, Builds, Kept
<1>6. announced # 0 => entry'[announced].view = entry[announced].view
  <2>1. id \in Ids /\ id # announced
    BY <1>3 DEF Builds, Referred
  <2> QED BY <1>0, <1>1, <1>3, <2>1 DEF ReaderTypeOK, Builds, Kept
<1> QED
  BY <1>0, <1>1, <1>2, <1>4, <1>5, <1>6, MirrorKept DEF ReaderInv, Inv

LEMMA ReadFailedKeeps ==
  ASSUME Inv, NEW r \in Reads, ReadFailed(r)
  PROVE  Inv' /\ OnlyForward /\ Kept(entry)
<1>0. RepositoryInv /\ ReaderTypeOK /\ ReadsInv /\ Mirror
  BY DEF Inv, ReaderInv
<1>1. /\ UNCHANGED <<repository, attached, drops, heard, announced>>
      /\ Fault
      /\ current' \in {0, current}
      /\ read' = [read EXCEPT ![r] = NoRead]
      /\ pending' \in {0, pending}
      /\ KeepEntries(entry)
  BY DEF ReadFailed
<1>2. unreplayable' \in BOOLEAN
  BY <1>0 DEF ReadFailed, ReaderTypeOK
<1>3. RepositoryInv' /\ OnlyForward
  BY <1>0, <1>1, RepositoryIdle, FaultTyped
<1>4. ReadsInv' /\ read' \in [Reads -> ReadType]
  BY <1>0, <1>1, ReadsAfterEnd, SettledTyped
<1>5. Kept(entry)
  BY <1>0, <1>1, <1>4, Keeps DEF ReaderTypeOK
<1>6. ReaderTypeOK'
  BY <1>0, <1>1, <1>2, <1>4, <1>5 DEF ReaderTypeOK, Kept
<1>7. Mirror'
  BY <1>0, <1>1, <1>5, MirrorKept DEF Kept
<1> QED
  BY <1>3, <1>4, <1>5, <1>6, <1>7 DEF ReaderInv, Inv

\* a mark is set on the entry in place
LEMMA MarkKeeps ==
  ASSUME ReaderInv, NEW e, e \in [Ids -> EntryType], entry' = e,
         \A i \in Ids : e[i].view = entry[i].view,
         UNCHANGED <<current, announced, pending, unreplayable, read, attached, drops, heard>>
  PROVE  ReaderInv'
<1>1. ReaderTypeOK /\ ReadsInv /\ Mirror
  BY DEF ReaderInv
<1>2. ReaderTypeOK'
  BY <1>1 DEF ReaderTypeOK
<1>3. ReadsInv'
  BY <1>1, ReadsStay
<1>4. Mirror'
  BY <1>1, MirrorKept DEF ReaderTypeOK
<1> QED
  BY <1>2, <1>3, <1>4 DEF ReaderInv

\* the journal has an entry after c that says b is deleted
Unread(b, c) == \E e \in Appeared : e.backup = b /\ e.event = "del" /\ e.stamp > c

\* refresh(): the entry in place is stale, and told of deletions it has not read
RefreshEffect ==
  \E told \in SUBSET Backups :
    /\ \A b \in told : Unread(b, entry[current].cursor)
    /\ entry' = [entry EXCEPT ![current] =
                   [entry[current] EXCEPT !.stale = TRUE, !.owed = entry[current].owed \cup told]]

LEMMA RefreshDoes ==
  ASSUME Inv, Refresh, current # 0
  PROVE  RefreshEffect
<1> DEFINE told == {e \in Appeared : /\ e.backup \in proc["server"].backups
                                     /\ e.event = "del"
                                     /\ e.stamp > entry[current].cursor}
           owed == {e.backup : e \in told}
<1>1. current \in Ids /\ entry \in [Ids -> EntryType]
  BY DEF Inv, ReaderInv, ReaderTypeOK
<1>2. entry' = [entry EXCEPT ![current].stale = TRUE, ![current].owed = @ \cup owed]
  BY DEF Refresh
<1>3. owed \in SUBSET Backups
  BY JournalTyped DEF Inv, Entries
<1>4. \A b \in owed : Unread(b, entry[current].cursor)
  BY DEF Unread
<1> HIDE DEF owed
<1>5. entry' = [entry EXCEPT ![current] =
                  [entry[current] EXCEPT !.stale = TRUE, !.owed = entry[current].owed \cup owed]]
  BY <1>1, <1>2 DEF EntryType
<1> QED
  BY <1>3, <1>4, <1>5 DEF RefreshEffect

LEMMA RefreshKeeps ==
  ASSUME Inv, Refresh
  PROVE  Inv' /\ OnlyForward
<1>0. RepositoryInv /\ ReaderInv /\ ReaderTypeOK
  BY DEF Inv, ReaderInv
<1>1. /\ UNCHANGED <<files, written, cache, journal, clock, faults,
                      current, announced, pending, unreplayable, read, attached, drops, heard>>
      /\ proc' = [proc EXCEPT !["server"] = Idle]
      /\ current = 0 => entry' = entry
  BY DEF Refresh
<1>2. /\ proc \in [Processes -> Operations]
      /\ Processes = {"server", "job"}
      /\ Idle \in Operations
      /\ clock \in Nat
  BY <1>0, RepositoryAssumption DEF RepositoryInv, RepositoryTypeOK, Processes, Idle, Operations, Caches, Clock
<1>3. /\ proc' \in [Processes -> Operations]
      /\ proc'["server"] = Idle
      /\ proc'["job"] = proc["job"]
  BY <1>1, <1>2
<1>4. Roles' /\ Budget' /\ proc'["server"].backups \subseteq written' \ files'
  <2>1. Roles'
    BY <1>0, <1>3 DEF RepositoryInv, Roles, Idle
  <2>2. Budget'
    BY <1>0, <1>1, <1>2, <1>3, RepositoryAssumption DEF RepositoryInv, RepositoryTypeOK, Clock, Budget, Idle
  <2> QED BY <1>3, <2>1, <2>2 DEF Idle
<1>5. RepositoryInv' /\ OnlyForward
  BY <1>0, <1>1, <1>3, <1>4, KeepsRepository DEF RepositoryInv, RepositoryTypeOK
<1>6. CASE current = 0
  BY <1>0, <1>1, <1>5, <1>6, MarkKeeps DEF ReaderTypeOK, Inv
<1>7. CASE current # 0
  <2>1. current \in Ids /\ entry[current] \in EntryType
    BY <1>0, <1>7 DEF ReaderTypeOK
  <2>2. PICK told \in SUBSET Backups :
          entry' = [entry EXCEPT ![current] =
                     [entry[current] EXCEPT !.stale = TRUE, !.owed = entry[current].owed \cup told]]
    BY <1>7, RefreshDoes DEF RefreshEffect
  <2> DEFINE x == [entry[current] EXCEPT !.stale = TRUE, !.owed = entry[current].owed \cup told]
  <2>3. x \in EntryType /\ x.view = entry[current].view
    BY <2>1 DEF EntryType
  <2> HIDE DEF x
  <2>4. entry' = [entry EXCEPT ![current] = x]
    BY <2>2 DEF x
  <2>5. entry' \in [Ids -> EntryType] /\ \A i \in Ids : entry'[i].view = entry[i].view
    BY <1>0, <2>1, <2>3, <2>4 DEF ReaderTypeOK
  <2> QED BY <1>0, <1>1, <1>5, <2>5, MarkKeeps DEF Inv
<1> QED
  BY <1>6, <1>7

LEMMA RefreshForOthersKeeps ==
  ASSUME Inv, RefreshForOthers
  PROVE  Inv' /\ OnlyForward
<1>0. RepositoryInv /\ ReaderInv /\ ReaderTypeOK
  BY DEF Inv, ReaderInv
<1>1. /\ UNCHANGED <<repository, faults, current, announced, pending, unreplayable, read, attached, drops, heard>>
      /\ current \in Ids
      /\ entry' = [entry EXCEPT ![current].stale = TRUE]
  BY <1>0 DEF RefreshForOthers, ReaderTypeOK
<1>2. RepositoryInv' /\ OnlyForward
  BY <1>0, <1>1, RepositoryIdle DEF RepositoryInv, RepositoryTypeOK
<1>3. entry' \in [Ids -> EntryType] /\ \A i \in Ids : entry'[i].view = entry[i].view
  BY <1>0, <1>1 DEF ReaderTypeOK, EntryType
<1> QED
  BY <1>0, <1>1, <1>2, <1>3, MarkKeeps DEF Inv

LEMMA RebuildIntervalKeeps ==
  ASSUME Inv, RebuildInterval
  PROVE  Inv' /\ OnlyForward
<1>0. RepositoryInv /\ ReaderInv /\ ReaderTypeOK
  BY DEF Inv, ReaderInv
<1>1. /\ UNCHANGED <<repository, faults, current, announced, pending, unreplayable, read, attached, drops, heard>>
      /\ current \in Ids
      /\ entry' = [entry EXCEPT ![current].due = TRUE]
  BY <1>0 DEF RebuildInterval, ReaderTypeOK
<1>2. RepositoryInv' /\ OnlyForward
  BY <1>0, <1>1, RepositoryIdle DEF RepositoryInv, RepositoryTypeOK
<1>3. entry' \in [Ids -> EntryType] /\ \A i \in Ids : entry'[i].view = entry[i].view
  BY <1>0, <1>1 DEF ReaderTypeOK, EntryType
<1> QED
  BY <1>0, <1>1, <1>2, <1>3, MarkKeeps DEF Inv

LEMMA DeleteKeeps ==
  ASSUME Inv, Delete
  PROVE  Inv' /\ OnlyForward /\ Kept(entry)
<1>0. RepositoryInv /\ ReaderTypeOK /\ ReadsInv /\ Mirror
  BY DEF Inv, ReaderInv
<1>1. /\ UNCHANGED <<repository, faults, attached, announced, read, heard>>
      /\ current' = 0 /\ pending' = 0 /\ unreplayable' = FALSE
      /\ drops < MaxDrops /\ drops' = drops + 1
      /\ KeepEntries(entry)
  BY DEF Delete
<1>2. RepositoryInv' /\ OnlyForward
  BY <1>0, <1>1, RepositoryIdle DEF RepositoryInv, RepositoryTypeOK
<1>3. ReadsInv'
  BY <1>0, <1>1, ReadsStay
<1>4. Kept(entry)
  BY <1>0, <1>1, Keeps DEF ReaderTypeOK
<1>5. ReaderTypeOK'
  <2>1. drops' \in 0 .. MaxDrops
    BY <1>0, <1>1, CacheAssumption DEF ReaderTypeOK
  <2> QED BY <1>0, <1>1, <1>4, <2>1 DEF ReaderTypeOK, Kept
<1>6. Mirror'
  BY <1>0, <1>1, <1>4, MirrorKept DEF Kept
<1> QED
  BY <1>2, <1>3, <1>4, <1>5, <1>6 DEF ReaderInv, Inv

LEMMA RemoveKeeps ==
  ASSUME Inv, Remove
  PROVE  Inv' /\ OnlyForward /\ Kept(entry)
<1>0. RepositoryInv /\ ReaderTypeOK /\ ReadsInv /\ Mirror
  BY DEF Inv, ReaderInv
<1>1. /\ UNCHANGED <<repository, faults, read>>
      /\ current' = 0 /\ pending' = 0 /\ unreplayable' = FALSE /\ attached' = FALSE
      /\ announced' = 0 /\ heard' = heard \ View(announced)
      /\ drops < MaxDrops /\ drops' = drops + 1
      /\ KeepEntries(entry)
  BY DEF Remove
<1>2. RepositoryInv' /\ OnlyForward
  BY <1>0, <1>1, RepositoryIdle DEF RepositoryInv, RepositoryTypeOK
<1>3. ReadsInv'
  BY <1>0, <1>1, ReadsStay
<1>4. Kept(entry)
  BY <1>0, <1>1, Keeps DEF ReaderTypeOK
<1>5. ReaderTypeOK'
  <2>1. drops' \in 0 .. MaxDrops
    BY <1>0, <1>1, CacheAssumption DEF ReaderTypeOK
  <2> QED BY <1>0, <1>1, <1>4, <2>1 DEF ReaderTypeOK, Kept
<1>6. Mirror'
  BY <1>0, <1>1 DEF Mirror, View
<1> QED
  BY <1>2, <1>3, <1>4, <1>5, <1>6 DEF ReaderInv, Inv

LEMMA RepositoryStepKeeps ==
  ASSUME Inv, RepositoryStep, UNCHANGED reader
  PROVE  Inv' /\ OnlyForward
<1>1. RepositoryInv' /\ OnlyForward
  BY RepositoryKept DEF Inv
<1>2. ReaderInv'
  BY MarkKeeps DEF Inv, ReaderInv, ReaderTypeOK, reader
<1> QED
  BY <1>1, <1>2 DEF Inv

LEMMA InitInv == Init => Inv
<1> SUFFICES ASSUME Init PROVE Inv
  OBVIOUS
<1>1. RepositoryInv
  BY InitRepository DEF Init
<1>2. ReaderTypeOK
  <2>1. NoEntry \in EntryType
    BY RepositoryAssumption DEF EntryType, NoEntry, Clock
  <2>2. NoRead \in ReadType
    BY RepositoryAssumption, CacheAssumption DEF ReadType, NoRead, Clock
  <2>3. entry \in [Ids -> EntryType] /\ read \in [Reads -> ReadType]
    BY <2>1, <2>2 DEF Init
  <2>4. drops \in 0 .. MaxDrops
    BY CacheAssumption DEF Init
  <2> QED BY <2>3, <2>4 DEF Init, ReaderTypeOK
<1>3. ReadsInv
  BY DEF Init, ReadsInv, Shape, Free, FreshListing, Listing, GotGone, NoRead
<1>4. Mirror
  BY DEF Init, Mirror, View
<1> QED
  BY <1>1, <1>2, <1>3, <1>4 DEF Inv, ReaderInv

LEMMA StepInv == Inv /\ Next => Inv' /\ OnlyForward
  BY RepositoryStepKeeps, RefreshKeeps, RefreshForOthersKeeps, GetKeeps, ListVmBackupsKeeps, WriteListedCacheKeeps,
     BuiltKeeps, ReadJournalKeeps, ReplayedKeeps, RefusedKeeps, ReadFailedKeeps, RebuildIntervalKeeps,
     DeleteKeeps, RemoveKeeps DEF Next, ReadStep

LEMMA StutterInv == Inv /\ UNCHANGED vars => Inv' /\ OnlyForward
<1> SUFFICES ASSUME Inv, UNCHANGED vars PROVE Inv' /\ OnlyForward
  OBVIOUS
<1>1. RepositoryInv' /\ OnlyForward
  BY RepositoryIdle DEF Inv, vars, RepositoryInv, RepositoryTypeOK
<1>2. ReaderInv'
  BY MarkKeeps DEF Inv, ReaderInv, ReaderTypeOK, vars, reader
<1> QED
  BY <1>1, <1>2 DEF Inv

LEMMA Invariance == Spec => []Inv
  BY InitInv, StepInv, StutterInv, PTL DEF Spec

(* Type correctness of the repository and of the listing: in particular    *)
(* the clock stays within its bound, a new entry always finds an id, and a *)
(* get() never makes more than MAX_REFRESH_READS reads.                    *)
THEOREM TypeCorrect == Spec => []TypeOK
<1>1. Inv => TypeOK
  BY TypeParts DEF Inv, RepositoryInv, ReaderInv
<1> QED
  BY <1>1, Invariance, PTL

(* A listener of the collection holds exactly the announced backups, after *)
(* every step and for any number of drops, late calls and faults.          *)
THEOREM MirrorHolds == Spec => []Mirror
<1>1. Inv => Mirror
  BY DEF Inv, ReaderInv
<1> QED
  BY <1>1, Invariance, PTL

(***************************************************************************)
(* The entry in place.  A source that says it has no journal only after    *)
(* the entry has been dropped replaces the one built meanwhile without     *)
(* sharing its read; as long as no such late refusal comes, the reads of   *)
(* the entry in place are those get() shares, one at a time.               *)
(***************************************************************************)

\* an entry which is not built yet is being listed
Registered ==
  current # 0 /\ ~entry[current].built => \E r \in Reads : Listing(r) /\ read[r].entry = current

\* the read of the entry in place is the one the calls of get() share
Shared == \A r \in Reads : current # 0 /\ read[r].entry = current => pending = r

InPlace == Populated /\ Registered /\ Shared

(* The reads go on and the entries keep their listings. *)
LEMMA InPlaceGoesOn ==
  ASSUME Inv, Inv', InPlace, current' = current, pending' = pending,
         \A i \in Ids : entry'[i].built = entry[i].built,
         \A q \in Reads : /\ read'[q].entry = read[q].entry
                          /\ Listing(q) => Listing(q)'
                          /\ read'[q].pc \in {"journal", "replayed"} => read[q].pc \in {"journal", "replayed"}
  PROVE  InPlace'
<1>1. /\ current \in {0} \cup Ids
      /\ \A q \in Reads : read[q].entry \in {0} \cup Ids /\ (read[q].entry = 0 <=> read[q].pc = "idle")
  BY DEF Inv, ReaderInv, ReaderTypeOK, ReadType, ReadsInv, Shape
<1>2. Populated'
  BY <1>1 DEF InPlace, Populated
<1>3. Registered'
  BY <1>1 DEF InPlace, Registered
<1>4. Shared'
  BY DEF InPlace, Shared
<1> QED
  BY <1>2, <1>3, <1>4 DEF InPlace

(* A new entry is registered by the only read that may share it. *)
LEMMA InPlaceBuilds ==
  ASSUME Inv, Inv', InPlace, NEW r \in Reads, NEW n, NEW id, NEW c, Builds(r, n, entry, id, c), pending' = r
  PROVE  InPlace'
<1>1. /\ read'[r].pc = "list" /\ read'[r].entry = id
      /\ \A q \in Reads : q # r => read'[q] = read[q]
      /\ \A q \in Reads : read[q].entry # id
      /\ current' = id
  BY DEF Builds, Inv, ReaderInv, ReaderTypeOK, NoRead, Referred
<1>2. \A q \in Reads : read[q].entry \in {0} \cup Ids /\ (read[q].entry = 0 <=> read[q].pc = "idle")
  BY DEF Inv, ReaderInv, ReaderTypeOK, ReadType, ReadsInv, Shape
<1>3. ASSUME NEW q \in Reads, q # r, read[q].entry # 0
      PROVE  entry'[read[q].entry].built = entry[read[q].entry].built
  <2> DEFINE i == read[q].entry
             e == [entry EXCEPT ![id] = [NoEntry EXCEPT !.cursor = c]]
  <2>1. e[i] = entry[i]
    BY <1>1, <1>2, <1>3 DEF Inv, ReaderInv, ReaderTypeOK
  <2>2. entry'[i].built = e[i].built
    <3>1. Kept(e)
      BY DEF Builds
    <3> HIDE DEF e
    <3> QED BY <1>1, <1>3, <3>1 DEF Kept
  <2> QED BY <2>1, <2>2
<1>4. Populated'
  BY <1>1, <1>2, <1>3 DEF InPlace, Populated
<1>5. Registered'
  BY <1>1 DEF Registered, Listing
<1>6. Shared'
  BY <1>1 DEF Shared
<1> QED
  BY <1>4, <1>5, <1>6 DEF InPlace

(* A read of the journal begins on an entry which is built. *)
LEMMA InPlaceReplays ==
  ASSUME Inv, Inv', InPlace, NEW r \in Reads, NEW n, NEW e \in [Ids -> EntryType], current # 0, Replays(r, current, n, e),
         pending' = r, e[current].built,
         \A q \in Reads : q # r /\ read[q].entry # 0 =>
            read[q].entry # current /\ e[read[q].entry].built = entry[read[q].entry].built
  PROVE  InPlace'
<1>1. /\ read'[r].pc = "journal" /\ read'[r].entry = current
      /\ \A q \in Reads : q # r => read'[q] = read[q]
      /\ current' = current
  BY DEF Replays, Inv, ReaderInv, ReaderTypeOK, NoRead
<1>2. /\ current \in Ids
      /\ \A q \in Reads : read[q].entry \in {0} \cup Ids /\ (read[q].entry = 0 <=> read[q].pc = "idle")
  BY DEF Inv, ReaderInv, ReaderTypeOK, ReadType, ReadsInv, Shape
<1> DEFINE e1 == [e EXCEPT ![current].stale = FALSE]
<1>3. Kept(e1)
  BY DEF Replays
<1>4. \A i \in Ids : e1[i].built = e[i].built
  BY <1>2 DEF EntryType
<1> HIDE DEF e1
<1>5. entry'[current].built
  BY <1>1, <1>2, <1>3, <1>4 DEF Kept
<1>6. \A q \in Reads : q # r /\ read[q].entry # 0 => entry'[read[q].entry].built = entry[read[q].entry].built
  BY <1>1, <1>2, <1>3, <1>4 DEF Kept
<1>7. Populated'
  BY <1>1, <1>2, <1>5, <1>6 DEF InPlace, Populated
<1>8. Registered'
  BY <1>1, <1>5 DEF Registered
<1>9. Shared'
  BY <1>1, <1>2 DEF Shared
<1> QED
  BY <1>7, <1>8, <1>9 DEF InPlace

(* A read ends, or the entry is dropped. *)
LEMMA InPlaceEnds ==
  ASSUME Inv, Inv', InPlace, NEW e, Kept(e), current' \in {0, current},
         \A q \in Reads : read'[q].entry # 0 => /\ read'[q] = read[q]
                                                /\ e[read[q].entry].built = entry[read[q].entry].built,
         \A q \in Reads : read[q].entry = current /\ current' # 0 => read'[q].entry = 0 \/ pending' = pending,
         current' # 0 => e[current].built = entry[current].built \/ e[current].built,
         current' # 0 /\ ~e[current].built => \A q \in Reads : read[q].entry = current => read'[q] = read[q]
  PROVE  InPlace'
<1>1. /\ current \in {0} \cup Ids
      /\ \A q \in Reads : read[q].entry \in {0} \cup Ids /\ (read[q].entry = 0 <=> read[q].pc = "idle")
      /\ \A q \in Reads : read'[q].entry \in {0} \cup Ids /\ (read'[q].entry = 0 <=> read'[q].pc = "idle")
  BY DEF Inv, ReaderInv, ReaderTypeOK, ReadType, ReadsInv, Shape
<1>2. Populated'
  BY <1>1 DEF InPlace, Populated, Kept
<1>3. Registered'
  BY <1>1 DEF InPlace, Registered, Kept, Listing
<1>4. Shared'
  BY <1>1 DEF InPlace, Shared
<1> QED
  BY <1>2, <1>3, <1>4 DEF InPlace

LEMMA GetInPlace ==
  ASSUME Inv, Inv', InPlace, Get
  PROVE  InPlace'
<1>1. PICK r \in Reads : GetEffect(r)
  BY GetDoes DEF Inv
<1>2. pending = 0 /\ pending' = r /\ 0 \notin Reads
  BY <1>1 DEF GetEffect, Reads
<1>3. ASSUME NEW id, NEW c, Builds(r, 1, entry, id, c)
      PROVE  InPlace'
  BY <1>2, <1>3, InPlaceBuilds
<1>4. ASSUME current # 0, Replays(r, current, 1, entry)
      PROVE  InPlace'
  <2>1. \A q \in Reads : read[q].entry # current
    BY <1>2, <1>4 DEF InPlace, Shared
  <2>2. entry[current].built
    BY <1>4, <2>1 DEF InPlace, Registered
  <2>3. entry \in [Ids -> EntryType]
    BY DEF Inv, ReaderInv, ReaderTypeOK
  <2> QED BY <1>2, <1>4, <2>1, <2>2, <2>3, InPlaceReplays
<1> QED
  BY <1>1, <1>3, <1>4 DEF GetEffect

LEMMA RefreshesInPlace ==
  ASSUME Inv, Inv', InPlace, NEW r \in Reads, NEW e \in [Ids -> EntryType], Refreshes(r, e),
         read[r].entry \in Ids, e[read[r].entry].built,
         \A i \in Ids : i # read[r].entry => e[i].built = entry[i].built,
         \A q \in Reads : q # r /\ read[q].entry = read[r].entry => entry[read[q].entry].built = TRUE
  PROVE  InPlace'
<1> DEFINE id == read[r].entry
<1>1. /\ current \in {0} \cup Ids /\ 0 \notin Ids
      /\ \A q \in Reads : read[q].entry \in {0} \cup Ids /\ (read[q].entry = 0 <=> read[q].pc = "idle")
  BY DEF Inv, ReaderInv, ReaderTypeOK, ReadType, ReadsInv, Shape, Ids
<1>2. e[id].built = TRUE
  BY DEF EntryType
<1>3. \A q \in Reads : q # r /\ read[q].entry # 0 => e[read[q].entry].built = entry[read[q].entry].built
  BY <1>1, <1>2
<1>4. ASSUME NEW n, current # 0, current = id, Replays(r, current, n, e), pending' = pending
      PROVE  InPlace'
  <2>1. pending = r /\ \A q \in Reads : q # r => read[q].entry # current
    BY <1>4 DEF InPlace, Shared
  <2> QED BY <1>2, <1>3, <1>4, <2>1, InPlaceReplays
<1>5. ASSUME read' = [read EXCEPT ![r] = NoRead], current' = current, Kept(e),
             pending' = IF pending = r THEN 0 ELSE pending
      PROVE  InPlace'
  <2>1. /\ read'[r].entry = 0
        /\ \A q \in Reads : q # r => read'[q] = read[q]
    BY <1>5 DEF Inv, ReaderInv, ReaderTypeOK, NoRead
  <2>2. \A q \in Reads : read[q].entry = current /\ current # 0 => read'[q].entry = 0 \/ pending' = pending
    BY <1>5, <2>1 DEF InPlace, Shared
  <2>3. current # 0 => e[current].built = entry[current].built \/ e[current].built
    BY <1>1, <1>2
  <2>4. current # 0 /\ ~e[current].built => \A q \in Reads : read[q].entry = current => read'[q] = read[q]
    BY <1>2, <2>1
  <2> QED BY <1>3, <1>5, <2>1, <2>2, <2>3, <2>4, InPlaceEnds
<1> QED
  BY <1>4, <1>5 DEF Refreshes

LEMMA BuiltInPlace ==
  ASSUME Inv, Inv', InPlace, NEW r \in Reads, Built(r)
  PROVE  InPlace'
<1>0. ReaderTypeOK /\ ReadsInv
  BY DEF Inv, ReaderInv
<1>1. /\ read[r].entry \in Ids
      /\ Published(r) \in [Ids -> EntryType]
      /\ Refreshes(r, Published(r))
  BY <1>0, BuiltDoes
<1>2. /\ Published(r)[read[r].entry].built
      /\ \A i \in Ids : i # read[r].entry => Published(r)[i].built = entry[i].built
  BY <1>0, <1>1 DEF Published, ReaderTypeOK, EntryType
<1>3. ASSUME NEW q \in Reads, q # r, read[q].entry = read[r].entry
      PROVE  entry[read[q].entry].built = TRUE
  <2>1. read[q].pc \in {"journal", "replayed"}
    BY <1>0, <1>1, <1>3 DEF ReadsInv, FreshListing, Listing, Shape, ReaderTypeOK, ReadType, Built, Ids
  <2> QED BY <1>0, <1>1, <1>3, <2>1 DEF InPlace, Populated, ReaderTypeOK, EntryType
<1> QED
  BY <1>1, <1>2, <1>3, RefreshesInPlace

LEMMA ReplayedInPlace ==
  ASSUME Inv, Inv', InPlace, NEW r \in Reads, Replayed(r)
  PROVE  InPlace'
<1>0. ReaderTypeOK /\ ReadsInv
  BY DEF Inv, ReaderInv
<1> DEFINE id == read[r].entry
           e == Applied(r)
<1>1. /\ id \in Ids
      /\ e \in [Ids -> EntryType]
      /\ e[id] = [entry[id] EXCEPT !.view = (entry[id].view \cup read[r].got) \ read[r].gone, !.cursor = read[r].cursor]
      /\ \A i \in Ids : i # id => e[i] = entry[i]
      /\ Refreshes(r, e)
  BY <1>0, ReplayedDoes
<1>2. entry[id].built /\ entry[id] \in EntryType
  BY <1>0, <1>1 DEF InPlace, Populated, Replayed, ReaderTypeOK
<1> HIDE DEF e
<1>3. e[id].built
  BY <1>1, <1>2 DEF EntryType
<1>4. entry[id].built = TRUE
  BY <1>2 DEF EntryType
<1> QED
  BY <1>1, <1>3, <1>4, RefreshesInPlace

LEMMA RefusedInPlace ==
  ASSUME Inv, Inv', InPlace, "refusal" \notin LateCalls, NEW r \in Reads, Refused(r)
  PROVE  InPlace'
<1>1. PICK id, c : Builds(r, read[r].nReads, entry, id, c)
  BY RefusedDoes DEF Inv, ReaderInv
<1>2. current = read[r].entry /\ current # 0
  BY DEF Refused, Inv, ReaderInv, ReadsInv, Shape
<1>3. pending' = r
  BY <1>2 DEF InPlace, Shared, Refused
<1> QED
  BY <1>1, <1>3, InPlaceBuilds

LEMMA ReadFailedInPlace ==
  ASSUME Inv, Inv', InPlace, NEW r \in Reads, ReadFailed(r)
  PROVE  InPlace'
<1>1. /\ Kept(entry)
      /\ current' = IF current = read[r].entry THEN 0 ELSE current
      /\ read' = [read EXCEPT ![r] = NoRead]
      /\ pending' = IF pending = r THEN 0 ELSE pending
  BY ReadFailedKeeps DEF ReadFailed
<1>2. /\ read'[r].entry = 0
      /\ \A q \in Reads : q # r => read'[q] = read[q]
  BY <1>1 DEF Inv, ReaderInv, ReaderTypeOK, NoRead
<1>3. \A q \in Reads : read[q].entry = current /\ current' # 0 => q # r /\ pending' = pending
  BY <1>1, <1>2 DEF InPlace, Shared
<1> QED
  BY <1>1, <1>2, <1>3, InPlaceEnds

LEMMA DropInPlace ==
  ASSUME Inv, Inv', InPlace, Delete \/ Remove
  PROVE  InPlace'
<1>1. Kept(entry) /\ read' = read /\ current' = 0
  BY DeleteKeeps, RemoveKeeps DEF Delete, Remove
<1> QED
  BY <1>1, InPlaceEnds

LEMMA RepositoryStepInPlace ==
  ASSUME Inv, Inv', InPlace, UNCHANGED reader
  PROVE  InPlace'
  BY InPlaceGoesOn DEF reader, Listing

LEMMA MarkInPlace ==
  ASSUME Inv, Inv', InPlace, Refresh \/ RefreshForOthers \/ RebuildInterval
  PROVE  InPlace'
<1>0. entry \in [Ids -> EntryType] /\ current \in {0} \cup Ids
  BY DEF Inv, ReaderInv, ReaderTypeOK
<1>1. current' = current /\ pending' = pending /\ read' = read
  BY DEF Refresh, RefreshForOthers, RebuildInterval
<1>2. \A i \in Ids : entry'[i].built = entry[i].built
  <2>1. CASE Refresh
    <3>1. CASE current = 0
      BY <2>1, <3>1 DEF Refresh
    <3>2. CASE current # 0
      <4>1. PICK told :
              entry' = [entry EXCEPT ![current] =
                         [entry[current] EXCEPT !.stale = TRUE, !.owed = entry[current].owed \cup told]]
        BY <2>1, <3>2, RefreshDoes DEF RefreshEffect
      <4>2. current \in Ids /\ entry[current] \in EntryType
        BY <1>0, <3>2
      <4>3. entry'[current].built = entry[current].built
        BY <1>0, <4>1, <4>2 DEF EntryType
      <4> QED BY <1>0, <4>1, <4>3
    <3> QED BY <3>1, <3>2
  <2>2. CASE RefreshForOthers
    BY <1>0, <2>2 DEF RefreshForOthers, EntryType
  <2>3. CASE RebuildInterval
    BY <1>0, <2>3 DEF RebuildInterval, EntryType
  <2> QED BY <2>1, <2>2, <2>3
<1> QED
  BY <1>1, <1>2, InPlaceGoesOn DEF Listing

LEMMA ReadsInPlace ==
  ASSUME Inv, Inv', InPlace, NEW r \in Reads,
         \/ ListVmBackups(r)
         \/ WriteListedCache(r)
         \/ \E failed : ReadJournal(r, failed)
  PROVE  InPlace'
<1>0. read \in [Reads -> ReadType]
  BY DEF Inv, ReaderInv, ReaderTypeOK
<1>1. current' = current /\ pending' = pending /\ entry' = entry
  BY DEF ListVmBackups, WriteListedCache, ReadJournal
<1>2. ASSUME NEW q \in Reads
      PROVE  /\ read'[q].entry = read[q].entry
             /\ Listing(q) => Listing(q)'
             /\ read'[q].pc \in {"journal", "replayed"} => read[q].pc \in {"journal", "replayed"}
  <2>1. CASE ListVmBackups(r)
    BY <1>0, <2>1 DEF ListVmBackups, ReadType, Listing
  <2>2. CASE WriteListedCache(r)
    BY <1>0, <2>2 DEF WriteListedCache, ReadType, Listing
  <2>3. ASSUME NEW failed, ReadJournal(r, failed)
        PROVE  /\ read'[q].entry = read[q].entry
               /\ Listing(q) => Listing(q)'
               /\ read'[q].pc \in {"journal", "replayed"} => read[q].pc \in {"journal", "replayed"}
    <3>1. PICK got, gone, c :
            read' = [read EXCEPT ![r].pc = "replayed", ![r].got = got, ![r].gone = gone, ![r].cursor = c]
      BY <2>3 DEF ReadJournal
    <3>2. read[r].pc = "journal"
      BY <2>3 DEF ReadJournal
    <3> QED BY <1>0, <3>1, <3>2 DEF ReadType, Listing
  <2> QED BY <2>1, <2>2, <2>3
<1> QED
  BY <1>1, <1>2, InPlaceGoesOn

LEMMA StepInPlace ==
  ASSUME Inv, Inv', InPlace, "refusal" \notin LateCalls, Next
  PROVE  InPlace'
  BY RepositoryStepInPlace, MarkInPlace, GetInPlace, ReadsInPlace, BuiltInPlace, ReplayedInPlace, RefusedInPlace,
     ReadFailedInPlace, DropInPlace DEF Next, ReadStep

LEMMA InPlaceInvariance == "refusal" \notin LateCalls => (Spec => [](Inv /\ InPlace))
<1> SUFFICES ASSUME "refusal" \notin LateCalls PROVE Spec => [](Inv /\ InPlace)
  OBVIOUS
<1>1. Init => InPlace
  BY DEF Init, InPlace, Populated, Registered, Shared, NoRead
<1>2. Inv /\ InPlace /\ [Next]_vars => (Inv /\ InPlace)'
  <2> SUFFICES ASSUME Inv, InPlace, [Next]_vars PROVE Inv' /\ InPlace'
    OBVIOUS
  <2>1. Inv'
    BY StepInv, StutterInv
  <2>2. CASE Next
    BY <2>1, <2>2, StepInPlace
  <2>3. CASE UNCHANGED vars
    BY <2>1, <2>3, RepositoryStepInPlace DEF vars
  <2> QED BY <2>1, <2>2, <2>3
<1> QED
  BY <1>1, <1>2, InitInv, PTL DEF Spec

(* Only an entry whose listing has completed is replayed, unless a source  *)
(* refuses its journal after its entry has been dropped.                   *)
THEOREM PopulatedHolds == "refusal" \notin LateCalls => (Spec => []Populated)
<1>1. InPlace => Populated
  BY DEF InPlace
<1> QED
  BY <1>1, InPlaceInvariance, PTL

(***************************************************************************)
(* The deletions an entry has been told of.  As long as the entries of the *)
(* journal appear in the order of their names, each of them is in one of   *)
(* these states: the entry does not hold the backup any more, or it has    *)
(* its deletion still before its cursor and is stale, or a read of the     *)
(* journal is under way which has met the deletion or is about to.         *)
(***************************************************************************)

\* what has been read of the journal skips no deletion
Ahead(r) ==
  /\ read[r].cursor \in {entry[current].cursor} \cup {e.stamp : e \in Appeared}
  /\ \A e \in Appeared : e.event = "del" /\ e.stamp > entry[current].cursor =>
       e.stamp > read[r].cursor \/ e.backup \in read[r].gone

\* how a read of the entry in place stands to the deletion of b
Followed(b, r) ==
  /\ Listing(r) => entry[current].stale /\ Unread(b, entry[current].cursor)
  /\ read[r].pc = "journal" => b \notin entry[current].view \/ Unread(b, entry[current].cursor)
  /\ read[r].pc = "replayed" => \/ b \in read[r].gone
                                \/ b \notin entry[current].view /\ b \notin read[r].got
                                \/ entry[current].stale /\ Unread(b, read[r].cursor)

\* no read is under way on the entry in place
Unattended == \A r \in Reads : read[r].entry # current

Told ==
  InOrder /\ current # 0 =>
    /\ \A r \in Reads : read[r].entry = current /\ read[r].pc = "replayed" => Ahead(r)
    /\ \A b \in entry[current].owed :
         /\ b \in written \ files
         /\ Unattended => \/ b \notin entry[current].view
                          \/ entry[current].stale /\ Unread(b, entry[current].cursor)
         /\ \A r \in Reads : read[r].entry = current => Followed(b, r)

LEMMA UnreadStays ==
  ASSUME OnlyForward
  PROVE  \A b, c : Unread(b, c) => \E e \in Appeared' : e.backup = b /\ e.event = "del" /\ e.stamp > c
  BY DEF OnlyForward, Unread

LEMMA InOrderBefore ==
  ASSUME OnlyForward, InOrder'
  PROVE  InOrder
  BY DEF OnlyForward

(* The entry in place and its reads are left alone. *)
LEMMA ToldElsewhere ==
  ASSUME Inv, Inv', OnlyForward, Told,
         current' # 0 => /\ current' = current
                         /\ entry'[current] = entry[current]
                         /\ \A q \in Reads : read[q].entry = current \/ read'[q].entry = current =>
                              /\ read'[q].entry = read[q].entry
                              /\ read'[q].pc = read[q].pc \/ (Listing(q) /\ Listing(q)')
                              /\ read'[q].pc = "replayed" =>
                                   /\ read'[q].got = read[q].got
                                   /\ read'[q].gone = read[q].gone
                                   /\ read'[q].cursor = read[q].cursor
  PROVE  Told'
<1> SUFFICES ASSUME InOrder', current' # 0
             PROVE  /\ \A r \in Reads : read'[r].entry = current' /\ read'[r].pc = "replayed" => Ahead(r)'
                    /\ \A b \in entry'[current'].owed :
                         /\ b \in written' \ files'
                         /\ Unattended' => \/ b \notin entry'[current'].view
                                           \/ entry'[current'].stale /\ Unread(b, entry[current].cursor)'
                         /\ \A r \in Reads : read'[r].entry = current' => Followed(b, r)'
  BY DEF Told
<1>1. InOrder
  BY InOrderBefore
<1>2. /\ current' = current /\ current # 0
      /\ entry'[current] = entry[current]
  OBVIOUS
<1>3. Appeared \subseteq Entries /\ Appeared' \subseteq Entries
  <2>1. Appeared' \subseteq Entries
    BY DEF Inv, RepositoryInv, Appeared
  <2> QED BY <2>1, JournalTyped DEF Inv
<1>4. ASSUME NEW r \in Reads, read'[r].entry = current', read'[r].pc = "replayed"
      PROVE  Ahead(r)'
  <2>1. Ahead(r) /\ read'[r].cursor = read[r].cursor /\ read'[r].gone = read[r].gone
    BY <1>1, <1>2, <1>4 DEF Told, Listing
  <2>2. read'[r].cursor \in {entry'[current'].cursor} \cup {e.stamp : e \in Appeared'}
    <3>1. Appeared \subseteq Appeared'
      BY DEF OnlyForward
    <3> QED BY <1>2, <2>1, <3>1 DEF Ahead
  <2>3. ASSUME NEW e \in Appeared', e.event = "del", e.stamp > entry[current].cursor
        PROVE  e.stamp > read[r].cursor \/ e.backup \in read[r].gone
    <3>1. CASE e \in Appeared
      BY <2>1, <2>3, <3>1 DEF Ahead
    <3>2. CASE e \notin Appeared
      <4>1. \A f \in Appeared : f.stamp < e.stamp
        BY <2>3, <3>2 DEF OnlyForward
      <4>2. \A f \in Appeared : e.stamp > f.stamp
        BY <1>3, <4>1, RepositoryAssumption DEF Entries, Clock
      <4> QED BY <2>1, <2>3, <4>2 DEF Ahead
    <3> QED BY <3>1, <3>2
  <2> QED BY <1>2, <2>1, <2>2, <2>3 DEF Ahead
<1>5. ASSUME NEW b \in entry'[current'].owed
      PROVE  /\ b \in written' \ files'
             /\ Unattended' => \/ b \notin entry'[current'].view
                               \/ entry'[current'].stale /\ Unread(b, entry[current].cursor)'
             /\ \A r \in Reads : read'[r].entry = current' => Followed(b, r)'
  <2>1. /\ b \in written \ files
        /\ Unattended => \/ b \notin entry[current].view
                         \/ entry[current].stale /\ Unread(b, entry[current].cursor)
        /\ \A r \in Reads : read[r].entry = current => Followed(b, r)
    BY <1>1, <1>2, <1>5 DEF Told
  <2>2. \A c : Unread(b, c) => \E e \in Appeared' : e.backup = b /\ e.event = "del" /\ e.stamp > c
    BY UnreadStays
  <2>3. b \in written' \ files'
    BY <2>1 DEF OnlyForward
  <2>4. Unattended' => Unattended
    BY <1>2 DEF Unattended
  <2>5. Unread(b, entry[current].cursor) => Unread(b, entry[current].cursor)'
    BY <1>2, <2>2 DEF Unread
  <2>6. ASSUME NEW r \in Reads, read'[r].entry = current'
        PROVE  Followed(b, r)'
    <3>1. Followed(b, r) /\ (read'[r].pc = read[r].pc \/ (Listing(r) /\ Listing(r)'))
      BY <1>2, <2>1, <2>6
    <3>2. read'[r].pc = "replayed" => /\ read[r].pc = "replayed"
                                      /\ read'[r].got = read[r].got
                                      /\ read'[r].gone = read[r].gone
                                      /\ read'[r].cursor = read[r].cursor
      BY <1>2, <2>6, <3>1 DEF Listing
    <3>3. read'[r].pc = "replayed" /\ Unread(b, read[r].cursor) => Unread(b, read[r].cursor)'
      BY <2>2, <3>2 DEF Unread
    <3>4. Listing(r)' => Listing(r)
      BY <3>1 DEF Listing
    <3>5. read'[r].pc = "journal" => read[r].pc = "journal"
      BY <3>1 DEF Listing
    <3> QED BY <1>2, <2>5, <3>1, <3>2, <3>3, <3>4, <3>5 DEF Followed
  <2> QED BY <1>2, <2>1, <2>3, <2>4, <2>5, <2>6
<1> QED
  BY <1>4, <1>5

(* A new entry has been told of nothing. *)
LEMMA ToldBuilds ==
  ASSUME Inv, Inv', NEW r \in Reads, NEW n, NEW id, NEW c, Builds(r, n, entry, id, c)
  PROVE  Told'
<1> DEFINE e == [entry EXCEPT ![id] = [NoEntry EXCEPT !.cursor = c]]
<1>1. /\ id \in Ids /\ current' = id /\ 0 \notin Ids
      /\ read'[r].pc = "list"
      /\ \A q \in Reads : q # r => read'[q] = read[q]
      /\ \A q \in Reads : read[q].entry # id
  BY DEF Builds, Inv, ReaderInv, ReaderTypeOK, NoRead, Referred, Ids
<1>2. e[id].owed = {}
  BY <1>1 DEF NoEntry, Inv, ReaderInv, ReaderTypeOK
<1>3. Kept(e)
  BY DEF Builds
<1> HIDE DEF e
<1>4. entry'[current'].owed = {}
  BY <1>1, <1>2, <1>3 DEF Kept
<1>5. \A q \in Reads : read'[q].entry = current' => read'[q].pc # "replayed"
  BY <1>1
<1> QED
  BY <1>4, <1>5 DEF Told

(* A read of the journal begins on the entry in place: what it has been    *)
(* told of is still before its cursor, or no longer in what it holds.      *)
LEMMA ToldReplays ==
  ASSUME Inv, Inv', OnlyForward, UNCHANGED journal, NEW r \in Reads, NEW n, NEW e \in [Ids -> EntryType],
         current # 0, Replays(r, current, n, e),
         \A q \in Reads : q # r => read[q].entry # current,
         InOrder => \A b \in e[current].owed :
                      /\ b \in written \ files
                      /\ b \notin e[current].view \/ Unread(b, e[current].cursor)
  PROVE  Told'
<1> DEFINE e1 == [e EXCEPT ![current].stale = FALSE]
<1>1. /\ current \in Ids /\ current' = current
      /\ read'[r].pc = "journal" /\ read'[r].entry = current
      /\ \A q \in Reads : q # r => read'[q] = read[q]
  BY DEF Replays, Inv, ReaderInv, ReaderTypeOK, NoRead
<1>2. e1[current].owed = e[current].owed /\ e1[current].view = e[current].view /\ e1[current].cursor = e[current].cursor
  BY <1>1 DEF EntryType
<1>3. Kept(e1)
  BY DEF Replays
<1> HIDE DEF e1
<1>4. entry'[current'] = e1[current]
  BY <1>1, <1>3 DEF Kept
<1>5. Appeared' = Appeared /\ InOrder' = InOrder
  BY SameJournal
<1>6. ASSUME InOrder', NEW b \in entry'[current'].owed
      PROVE  b \in written' \ files' /\ ~Unattended' /\ \A q \in Reads : read'[q].entry = current' => Followed(b, q)'
  <2>1. b \in written \ files /\ (b \notin e[current].view \/ Unread(b, e[current].cursor))
    BY <1>2, <1>4, <1>5, <1>6
  <2>2. b \notin entry'[current'].view \/ Unread(b, entry[current].cursor)'
    BY <1>2, <1>4, <1>5, <2>1 DEF Unread
  <2>3. Followed(b, r)'
    BY <1>1, <2>2 DEF Followed, Listing
  <2>4. ~Unattended'
    BY <1>1 DEF Unattended
  <2> QED BY <1>1, <2>1, <2>3, <2>4 DEF OnlyForward
<1> QED
  BY <1>1, <1>6 DEF Told

(* The read of the entry in place ends. *)
LEMMA ToldEnds ==
  ASSUME Inv, Inv', OnlyForward, UNCHANGED journal, NEW r \in Reads, NEW e \in [Ids -> EntryType],
         read' = [read EXCEPT ![r] = NoRead], Kept(e), current' = current,
         current # 0 => \A q \in Reads : q # r => read[q].entry # current,
         InOrder /\ current # 0 =>
           \A b \in e[current].owed :
             /\ b \in written \ files
             /\ b \notin e[current].view \/ (e[current].stale /\ Unread(b, e[current].cursor))
  PROVE  Told'
<1>1. /\ read'[r].entry = 0
      /\ \A q \in Reads : q # r => read'[q] = read[q]
  BY DEF Inv, ReaderInv, ReaderTypeOK, NoRead
<1>2. Appeared' = Appeared /\ InOrder' = InOrder
  BY SameJournal
<1> SUFFICES ASSUME InOrder', current # 0
             PROVE  /\ \A q \in Reads : read'[q].entry # current'
                    /\ \A b \in entry'[current'].owed :
                         /\ b \in written' \ files'
                         /\ \/ b \notin entry'[current'].view
                            \/ entry'[current'].stale /\ Unread(b, entry[current].cursor)'
  BY DEF Told
<1>3. entry'[current'] = e[current]
  BY DEF Kept
<1>4. ASSUME NEW b \in entry'[current'].owed
      PROVE  /\ b \in written' \ files'
             /\ \/ b \notin entry'[current'].view
                \/ entry'[current'].stale /\ Unread(b, entry[current].cursor)'
  <2>1. /\ b \in written \ files
        /\ b \notin e[current].view \/ (e[current].stale /\ Unread(b, e[current].cursor))
    BY <1>2, <1>3, <1>4
  <2> QED BY <1>2, <1>3, <2>1 DEF Unread, OnlyForward
<1> QED
  BY <1>1, <1>4

LEMMA ToldRefreshes ==
  ASSUME Inv, Inv', OnlyForward, UNCHANGED journal, Shared, Told, NEW r \in Reads, NEW e \in [Ids -> EntryType], Refreshes(r, e),
         read[r].entry # current /\ current # 0 => e[current] = entry[current],
         InOrder /\ current # 0 /\ read[r].entry = current =>
           \A b \in e[current].owed :
             /\ b \in written \ files
             /\ b \notin e[current].view \/ (e[current].stale /\ Unread(b, e[current].cursor))
  PROVE  Told'
<1>1. ASSUME NEW n, current # 0, current = read[r].entry, Replays(r, current, n, e)
      PROVE  Told'
  <2>1. \A q \in Reads : q # r => read[q].entry # current
    BY <1>1 DEF Shared
  <2> QED BY <1>1, <2>1, ToldReplays
<1>2. ASSUME read' = [read EXCEPT ![r] = NoRead], Kept(e), current' = current
      PROVE  Told'
  <2>1. CASE current # 0 /\ read[r].entry = current
    <3>1. \A q \in Reads : q # r => read[q].entry # current
      BY <2>1 DEF Shared
    <3> QED BY <1>2, <2>1, <3>1, ToldEnds
  <2>2. CASE current # 0 /\ read[r].entry # current
    <3>1. entry'[current] = entry[current]
      BY <1>2, <2>2 DEF Kept
    <3>2. /\ read'[r].entry = 0
          /\ \A q \in Reads : q # r => read'[q] = read[q]
      BY <1>2 DEF Inv, ReaderInv, ReaderTypeOK, NoRead
    <3> QED BY <1>2, <2>2, <3>1, <3>2, ToldElsewhere
  <2>3. CASE current = 0
    BY <1>2, <2>3 DEF Told
  <2> QED BY <2>1, <2>2, <2>3
<1> QED
  BY <1>1, <1>2 DEF Refreshes

LEMMA GetTold ==
  ASSUME Inv, Inv', OnlyForward, InPlace, Told, Get
  PROVE  Told'
<1>1. PICK r \in Reads : GetEffect(r)
  BY GetDoes DEF Inv
<1>2. ASSUME NEW id, NEW c, Builds(r, 1, entry, id, c)
      PROVE  Told'
  BY <1>2, ToldBuilds
<1>3. ASSUME current # 0, Replays(r, current, 1, entry)
      PROVE  Told'
  <2>1. \A q \in Reads : read[q].entry # current
    BY <1>1, <1>3 DEF InPlace, Shared, GetEffect, Reads
  <2>2. InOrder => \A b \in entry[current].owed :
                     /\ b \in written \ files
                     /\ b \notin entry[current].view \/ Unread(b, entry[current].cursor)
    BY <1>3, <2>1 DEF Told, Unattended
  <2>3. UNCHANGED journal /\ entry \in [Ids -> EntryType]
    BY DEF Get, repository, Inv, ReaderInv, ReaderTypeOK
  <2> QED BY <1>3, <2>1, <2>2, <2>3, ToldReplays
<1> QED
  BY <1>1, <1>2, <1>3 DEF GetEffect

LEMMA BuiltTold ==
  ASSUME Inv, Inv', OnlyForward, InPlace, Told, NEW r \in Reads, Built(r)
  PROVE  Told'
<1> DEFINE id == read[r].entry
           e == Published(r)
<1>0. ReaderTypeOK /\ ReadsInv /\ Shared
  BY DEF Inv, ReaderInv, InPlace
<1>1. id \in Ids /\ e \in [Ids -> EntryType] /\ Refreshes(r, e)
  BY <1>0, BuiltDoes
<1>2. /\ \A i \in Ids : i # id => e[i] = entry[i]
      /\ e[id].owed = entry[id].owed /\ e[id].stale = entry[id].stale /\ e[id].cursor = entry[id].cursor
  BY <1>0, <1>1 DEF Published, ReaderTypeOK, EntryType
<1>3. UNCHANGED journal /\ Listing(r) /\ current \in {0} \cup Ids
  BY <1>0 DEF Built, repository, Listing, ReaderTypeOK
<1> HIDE DEF e
<1>4. ASSUME InOrder, current # 0, id = current, NEW b \in e[current].owed
      PROVE  b \in written \ files /\ e[current].stale /\ Unread(b, e[current].cursor)
  BY <1>2, <1>3, <1>4 DEF Told, Followed
<1> QED
  BY <1>0, <1>1, <1>2, <1>3, <1>4, ToldRefreshes

LEMMA ReplayedTold ==
  ASSUME Inv, Inv', OnlyForward, InPlace, Told, NEW r \in Reads, Replayed(r)
  PROVE  Told'
<1> DEFINE id == read[r].entry
           e == Applied(r)
<1>0. ReaderTypeOK /\ ReadsInv /\ Shared
  BY DEF Inv, ReaderInv, InPlace
<1>1. /\ id \in Ids
      /\ e \in [Ids -> EntryType]
      /\ e[id] = [entry[id] EXCEPT !.view = (entry[id].view \cup read[r].got) \ read[r].gone, !.cursor = read[r].cursor]
      /\ \A i \in Ids : i # id => e[i] = entry[i]
      /\ Refreshes(r, e)
  BY <1>0, ReplayedDoes
<1>2. UNCHANGED journal /\ read[r].pc = "replayed" /\ current \in {0} \cup Ids /\ entry[id] \in EntryType
  BY <1>0, <1>1 DEF Replayed, repository, ReaderTypeOK
<1> HIDE DEF e
<1>3. /\ e[id].owed = entry[id].owed /\ e[id].stale = entry[id].stale /\ e[id].cursor = read[r].cursor
      /\ e[id].view = (entry[id].view \cup read[r].got) \ read[r].gone
  BY <1>1, <1>2 DEF EntryType
<1>4. ASSUME InOrder, current # 0, id = current, NEW b \in e[current].owed
      PROVE  /\ b \in written \ files
             /\ b \notin e[current].view \/ (e[current].stale /\ Unread(b, e[current].cursor))
  <2>1. b \in written \ files /\ Followed(b, r)
    BY <1>3, <1>4 DEF Told
  <2>2. \/ b \in read[r].gone
        \/ b \notin entry[current].view /\ b \notin read[r].got
        \/ entry[current].stale /\ Unread(b, read[r].cursor)
    BY <1>2, <2>1 DEF Followed
  <2> QED BY <1>3, <1>4, <2>1, <2>2
<1> QED
  BY <1>0, <1>1, <1>2, <1>4, ToldRefreshes

LEMMA ReadJournalTold ==
  ASSUME Inv, Inv', OnlyForward, InPlace, Told, NEW r \in Reads, NEW failed, ReadJournal(r, failed)
  PROVE  Told'
<1> DEFINE id == read[r].entry
<1>0. ReaderTypeOK /\ ReadsInv /\ RepositoryInv
  BY DEF Inv, ReaderInv
<1>1. UNCHANGED <<files, written, journal, entry, current>> /\ read[r].pc = "journal"
  BY DEF ReadJournal, repository
<1>2. PICK got \in SUBSET Backups, gone \in SUBSET Backups, c \in Clock :
        /\ read' = [read EXCEPT ![r].pc = "replayed", ![r].got = got, ![r].gone = gone, ![r].cursor = c]
        /\ got \subseteq files
        /\ \A e \in Appeared : e.stamp > entry[id].cursor /\ e.backup \notin files => e.backup \in gone
        /\ c \in {entry[id].cursor} \cup {e.stamp : e \in Appeared}
  <2>1. JournalEffect(r)
    BY <1>0, JournalDoes
  <2> QED BY <2>1, Zenon DEF JournalEffect
<1>3. /\ \A q \in Reads : q # r => read'[q] = read[q]
      /\ read'[r].entry = id /\ read'[r].pc = "replayed"
      /\ read'[r].got = got /\ read'[r].gone = gone /\ read'[r].cursor = c
  BY <1>0, <1>2 DEF ReaderTypeOK, ReadType
<1>4. Appeared' = Appeared /\ InOrder' = InOrder
  BY <1>1, SameJournal
<1>5. CASE current # 0 /\ id # current
  BY <1>1, <1>3, <1>5, ToldElsewhere
<1>6. CASE current # 0 /\ id = current
  <2> SUFFICES ASSUME InOrder
               PROVE  /\ Ahead(r)'
                      /\ \A b \in entry[current].owed : b \in written \ files /\ Followed(b, r)'
    <3>1. \A q \in Reads : q # r => read'[q].entry # current
      BY <1>3, <1>6 DEF InPlace, Shared
    <3> QED BY <1>1, <1>3, <1>4, <1>6, <3>1 DEF Told, Unattended
  <2>1. \A e \in Appeared : e.event = "del" => e.backup \notin files
    BY <1>0 DEF RepositoryInv, Gone
  <2>2. Ahead(r)'
    BY <1>1, <1>2, <1>3, <1>4, <1>6, <2>1 DEF Ahead
  <2>3. ASSUME NEW b \in entry[current].owed
        PROVE  b \in written \ files /\ Followed(b, r)'
    <3>1. b \in written \ files /\ (b \notin entry[current].view \/ Unread(b, entry[current].cursor))
      BY <1>1, <1>6 DEF Told, Followed
    <3>2. b \in gone \/ (b \notin entry[current].view /\ b \notin got)
      BY <1>2, <1>6, <2>1, <3>1 DEF Unread
    <3> QED BY <1>1, <1>3, <3>1, <3>2 DEF Followed, Listing
  <2> QED BY <2>2, <2>3
<1>7. CASE current = 0
  BY <1>1, <1>7 DEF Told
<1> QED
  BY <1>5, <1>6, <1>7

LEMMA RefusedTold ==
  ASSUME Inv, Inv', NEW r \in Reads, Refused(r)
  PROVE  Told'
  BY RefusedDoes, ToldBuilds DEF Inv, ReaderInv

LEMMA ReadFailedTold ==
  ASSUME Inv, Inv', OnlyForward, Told, NEW r \in Reads, ReadFailed(r)
  PROVE  Told'
<1>1. /\ Kept(entry)
      /\ current' = IF current = read[r].entry THEN 0 ELSE current
      /\ read' = [read EXCEPT ![r] = NoRead]
  BY ReadFailedKeeps DEF ReadFailed
<1>2. /\ read'[r].entry = 0
      /\ \A q \in Reads : q # r => read'[q] = read[q]
  BY <1>1 DEF Inv, ReaderInv, ReaderTypeOK, NoRead
<1>3. current' # 0 => current' = current /\ entry'[current] = entry[current] /\ read[r].entry # current
  BY <1>1 DEF Kept
<1> QED
  BY <1>2, <1>3, ToldElsewhere

LEMMA DropTold ==
  ASSUME Delete \/ Remove
  PROVE  Told'
  BY DEF Delete, Remove, Told

LEMMA RepositoryStepTold ==
  ASSUME Inv, Inv', OnlyForward, Told, UNCHANGED reader
  PROVE  Told'
  BY ToldElsewhere DEF reader

LEMMA ListingTold ==
  ASSUME Inv, Inv', OnlyForward, Told, NEW r \in Reads, ListVmBackups(r) \/ WriteListedCache(r)
  PROVE  Told'
<1>1. /\ UNCHANGED <<entry, current>>
      /\ Listing(r)
      /\ \A q \in Reads : q # r => read'[q] = read[q]
      /\ read'[r].entry = read[r].entry
      /\ read'[r].pc \in {"regenerate", "listed"}
  BY DEF ListVmBackups, WriteListedCache, Listing, Inv, ReaderInv, ReaderTypeOK, ReadType
<1>2. Listing(r)' /\ read'[r].pc # "replayed"
  BY <1>1 DEF Listing
<1> QED
  BY <1>1, <1>2, ToldElsewhere

(* The entry in place is marked: what it has been told of is followed all  *)
(* the same, and so is what it has just been told of.                      *)
LEMMA ToldMarked ==
  ASSUME Inv, Inv', OnlyForward, Told, UNCHANGED <<journal, current, read>>, current # 0, NEW told,
         \A b \in told : Unread(b, entry[current].cursor),
         entry'[current].view = entry[current].view,
         entry'[current].cursor = entry[current].cursor,
         entry'[current].owed = entry[current].owed \cup told,
         entry[current].stale \/ told # {} => entry'[current].stale
  PROVE  Told'
<1>1. Appeared' = Appeared /\ InOrder' = InOrder
  BY SameJournal
<1> SUFFICES ASSUME InOrder
             PROVE  /\ \A r \in Reads : read[r].entry = current /\ read[r].pc = "replayed" => Ahead(r)'
                    /\ \A b \in entry'[current].owed :
                         /\ b \in written' \ files'
                         /\ Unattended => \/ b \notin entry'[current].view
                                          \/ entry'[current].stale /\ Unread(b, entry[current].cursor)'
                         /\ \A r \in Reads : read[r].entry = current => Followed(b, r)'
  BY <1>1 DEF Told, Unattended
<1>2. ASSUME NEW r \in Reads, read[r].entry = current, read[r].pc = "replayed"
      PROVE  Ahead(r) /\ Ahead(r)'
  BY <1>1, <1>2 DEF Told, Ahead
<1>3. ASSUME NEW b \in entry[current].owed
      PROVE  /\ b \in written' \ files'
             /\ Unattended => \/ b \notin entry'[current].view
                              \/ entry'[current].stale /\ Unread(b, entry[current].cursor)'
             /\ \A r \in Reads : read[r].entry = current => Followed(b, r)'
  <2>1. b \in written' \ files'
    BY <1>3 DEF Told, OnlyForward
  <2>2. Unattended => \/ b \notin entry'[current].view
                      \/ entry'[current].stale /\ Unread(b, entry[current].cursor)'
    BY <1>1, <1>3 DEF Told, Unread
  <2>3. \A r \in Reads : read[r].entry = current => Followed(b, r)'
    BY <1>1, <1>3 DEF Told, Followed, Unread, Listing
  <2> QED BY <2>1, <2>2, <2>3
<1>4. ASSUME NEW b \in told
      PROVE  /\ b \in written' \ files'
             /\ entry'[current].stale /\ Unread(b, entry[current].cursor)'
             /\ \A r \in Reads : read[r].entry = current => Followed(b, r)'
  <2>1. PICK e \in Appeared : e.backup = b /\ e.event = "del" /\ e.stamp > entry[current].cursor
    BY <1>4 DEF Unread
  <2>2. b \in written' \ files'
    BY <2>1 DEF Inv, RepositoryInv, Gone, OnlyForward
  <2>3. entry'[current].stale /\ Unread(b, entry[current].cursor)'
    BY <1>1, <1>4, <2>1 DEF Unread
  <2>4. ASSUME NEW r \in Reads, read[r].entry = current
        PROVE  Followed(b, r)'
    <3>1. read[r].pc = "replayed" => b \in read[r].gone \/ Unread(b, read[r].cursor)'
      BY <1>1, <1>2, <2>1, <2>4 DEF Ahead, Unread
    <3> QED BY <2>3, <3>1 DEF Followed
  <2> QED BY <2>2, <2>3, <2>4
<1> QED
  BY <1>2, <1>3, <1>4

LEMMA MarkTold ==
  ASSUME Inv, Inv', OnlyForward, Told, Refresh \/ RefreshForOthers \/ RebuildInterval
  PROVE  Told'
<1>0. entry \in [Ids -> EntryType] /\ current \in {0} \cup Ids
  BY DEF Inv, ReaderInv, ReaderTypeOK
<1>1. UNCHANGED <<journal, current, read>>
  BY DEF Refresh, RefreshForOthers, RebuildInterval, repository
<1>2. CASE current = 0
  BY <1>1, <1>2 DEF Told
<1>3. CASE current # 0
  <2>1. current \in Ids /\ entry[current] \in EntryType
    BY <1>0, <1>3
  <2>2. CASE Refresh
    <3>1. PICK told \in SUBSET Backups :
            /\ \A b \in told : Unread(b, entry[current].cursor)
            /\ entry' = [entry EXCEPT ![current] =
                           [entry[current] EXCEPT !.stale = TRUE, !.owed = entry[current].owed \cup told]]
      BY <1>3, <2>2, RefreshDoes DEF RefreshEffect
    <3>2. /\ entry'[current].view = entry[current].view
          /\ entry'[current].cursor = entry[current].cursor
          /\ entry'[current].owed = entry[current].owed \cup told
          /\ entry'[current].stale
      BY <1>0, <2>1, <3>1 DEF EntryType
    <3> QED BY <1>1, <1>3, <3>1, <3>2, ToldMarked
  <2>3. CASE RefreshForOthers \/ RebuildInterval
    <3> DEFINE told == {}
    <3>1. /\ entry'[current].view = entry[current].view
          /\ entry'[current].cursor = entry[current].cursor
          /\ entry'[current].owed = entry[current].owed \cup told
          /\ entry[current].stale => entry'[current].stale
      BY <1>0, <2>1, <2>3 DEF RefreshForOthers, RebuildInterval, EntryType
    <3>2. told = {} /\ \A b \in told : Unread(b, entry[current].cursor)
      OBVIOUS
    <3> HIDE DEF told
    <3> QED BY <1>1, <1>3, <3>1, <3>2, ToldMarked
  <2> QED BY <2>2, <2>3
<1> QED
  BY <1>2, <1>3

LEMMA StepTold ==
  ASSUME Inv, Inv', OnlyForward, InPlace, Told, Next
  PROVE  Told'
  BY RepositoryStepTold, MarkTold, GetTold, ListingTold, BuiltTold, ReadJournalTold, ReplayedTold, RefusedTold,
     ReadFailedTold, DropTold DEF Next, ReadStep

(* A deletion by this server is visible at once: an entry that refresh()   *)
(* has told of it no longer holds the backup, unless it is still stale or  *)
(* being read.  It holds while the journal appears in the order of its     *)
(* names and no source refuses its journal after its entry was dropped.    *)
THEOREM ReadYourDeletionHolds == "refusal" \notin LateCalls => (Spec => []ReadYourDeletion)
<1> SUFFICES ASSUME "refusal" \notin LateCalls PROVE Spec => []ReadYourDeletion
  OBVIOUS
<1>1. Spec => [](Inv /\ InPlace)
  BY InPlaceInvariance
<1>2. Init => Told
  BY DEF Init, Told
<1>3. Inv /\ InPlace /\ Told /\ [Next]_vars => Told'
  <2> SUFFICES ASSUME Inv, InPlace, Told, [Next]_vars PROVE Told'
    OBVIOUS
  <2>1. Inv' /\ OnlyForward
    BY StepInv, StutterInv
  <2>2. CASE Next
    BY <2>1, <2>2, StepTold
  <2>3. CASE UNCHANGED vars
    BY <2>1, <2>3, RepositoryStepTold DEF vars
  <2> QED BY <2>2, <2>3
<1>4. Told => ReadYourDeletion
  BY DEF Told, ReadYourDeletion, Unattended
<1> QED
  BY <1>1, <1>2, <1>3, <1>4, PTL DEF Spec

(***************************************************************************)
(* A repository that has been removed, when no call comes late.            *)
(***************************************************************************)
Detached == ~attached => current = 0 /\ announced = 0

LEMMA StepDetached ==
  ASSUME Inv, Detached, LateCalls = {}, Next
  PROVE  Detached'
<1> USE DEF Detached
<1>1. \A r \in Reads : read[r].pc # "idle" => read[r].entry # 0
  BY DEF Inv, ReaderInv, ReadsInv, Shape
<1>2. CASE UNCHANGED <<current, announced, attached>>
  BY <1>2
<1>3. CASE Get \/ Delete \/ Remove
  BY <1>3 DEF Get, Delete, Remove
<1>4. ASSUME NEW r \in Reads, Built(r) \/ Replayed(r)
      PROVE  Detached'
  <2>1. current' = current /\ attached' = attached
    BY <1>4 DEF Built, Replayed, Refreshed, Replay
  <2>2. announced' = announced \/ (announced' = read[r].entry /\ current = read[r].entry /\ read[r].pc = "listed")
    BY <1>4 DEF Built, Replayed
  <2> QED BY <1>1, <2>1, <2>2
<1>5. ASSUME NEW r \in Reads, Refused(r)
      PROVE  Detached'
  BY <1>1, <1>5 DEF Refused
<1>6. ASSUME NEW r \in Reads, ReadFailed(r)
      PROVE  Detached'
  BY <1>6 DEF ReadFailed
<1>7. ASSUME NEW r \in Reads, ListVmBackups(r) \/ WriteListedCache(r) \/ \E failed : ReadJournal(r, failed)
      PROVE  UNCHANGED <<current, announced, attached>>
  BY <1>7 DEF ListVmBackups, WriteListedCache, ReadJournal
<1>8. ASSUME UNCHANGED reader \/ Refresh \/ RefreshForOthers \/ RebuildInterval
      PROVE  UNCHANGED <<current, announced, attached>>
  BY <1>8 DEF reader, Refresh, RefreshForOthers, RebuildInterval
<1> QED
  BY <1>2, <1>3, <1>4, <1>5, <1>6, <1>7, <1>8 DEF Next, ReadStep

(* Once remove() has been called no archive of the repository is announced *)
(* again, whatever reads were in flight, when no call comes late.          *)
THEOREM RemovedStaysRemovedHolds == LateCalls = {} => (Spec => []RemovedStaysRemoved)
<1> SUFFICES ASSUME LateCalls = {} PROVE Spec => []RemovedStaysRemoved
  OBVIOUS
<1>1. Init => Detached
  BY DEF Init, Detached
<1>2. Inv /\ Detached /\ [Next]_vars => Detached'
  <2> SUFFICES ASSUME Inv, Detached, [Next]_vars PROVE Detached'
    OBVIOUS
  <2>1. CASE Next
    BY <2>1, StepDetached
  <2>2. CASE UNCHANGED vars
    BY <2>2 DEF vars, reader, Detached
  <2> QED BY <2>1, <2>2
<1>3. Inv /\ Detached => RemovedStaysRemoved
  BY DEF Inv, ReaderInv, Mirror, View, Detached, RemovedStaysRemoved
<1> QED
  BY <1>1, <1>2, <1>3, Invariance, PTL DEF Spec
=============================================================================
