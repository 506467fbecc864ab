------------------------------ MODULE Retention ------------------------------
(***************************************************************************)
(* The retention as the code computes it (@xen-orchestra/backups/          *)
(* _getOldEntries.mjs) and applies it run after run (the remote writers):  *)
(* a walk over the sorted entries with a countdown per duration, a list of *)
(* old entries cut at maxMergedDeltasPerRun, and deletions before or after *)
(* the transfer.  It implements RetentionPolicy.                           *)
(***************************************************************************)
EXTENDS RetentionPolicy, SequencesExt

(* listVmBackups() sorts the entries by timestamp.  (SetToSortSeq would
   enumerate every sequence over the set.)                                 *)
Sorted(S) == [i \in 1 .. Cardinality(S) |-> CHOOSE e \in S : Cardinality(Newer(S, e)) = Cardinality(S) - i]
ListVmBackups == Sorted(backups)

(* The durations that have a retention (an absent one is 0 here), and their
   countdowns before the walk.                                             *)
LtrDurations == {d \in Durations : settings.longTermRetention[d] > 0}
NoBuckets == [d \in LtrDurations |->
               [remaining |-> settings.longTermRetention[d], last |-> -1, entries |-> [b \in {} |-> 0]]]

(* Mutant: the newest entry of a bucket is kept. *)
VisitNewest(ctx, d, entry) ==
  LET bucket == Bucket[d][entry]
  IN IF ctx.last = bucket \/ ctx.remaining = 0 THEN ctx
     ELSE [remaining |-> ctx.remaining - 1, last |-> bucket, entries |-> (bucket :> entry) @@ ctx.entries]

(* Mutant: one bucket less is kept. *)
VisitShort(ctx, d, entry) ==
  LET bucket == Bucket[d][entry]
      new == ctx.last # bucket
  IN IF new /\ ctx.remaining = 1 THEN ctx
     ELSE [remaining |-> IF new THEN ctx.remaining - 1 ELSE ctx.remaining,
           last |-> bucket,
           entries |-> (bucket :> entry) @@ ctx.entries]

(* One duration and one entry: a new bucket counts down; past the last one
   the entry is skipped, and otherwise it replaces the bucket's entry.     *)
Visit(ctx, d, entry) ==
  LET bucket == Bucket[d][entry]
      new == ctx.last # bucket
  IN IF new /\ ctx.remaining = 0 THEN ctx
     ELSE [remaining |-> IF new THEN ctx.remaining - 1 ELSE ctx.remaining,
           last |-> bucket,
           entries |-> (bucket :> entry) @@ ctx.entries]

(* getLtrEntries(): from the most recent entry to the oldest. *)
GetLtrEntries(entries) ==
  FoldRight(LAMBDA entry, ctx : [d \in LtrDurations |-> Visit(ctx[d], d, entry)], entries, NoBuckets)

(* Mutant: the first entries are kept instead of the last ones. *)
GetOldEntriesFirst(minRetentionCount, entries) ==
  SelectSeq(entries, LAMBDA e : \A i \in DOMAIN entries : entries[i] = e => i > minRetentionCount)

(* getOldEntries(): neither among the last ones nor the entry of a bucket. *)
GetOldEntries(minRetentionCount, entries) ==
  LET ltr == GetLtrEntries(entries)
      last == {entries[i] : i \in {i \in DOMAIN entries : i > Len(entries) - minRetentionCount}}
      bucketed == UNION {Range(ltr[d].entries) : d \in LtrDurations}
  IN SelectSeq(entries, LAMBDA e : e \notin last \cup bucketed)

(* getLongTermRetentionTags(): the buckets the new entry is the entry of. *)
GetEntryStatus(entries, entry) ==
  {d \in LtrDurations : entry \in Range(GetLtrEntries(entries)[d].entries)}

(* _prepare(), and the beginning of FullRemoteWriter's _run(). *)
Prepare ==
  /\ run.pc = "none"
  /\ \E t \in Times : t > now /\ now' = t
  /\ LET all == GetOldEntries(settings.exportRetention - 1, ListVmBackups)
         old == SubSeq(all, 1, IF Len(all) > settings.maxMergedDeltasPerRun
                               THEN settings.maxMergedDeltasPerRun ELSE Len(all))
     IN /\ run' = [pc |-> "transfer", old |-> ToSet(old)]
        /\ IF settings.deleteFirst
           THEN \E i \in 0 .. Len(old) : backups' = backups \ ToSet(SubSeq(old, i + 1, Len(old)))
           ELSE UNCHANGED backups
  /\ UNCHANGED <<settings, made, tagged>>

(* Mutant: every backup is tagged. *)
TransferTagsAll ==
  /\ run.pc = "transfer"
  /\ run' = [run EXCEPT !.pc = "cleanup"]
  /\ backups' = backups \cup {now}
  /\ made' = made \cup {now}
  /\ tagged' = tagged \cup {<<d, now>> : d \in LtrDurations}
  /\ UNCHANGED <<settings, now>>

(* The transfer, then writeVmBackupMetadata(). *)
Transfer ==
  /\ run.pc = "transfer"
  /\ run' = [run EXCEPT !.pc = "cleanup"]
  /\ backups' = backups \cup {now}
  /\ made' = made \cup {now}
  /\ tagged' = tagged \cup {<<d, now>> : d \in GetEntryStatus(Append(ListVmBackups, now), now)}
  /\ UNCHANGED <<settings, now>>

(* The run is interrupted, or its transfer fails. *)
Fail ==
  /\ run.pc \in {"transfer", "cleanup"}
  /\ run' = NoRun
  /\ UNCHANGED <<settings, now, backups, made, tagged>>

(* cleanup(): newest first, until one of the deletions fails. *)
Cleanup ==
  LET old == Sorted(run.old)
  IN /\ run.pc = "cleanup"
     /\ IF settings.deleteFirst
        THEN UNCHANGED backups
        ELSE \E i \in 0 .. Len(old) : backups' = backups \ ToSet(SubSeq(old, i + 1, Len(old)))
     /\ run' = NoRun
     /\ UNCHANGED <<settings, now, made, tagged>>

Next == Prepare \/ Transfer \/ Fail \/ Cleanup

Spec == PolicyInit /\ [][Next]_policyVars

-----------------------------------------------------------------------------

(* "return the entries too old to be kept": exactly those, in order.  "If a
   bucket is completely empty: it does not count as one", "keep only the
   oldest one" of a bucket, and the last minRetentionCount ones.           *)
OldEntriesExact ==
  \A n \in 0 .. settings.exportRetention :
    GetOldEntries(n, ListVmBackups)
      = Sorted(backups \ Kept(n, settings.longTermRetention, backups))

(* Every run of the writers is one the policy allows. *)
ImplementsPolicy == PolicySpec

=============================================================================
