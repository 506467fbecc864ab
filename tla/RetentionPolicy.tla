--------------------------- MODULE RetentionPolicy ---------------------------
(***************************************************************************)
(* What the retention of a backup job promises, whatever the runs of the   *)
(* job: a run may delete only entries the settings let go, computed from   *)
(* what is on the remote at that time, and the runs together never lose a  *)
(* backup the settings keep when they are applied to every backup ever     *)
(* made.                                                                   *)
(*                                                                         *)
(* The entries are the backups of one VM by one schedule, named by their   *)
(* timestamp.  A duration (day, week, month, year) divides time in buckets.*)
(***************************************************************************)
EXTENDS Integers, FiniteSets

CONSTANTS Times,        \* timestamps
          Durations,    \* daily, weekly, monthly, yearly
          Bucket,       \* Bucket[d][t]: the bucket of duration d that t falls in
          Settings      \* the settings a job may have

ASSUME TimesAssumption == Times \subseteq Nat
ASSUME BucketAssumption ==
  /\ Bucket \in [Durations -> [Times -> Nat]]
  /\ \A d \in Durations : \A t, u \in Times : t <= u => Bucket[d][t] <= Bucket[d][u]
ASSUME SettingsAssumption ==
  Settings \subseteq [exportRetention : Nat \ {0}, longTermRetention : [Durations -> Nat],
                      deleteFirst : BOOLEAN, maxMergedDeltasPerRun : Nat]

VARIABLES settings,   \* of the job
          now,        \* timestamp of the last run
          backups,    \* the entries on the remote
          run,        \* the run under way and the entries it will delete
          made,       \* every entry ever written
          tagged      \* the <<duration, entry>> that were tagged as long-term

policyVars == <<settings, now, backups, run, made, tagged>>

(* The entries of S more recent than e, and the buckets they are in. *)
Newer(S, e) == {f \in S : f > e}
NewerBuckets(S, d, e) == {Bucket[d][f] : f \in Newer(S, e)} \ {Bucket[d][e]}

(* e is among the last n entries of S. *)
AmongLast(n, S, e) == Cardinality(Newer(S, e)) < n

(* e is the oldest entry of its bucket, which is one of the last buckets
   that are not empty.  A duration without retention has 0 buckets.        *)
OldestInBucket(S, d, e) == \A f \in S : Bucket[d][f] = Bucket[d][e] => e <= f
LongTerm(ltr, S, d, e) == OldestInBucket(S, d, e) /\ Cardinality(NewerBuckets(S, d, e)) < ltr[d]

Kept(n, ltr, S) == {e \in S : AmongLast(n, S, e) \/ \E d \in Durations : LongTerm(ltr, S, d, e)}

(* What a run may delete: the new backup is about to be one of the last. *)
Expired(S) == S \ Kept(settings.exportRetention - 1, settings.longTermRetention, S)

NoRun == [pc |-> "none", old |-> {}]

PolicyInit ==
  /\ settings \in Settings
  /\ now = 0
  /\ backups = {} /\ made = {} /\ tagged = {}
  /\ run = NoRun

(* Before the transfer: the run decides what to delete, and with deleteFirst
   deletes it, or the part of it that does not fail.                       *)
PolicyPrepare ==
  /\ run.pc = "none"
  /\ \E t \in Times : t > now /\ now' = t
  /\ \E old \in SUBSET Expired(backups), gone \in SUBSET backups :
       /\ run' = [pc |-> "transfer", old |-> old]
       /\ gone \subseteq old /\ (settings.deleteFirst \/ gone = {})
       /\ backups' = backups \ gone
  /\ UNCHANGED <<settings, made, tagged>>

(* The backup is written, with a tag per bucket it is the oldest entry of. *)
PolicyTransfer ==
  /\ run.pc = "transfer"
  /\ run' = [run EXCEPT !.pc = "cleanup"]
  /\ backups' = backups \cup {now}
  /\ made' = made \cup {now}
  /\ tagged' = tagged \cup {<<d, now>> : d \in {d \in Durations : LongTerm(settings.longTermRetention, backups', d, now)}}
  /\ UNCHANGED <<settings, now>>

PolicyFail ==
  /\ run.pc \in {"transfer", "cleanup"}
  /\ run' = NoRun
  /\ UNCHANGED <<settings, now, backups, made, tagged>>

PolicyCleanup ==
  /\ run.pc = "cleanup"
  /\ \E gone \in SUBSET run.old :
       /\ settings.deleteFirst => gone = {}
       /\ backups' = backups \ gone
  /\ run' = NoRun
  /\ UNCHANGED <<settings, now, made, tagged>>

PolicyNext == PolicyPrepare \/ PolicyTransfer \/ PolicyFail \/ PolicyCleanup

PolicySpec == PolicyInit /\ [][PolicyNext]_policyVars

-----------------------------------------------------------------------------

(* Type invariant; no entry is later than the last run. *)
TypeOK ==
  /\ settings \in Settings
  /\ now \in Times \cup {0}
  /\ made \subseteq Times /\ backups \subseteq made
  /\ \A e \in made : e <= now
  /\ run \in [pc : {"none", "transfer", "cleanup"}, old : SUBSET Times]
  /\ tagged \subseteq Durations \X made

(* With deleteFirst the room for the new backup is made before it exists. *)
Guaranteed == IF settings.deleteFirst THEN settings.exportRetention - 1 ELSE settings.exportRetention

(* No sequence of runs, complete, interrupted, or failing half way through a
   deletion, loses a backup that the retention, applied to all the backups
   ever made, keeps: what a run deletes, computed from what the previous
   ones left, is never a bucket's representative or one of the last ones.  *)
NothingPromisedLost == Kept(Guaranteed, settings.longTermRetention, made) \subseteq backups

(* Two backups are never tagged for the same bucket: the one that was tagged
   is still listed when the next backup of its bucket is tagged.           *)
OneTagPerBucket ==
  \A x, y \in tagged : x[1] = y[1] /\ Bucket[x[1]][x[2]] = Bucket[y[1]][y[2]] => x = y

=============================================================================
