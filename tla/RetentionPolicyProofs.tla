------------------------ MODULE RetentionPolicyProofs ------------------------
(***************************************************************************)
(* Proofs about RetentionPolicy, for all settings, durations and buckets.  *)
(*                                                                         *)
(* The argument.  Keeping is antitone: an entry that is kept among many is *)
(* kept among fewer (KeptAmongFewer), so what previous runs deleted cannot *)
(* make the next one delete a promised entry; and the entries a run spares *)
(* with one backup less include those promised once its backup is written  *)
(* (KeptWithNew).  The inductive invariant says in which set the entries a *)
(* run is about to delete are expired, before and after the transfer.      *)
(***************************************************************************)
EXTENDS RetentionPolicy, TLAPS, FiniteSetTheorems

(* A finite set of timestamps. *)
FiniteTimes(S) == S \subseteq Times /\ IsFiniteSet(S)

LEMMA NewerFinite ==
  ASSUME NEW S, FiniteTimes(S), NEW e \in Times
  PROVE  IsFiniteSet(Newer(S, e)) /\ Cardinality(Newer(S, e)) \in Nat
<1>1. Newer(S, e) \subseteq S
  BY DEF Newer
<1> QED
  BY <1>1, FS_Subset, FS_CardinalityType DEF FiniteTimes

LEMMA NewerBucketsFinite ==
  ASSUME NEW S, FiniteTimes(S), NEW e \in Times, NEW d \in Durations
  PROVE  IsFiniteSet(NewerBuckets(S, d, e)) /\ Cardinality(NewerBuckets(S, d, e)) \in Nat
<1> DEFINE T == {Bucket[d][f] : f \in Newer(S, e)}
           g == [f \in Newer(S, e) |-> Bucket[d][f]]
<1>1. g \in Surjection(Newer(S, e), T)
  BY DEF Surjection
<1>2. IsFiniteSet(T)
  BY <1>1, NewerFinite, FS_Surjection
<1>3. NewerBuckets(S, d, e) \subseteq T
  BY DEF NewerBuckets
<1> QED
  BY <1>2, <1>3, FS_Subset, FS_CardinalityType

(* A bucket's entry, or one of the last ones, is still one among fewer. *)
LEMMA LongTermAmongFewer ==
  ASSUME NEW ltr \in [Durations -> Nat], NEW S, FiniteTimes(S), NEW B \in SUBSET S,
         NEW e \in B, NEW d \in Durations, LongTerm(ltr, S, d, e)
  PROVE  LongTerm(ltr, B, d, e)
<1>1. FiniteTimes(B) /\ e \in Times
  BY FS_Subset DEF FiniteTimes
<1>2. NewerBuckets(B, d, e) \subseteq NewerBuckets(S, d, e)
  BY DEF NewerBuckets, Newer
<1>3. Cardinality(NewerBuckets(B, d, e)) <= Cardinality(NewerBuckets(S, d, e))
  BY <1>1, <1>2, NewerBucketsFinite, FS_Subset
<1>4. Cardinality(NewerBuckets(B, d, e)) \in Nat /\ Cardinality(NewerBuckets(S, d, e)) \in Nat
  BY <1>1, NewerBucketsFinite
<1>5. Cardinality(NewerBuckets(S, d, e)) < ltr[d] /\ ltr[d] \in Nat
  BY DEF LongTerm
<1>6. OldestInBucket(B, d, e)
  BY DEF LongTerm, OldestInBucket
<1> QED
  BY <1>3, <1>4, <1>5, <1>6 DEF LongTerm

LEMMA AmongLastOfFewer ==
  ASSUME NEW n \in Int, NEW S, FiniteTimes(S), NEW B \in SUBSET S, NEW e \in B, AmongLast(n, S, e)
  PROVE  AmongLast(n, B, e)
<1>1. FiniteTimes(B) /\ e \in Times
  BY FS_Subset DEF FiniteTimes
<1>2. Newer(B, e) \subseteq Newer(S, e)
  BY DEF Newer
<1>3. Cardinality(Newer(B, e)) <= Cardinality(Newer(S, e))
  BY <1>1, <1>2, NewerFinite, FS_Subset
<1> QED
  BY <1>1, <1>3, NewerFinite DEF AmongLast

LEMMA KeptAmongFewer ==
  ASSUME NEW n \in Int, NEW ltr \in [Durations -> Nat], NEW S, FiniteTimes(S), NEW B \in SUBSET S
  PROVE  Kept(n, ltr, S) \cap B \subseteq Kept(n, ltr, B)
BY LongTermAmongFewer, AmongLastOfFewer DEF Kept

(* What is kept of n with the new backup was kept of n - 1 without it. *)
LEMMA KeptWithNew ==
  ASSUME NEW n \in Nat, NEW ltr \in [Durations -> Nat], NEW S, FiniteTimes(S),
         NEW t \in Times, \A e \in S : e < t
  PROVE  Kept(n, ltr, S \cup {t}) \cap S \subseteq Kept(n - 1, ltr, S)
<1> SUFFICES ASSUME NEW e \in S, e \in Kept(n, ltr, S \cup {t})
             PROVE  e \in Kept(n - 1, ltr, S)
  OBVIOUS
<1>1. FiniteTimes(S \cup {t}) /\ e \in Times
  BY FS_AddElement DEF FiniteTimes
<1>2. CASE \E d \in Durations : LongTerm(ltr, S \cup {t}, d, e)
  BY <1>1, <1>2, LongTermAmongFewer DEF Kept
<1>3. CASE AmongLast(n, S \cup {t}, e)
  <2>1. Newer(S \cup {t}, e) = Newer(S, e) \cup {t}
    BY <1>1, TimesAssumption DEF Newer, FiniteTimes
  <2>2. t \notin Newer(S, e)
    BY TimesAssumption DEF Newer, FiniteTimes
  <2>3. Cardinality(Newer(S \cup {t}, e)) = Cardinality(Newer(S, e)) + 1
    BY <1>1, <2>1, <2>2, NewerFinite, FS_AddElement
  <2>4. Cardinality(Newer(S, e)) \in Nat
    BY <1>1, NewerFinite
  <2>5. AmongLast(n - 1, S, e)
    BY <1>3, <2>3, <2>4 DEF AmongLast
  <2> QED
    BY <2>5 DEF Kept
<1> QED
  BY <1>2, <1>3 DEF Kept

-----------------------------------------------------------------------------
(***************************************************************************)
(* The inductive invariant.                                                *)
(***************************************************************************)

KeptOf(n) == Kept(n, settings.longTermRetention, made)

(* What the run under way will delete is promised to nobody: before the
   transfer with one backup less, after it with the new backup.            *)
OldExpired ==
  /\ run.pc = "transfer" => /\ run.old \subseteq made
                            /\ run.old \cap KeptOf(settings.exportRetention - 1) = {}
                            /\ now \in Times
                            /\ \A e \in made : e < now
  /\ run.pc = "cleanup" => run.old \cap KeptOf(settings.exportRetention) = {}

(* Every bucket that has had an entry has an oldest one, and the tagged
   entries are such ones.                                                  *)
Represented == \A d \in Durations : \A e \in made :
                 \E f \in made : Bucket[d][f] = Bucket[d][e] /\ OldestInBucket(made, d, f)
TaggedOldest == \A x \in tagged : OldestInBucket(made, x[1], x[2])

IndInv == TypeOK /\ NothingPromisedLost /\ OldExpired /\ Represented /\ TaggedOldest

LEMMA MadeFinite ==
  ASSUME TypeOK
  PROVE  FiniteTimes(made) /\ FiniteTimes(backups)
<1>1. now \in Nat /\ made \in SUBSET Nat /\ \A e \in made : e <= now
  BY TimesAssumption DEF TypeOK
<1>2. IsFiniteSet(made)
  BY <1>1, FS_BoundedSetOfNaturals
<1> QED
  BY <1>2, FS_Subset DEF TypeOK, FiniteTimes

LEMMA SettingsTypes ==
  ASSUME TypeOK
  PROVE  /\ settings.exportRetention \in Nat \ {0}
         /\ settings.longTermRetention \in [Durations -> Nat]
         /\ settings.deleteFirst \in BOOLEAN
         /\ Guaranteed \in Nat
BY SettingsAssumption DEF TypeOK, Guaranteed

LEMMA InitInv == PolicyInit => IndInv
<1> SUFFICES ASSUME PolicyInit PROVE IndInv
  OBVIOUS
<1>1. TypeOK
  BY DEF PolicyInit, TypeOK, NoRun
<1>2. NothingPromisedLost /\ OldExpired /\ Represented /\ TaggedOldest
  BY DEF PolicyInit, NothingPromisedLost, OldExpired, Represented, TaggedOldest, Kept, NoRun
<1> QED
  BY <1>1, <1>2 DEF IndInv

LEMMA PrepareInv == IndInv /\ PolicyPrepare => IndInv'
<1> SUFFICES ASSUME IndInv, PolicyPrepare PROVE IndInv'
  OBVIOUS
<1> USE DEF IndInv
<1>1. PICK old \in SUBSET Expired(backups), gone \in SUBSET backups :
        /\ run' = [pc |-> "transfer", old |-> old]
        /\ gone \subseteq old /\ (settings.deleteFirst \/ gone = {})
        /\ backups' = backups \ gone
  BY DEF PolicyPrepare
<1>2. UNCHANGED <<settings, made, tagged>> /\ now' \in Times /\ now' > now
  BY DEF PolicyPrepare
<1>3. old \subseteq backups /\ old \subseteq made
  BY DEF Expired, TypeOK
<1>4. \A e \in made : e < now'
  BY <1>2, TimesAssumption DEF TypeOK
<1>5. TypeOK'
  <2>1. \A e \in made : e <= now'
    BY <1>4, <1>2, TimesAssumption DEF TypeOK
  <2> QED
    BY <1>1, <1>2, <1>3, <2>1 DEF TypeOK
<1>6. old \cap KeptOf(settings.exportRetention - 1) = {}
  <2>1. KeptOf(settings.exportRetention - 1) \cap backups
          \subseteq Kept(settings.exportRetention - 1, settings.longTermRetention, backups)
    BY MadeFinite, SettingsTypes, KeptAmongFewer DEF TypeOK, KeptOf
  <2> QED
    BY <1>3, <2>1 DEF Expired
<1>7. OldExpired'
  BY <1>1, <1>2, <1>3, <1>4, <1>6 DEF OldExpired, KeptOf
<1>8. NothingPromisedLost'
  <2>1. Guaranteed' = Guaranteed
    BY <1>2 DEF Guaranteed
  <2>2. KeptOf(Guaranteed) \subseteq backups
    BY DEF NothingPromisedLost, KeptOf
  <2>3. gone \cap KeptOf(Guaranteed) = {}
    BY <1>1, <1>6 DEF Guaranteed
  <2> QED
    BY <1>1, <1>2, <2>1, <2>2, <2>3 DEF NothingPromisedLost, KeptOf
<1>9. Represented' /\ TaggedOldest'
  BY <1>2 DEF Represented, TaggedOldest, OldestInBucket
<1> QED
  BY <1>5, <1>7, <1>8, <1>9

(* The new entry of a bucket that is not empty is not tagged: the bucket's
   oldest entry is one of the last bucket's, hence promised, hence listed. *)
LEMMA TagsOldest ==
  ASSUME IndInv, run.pc = "transfer", NEW d \in Durations,
         LongTerm(settings.longTermRetention, backups \cup {now}, d, now)
  PROVE  OldestInBucket(made \cup {now}, d, now)
<1> USE DEF IndInv
<1> DEFINE ltr == settings.longTermRetention
<1>1. now \in Times /\ (\A e \in made : e < now) /\ made \subseteq Times /\ backups \subseteq made
  BY DEF OldExpired, TypeOK
<1> SUFFICES ASSUME NEW e \in made, Bucket[d][e] = Bucket[d][now]
             PROVE  FALSE
  BY <1>1, TimesAssumption DEF OldestInBucket
<1>2. PICK f \in made : Bucket[d][f] = Bucket[d][now] /\ OldestInBucket(made, d, f)
  BY DEF Represented
<1>3. NewerBuckets(made, d, f) = {}
  <2>1. ASSUME NEW g \in made, g > f PROVE Bucket[d][g] = Bucket[d][f]
    <3>1. f \in Times /\ g \in Times /\ f <= g /\ g <= now
      BY <1>1, <2>1, TimesAssumption
    <3>2. Bucket[d][f] <= Bucket[d][g] /\ Bucket[d][g] <= Bucket[d][now]
      BY <1>1, <3>1, BucketAssumption
    <3>3. Bucket[d][f] \in Nat /\ Bucket[d][g] \in Nat /\ Bucket[d][now] \in Nat
      BY <1>1, <3>1, BucketAssumption
    <3> QED
      BY <1>2, <3>2, <3>3
  <2> QED
    BY <2>1 DEF NewerBuckets, Newer
<1>4. Cardinality(NewerBuckets(made, d, f)) < ltr[d]
  <2>1. FiniteTimes(backups \cup {now})
    BY <1>1, MadeFinite, FS_AddElement DEF FiniteTimes
  <2>2. Cardinality(NewerBuckets(backups \cup {now}, d, now)) \in Nat
    BY <1>1, <2>1, NewerBucketsFinite
  <2>3. Cardinality(NewerBuckets(backups \cup {now}, d, now)) < ltr[d] /\ ltr[d] \in Nat
    BY SettingsTypes DEF LongTerm
  <2>4. Cardinality(NewerBuckets(made, d, f)) = 0
    BY <1>3, FS_EmptySet
  <2> QED
    BY <2>2, <2>3, <2>4
<1>5. f \in KeptOf(Guaranteed)
  BY <1>2, <1>4 DEF KeptOf, Kept, LongTerm
<1>6. f \in backups
  BY <1>5 DEF NothingPromisedLost, KeptOf
<1>7. now <= f
  BY <1>2, <1>6 DEF LongTerm, OldestInBucket
<1> QED
  BY <1>1, <1>2, <1>7, TimesAssumption

LEMMA TransferInv == IndInv /\ PolicyTransfer => IndInv'
<1> SUFFICES ASSUME IndInv, PolicyTransfer PROVE IndInv'
  OBVIOUS
<1> USE DEF IndInv
<1> DEFINE N == settings.exportRetention
           ltr == settings.longTermRetention
<1>1. /\ run.pc = "transfer" /\ run' = [run EXCEPT !.pc = "cleanup"]
      /\ UNCHANGED <<settings, now>>
      /\ backups' = backups \cup {now} /\ made' = made \cup {now}
      /\ tagged' = tagged \cup {<<d, now>> : d \in {d \in Durations : LongTerm(ltr, backups', d, now)}}
  BY DEF PolicyTransfer
<1>2. /\ now \in Times /\ (\A e \in made : e < now) /\ made \subseteq Times
      /\ run.old \subseteq made /\ run.old \cap KeptOf(N - 1) = {}
  BY <1>1 DEF OldExpired, TypeOK
<1>3. run'.pc = "cleanup" /\ run'.old = run.old
  BY <1>1 DEF TypeOK
<1>4. FiniteTimes(made) /\ FiniteTimes(made')
  BY <1>1, <1>2, MadeFinite, FS_AddElement DEF FiniteTimes
<1>5. TypeOK'
  <2>1. \A e \in made' : e <= now'
    BY <1>1, <1>2, TimesAssumption
  <2>2. tagged' \subseteq Durations \X made'
    BY <1>1 DEF TypeOK
  <2>3. run' \in [pc : {"none", "transfer", "cleanup"}, old : SUBSET Times]
    BY <1>1 DEF TypeOK
  <2> QED
    BY <1>1, <1>2, <2>1, <2>2, <2>3 DEF TypeOK
<1>6. OldExpired'
  <2>1. Kept(N, ltr, made') \cap made \subseteq KeptOf(N - 1)
    BY <1>1, <1>2, <1>4, SettingsTypes, KeptWithNew DEF KeptOf
  <2>2. run.old \cap Kept(N, ltr, made') = {}
    BY <1>2, <2>1
  <2> QED
    BY <1>1, <1>3, <2>2 DEF OldExpired, KeptOf
<1>7. NothingPromisedLost'
  <2>1. Guaranteed' = Guaranteed /\ Guaranteed \in Int
    BY <1>1, SettingsTypes DEF Guaranteed
  <2>2. Kept(Guaranteed, ltr, made') \cap made \subseteq Kept(Guaranteed, ltr, made)
    BY <1>1, <1>4, <2>1, SettingsTypes, KeptAmongFewer
  <2>3. Kept(Guaranteed, ltr, made') \subseteq made'
    BY DEF Kept
  <2> QED
    BY <1>1, <2>1, <2>2, <2>3 DEF NothingPromisedLost
<1>8. ASSUME NEW d \in Durations, NEW f \in made, OldestInBucket(made, d, f)
      PROVE  OldestInBucket(made', d, f)
  BY <1>1, <1>2, <1>8, TimesAssumption DEF OldestInBucket
<1>9. Represented'
  <2> SUFFICES ASSUME NEW d \in Durations, NEW e \in made'
               PROVE  \E f \in made' : Bucket[d][f] = Bucket[d][e] /\ OldestInBucket(made', d, f)
    BY DEF Represented, OldestInBucket
  <2>1. CASE \E g \in made : Bucket[d][g] = Bucket[d][e]
    <3>1. PICK g \in made : Bucket[d][g] = Bucket[d][e]
      BY <2>1
    <3>2. PICK f \in made : Bucket[d][f] = Bucket[d][g] /\ OldestInBucket(made, d, f)
      BY DEF Represented
    <3> QED
      BY <1>1, <1>8, <3>1, <3>2
  <2>2. CASE \A g \in made : Bucket[d][g] # Bucket[d][e]
    <3>1. e = now
      BY <1>1, <2>2
    <3>2. OldestInBucket(made', d, now)
      BY <1>1, <1>2, <2>2, <3>1, TimesAssumption DEF OldestInBucket
    <3> QED
      BY <1>1, <3>1, <3>2
  <2> QED
    BY <2>1, <2>2
<1>10. TaggedOldest'
  <2> SUFFICES ASSUME NEW x \in tagged' PROVE OldestInBucket(made', x[1], x[2])
    BY DEF TaggedOldest, OldestInBucket
  <2>1. CASE x \in tagged
    <3>1. x[1] \in Durations /\ x[2] \in made /\ OldestInBucket(made, x[1], x[2])
      BY <2>1 DEF TypeOK, TaggedOldest
    <3> QED
      BY <1>8, <3>1
  <2>2. CASE x \notin tagged
    <3>1. PICK d \in Durations : x = <<d, now>> /\ LongTerm(ltr, backups', d, now)
      BY <1>1, <2>2
    <3>2. OldestInBucket(made \cup {now}, d, now)
      BY <1>1, <3>1, TagsOldest
    <3> QED
      BY <1>1, <3>1, <3>2
  <2> QED
    BY <2>1, <2>2
<1> QED
  BY <1>5, <1>6, <1>7, <1>9, <1>10

LEMMA CleanupInv == IndInv /\ PolicyCleanup => IndInv'
<1> SUFFICES ASSUME IndInv, PolicyCleanup PROVE IndInv'
  OBVIOUS
<1> USE DEF IndInv
<1>1. PICK gone \in SUBSET run.old :
        (settings.deleteFirst => gone = {}) /\ backups' = backups \ gone
  BY DEF PolicyCleanup
<1>2. UNCHANGED <<settings, now, made, tagged>> /\ run.pc = "cleanup" /\ run' = NoRun
  BY DEF PolicyCleanup
<1>3. TypeOK'
  BY <1>1, <1>2 DEF TypeOK, NoRun
<1>4. gone \cap KeptOf(Guaranteed) = {}
  <2>1. run.old \cap KeptOf(settings.exportRetention) = {}
    BY <1>2 DEF OldExpired
  <2> QED
    BY <1>1, <2>1, SettingsTypes DEF Guaranteed
<1>5. NothingPromisedLost'
  BY <1>1, <1>2, <1>4 DEF NothingPromisedLost, KeptOf, Guaranteed
<1>6. OldExpired' /\ Represented' /\ TaggedOldest'
  BY <1>2 DEF OldExpired, Represented, TaggedOldest, OldestInBucket, NoRun
<1> QED
  BY <1>3, <1>5, <1>6

LEMMA FailInv == IndInv /\ PolicyFail => IndInv'
<1> SUFFICES ASSUME IndInv, PolicyFail PROVE IndInv'
  OBVIOUS
<1>1. UNCHANGED <<settings, now, backups, made, tagged>> /\ run' = NoRun
  BY DEF PolicyFail
<1>2. TypeOK' /\ NothingPromisedLost'
  BY <1>1 DEF IndInv, TypeOK, NoRun, NothingPromisedLost, Guaranteed
<1>3. OldExpired' /\ Represented' /\ TaggedOldest'
  BY <1>1 DEF IndInv, OldExpired, Represented, TaggedOldest, OldestInBucket, NoRun
<1> QED
  BY <1>2, <1>3 DEF IndInv

LEMMA StutterInv == IndInv /\ UNCHANGED policyVars => IndInv'
BY DEF IndInv, policyVars, TypeOK, NothingPromisedLost, OldExpired, Represented, TaggedOldest,
       KeptOf, Guaranteed, OldestInBucket

(* The invariant holds in every state of every policy. *)
THEOREM Invariant == PolicySpec => []IndInv
<1>1. IndInv /\ [PolicyNext]_policyVars => IndInv'
  BY PrepareInv, TransferInv, CleanupInv, FailInv, StutterInv DEF PolicyNext
<1> QED
  BY InitInv, <1>1, PTL DEF PolicySpec

(* No sequence of runs of the writers' policy (retention before the transfer,
   deletions before or after it, interrupted or failing) loses a promised
   backup, for all settings and all buckets.                               *)
THEOREM PromiseKept == PolicySpec => []NothingPromisedLost
BY Invariant, PTL DEF IndInv

(* getLongTermRetentionTags() never tags two backups for one bucket. *)
THEOREM TagsUnique == PolicySpec => []OneTagPerBucket
<1>1. IndInv => OneTagPerBucket
  <2> SUFFICES ASSUME IndInv, NEW x \in tagged, NEW y \in tagged,
                      x[1] = y[1], Bucket[x[1]][x[2]] = Bucket[y[1]][y[2]]
               PROVE  x = y
    BY DEF OneTagPerBucket
  <2>1. x \in Durations \X made /\ y \in Durations \X made /\ made \subseteq Nat
    BY TimesAssumption DEF IndInv, TypeOK
  <2>2. x[2] <= y[2] /\ y[2] <= x[2]
    BY <2>1 DEF IndInv, TaggedOldest, OldestInBucket
  <2>3. x[2] = y[2]
    <3>1. x[2] \in Nat /\ y[2] \in Nat
      BY <2>1
    <3> QED
      BY <2>2, <3>1
  <2>4. x = <<x[1], x[2]>> /\ y = <<y[1], y[2]>>
    BY <2>1
  <2> QED
    BY <2>3, <2>4
<1> QED
  BY <1>1, Invariant, PTL

=============================================================================
