---------------------- MODULE RemoteDiskLineageProofs ----------------------
(***************************************************************************)
(* Proofs about the disks of one VDI on a backup remote, for any number of *)
(* backups and faults, both formats, and deletions of backups at any time  *)
(* or not, with faults at the points Calm names:                           *)
(*                                                                         *)
(*   - recursive functions along the chain have a value (RecursionDown,    *)
(*     RecursionUp): the maps and walks of the scan, and what a restore    *)
(*     reads;                                                              *)
(*   - what the scan decides on a directory nobody works on (Settled):     *)
(*     nothing is broken, only disks no backup reads through are deleted,  *)
(*     chains to merge end at a disk of a backup and do not overlap;       *)
(*   - every file operation preserves the invariant Inv;                   *)
(*   - Inv implies the properties of RemoteDiskLineage.                    *)
(***************************************************************************)
EXTENDS RemoteDiskLineage, FiniteSetTheorems, WellFoundedInduction, TLAPS

(***************************************************************************)
(* Numbers: a set of numbers has a least element, and a bounded one has a  *)
(* largest.  Every induction below is an argument about the least, or the  *)
(* largest, disk for which a claim fails.                                  *)
(***************************************************************************)

LEMMA Least ==
  ASSUME NEW S \in SUBSET Nat, S # {}
  PROVE  \E m \in S : \A x \in S : m <= x
<1> DEFINE R == OpToRel(<, Nat)
<1>1. IsWellFoundedOn(R, Nat)
  BY NatLessThanWellFounded, Zenon
<1>2. PICK m \in S : \A x \in S : ~ (<<x, m>> \in R)
  <2> HIDE DEF R
  <2> QED BY <1>1, WFMin
<1>3. \A x, y \in Nat : x < y => <<x, y>> \in R
  BY DEF OpToRel
<1> HIDE DEF R
<1>4. ASSUME NEW x \in S PROVE m <= x
  <2>1. x \in Nat /\ m \in Nat
    OBVIOUS
  <2>2. x < m => <<x, m>> \in R
    BY <1>3, <2>1, Zenon
  <2>3. ~ (<<x, m>> \in R)
    BY <1>2, Zenon
  <2> QED BY <2>1, <2>2, <2>3
<1> QED BY <1>4

LEMMA Greatest ==
  ASSUME NEW n \in Nat, NEW S \in SUBSET (0 .. n), S # {}
  PROVE  \E m \in S : \A x \in S : x <= m
<1> DEFINE T == {n - x : x \in S}
<1>1. T \in SUBSET Nat /\ T # {}
  <2>1. \A x \in S : n - x \in Nat
    OBVIOUS
  <2>2. PICK x \in S : TRUE
    OBVIOUS
  <2>3. n - x \in T
    BY <2>2
  <2> QED BY <2>1, <2>3
<1>2. PICK t \in T : \A y \in T : t <= y
  <2> HIDE DEF T
  <2> QED BY <1>1, Least
<1>3. PICK m \in S : t = n - m
  OBVIOUS
<1>4. ASSUME NEW x \in S PROVE x <= m
  <2>1. t <= n - x
    BY <1>2
  <2> QED BY <2>1, <1>3
<1> QED BY <1>4

LEMMA MinMax ==
  ASSUME NEW S \in SUBSET Disks, S # {}
  PROVE  /\ Min(S) \in S /\ \A x \in S : Min(S) <= x
         /\ Max(S) \in S /\ \A x \in S : x <= Max(S)
<1>1. S \in SUBSET Nat /\ S \in SUBSET (0 .. NDisks) /\ NDisks \in Nat
  BY ConstantsAssumption DEF Disks
<1>2. \E m \in S : \A x \in S : m <= x
  BY <1>1, Least
<1>3. \E m \in S : \A x \in S : x <= m
  BY <1>1, Greatest
<1>4. \E m \in S : \A x \in S : m >= x
  BY <1>1, <1>3
<1>5. Min(S) \in S /\ \A x \in S : Min(S) <= x
  BY <1>2 DEF Min
<1>6. Max(S) \in S /\ \A x \in S : Max(S) >= x
  BY <1>4 DEF Max
<1> QED BY <1>1, <1>5, <1>6

LEMMA SetMin ==
  ASSUME NEW S \in SUBSET Disks, NEW m \in S, \A x \in S : m <= x
  PROVE  Min(S) = m
<1> DEFINE a == Min(S)
<1>1. a \in S /\ a <= m /\ m <= a
  BY MinMax
<1>2. S \subseteq Int
  BY ConstantsAssumption DEF Disks
<1> HIDE DEF a
<1>3. a = m
  BY <1>1, <1>2
<1> QED BY <1>3 DEF a

LEMMA SetMax ==
  ASSUME NEW S \in SUBSET Disks, NEW m \in S, \A x \in S : x <= m
  PROVE  Max(S) = m
<1> DEFINE a == Max(S)
<1>1. a \in S /\ a <= m /\ m <= a
  BY MinMax
<1>2. S \subseteq Int
  BY ConstantsAssumption DEF Disks
<1> HIDE DEF a
<1>3. a = m
  BY <1>1, <1>2
<1> QED BY <1>3 DEF a

(***************************************************************************)
(* Recursive functions along a link that goes down, or up, have a value.   *)
(***************************************************************************)

Follows(n, V, v0, link, g, f) ==
    /\ f \in [1 .. n -> V]
    /\ \A p \in 1 .. n : f[p] = g[p][IF link[p] = 0 THEN v0 ELSE f[link[p]]]
Descends(n, link) == link \in [1 .. n -> 0 .. n] /\ \A p \in 1 .. n : link[p] < p
Ascends(n, link) == link \in [1 .. n -> 0 .. n] /\ \A p \in 1 .. n : link[p] = 0 \/ link[p] > p

LEMMA RecursionDown ==
  ASSUME NEW n \in Nat, NEW V, NEW v0 \in V, NEW link, Descends(n, link),
         NEW g \in [1 .. n -> [V -> V]]
  PROVE  \E f : Follows(n, V, v0, link, g, f)
<1> USE DEF Descends
<1> DEFINE Good(m) == \E f \in [1 .. m -> V] :
                        \A p \in 1 .. m : f[p] = g[p][IF link[p] = 0 THEN v0 ELSE f[link[p]]]
           Bad == {m \in 0 .. n : ~ Good(m)}
<1>1. SUFFICES ASSUME Bad # {} PROVE FALSE
  <2>1. n \in 0 .. n
    OBVIOUS
  <2>2. Good(n)
    BY <1>1, <2>1
  <2> QED BY <2>2 DEF Follows
<1>2. PICK m \in Bad : \A x \in Bad : m <= x
  <2>1. Bad \in SUBSET Nat
    OBVIOUS
  <2> HIDE DEF Bad
  <2> QED BY <1>1, <2>1, Least
<1>3. m # 0
  <2>1. Good(0)
    <3> DEFINE f == [p \in 1 .. 0 |-> v0]
    <3>1. f \in [1 .. 0 -> V] /\ \A p \in 1 .. 0 : FALSE
      OBVIOUS
    <3> QED BY <3>1
  <2> QED BY <2>1, <1>2
<1>4. m - 1 \in 0 .. n /\ Good(m - 1) /\ m \in 1 .. n
  <2>1. m \in 1 .. n /\ m - 1 \in 0 .. n
    BY <1>2, <1>3
  <2>2. m - 1 \notin Bad
    <3> HIDE DEF Bad
    <3> QED BY <1>2, <2>1
  <2> QED BY <2>1, <2>2
<1>5. PICK f \in [1 .. (m - 1) -> V] :
         \A p \in 1 .. (m - 1) : f[p] = g[p][IF link[p] = 0 THEN v0 ELSE f[link[p]]]
  BY <1>4
<1> DEFINE last == g[m][IF link[m] = 0 THEN v0 ELSE f[link[m]]]
           f2 == [p \in 1 .. m |-> IF p = m THEN last ELSE f[p]]
<1>6. \A p \in 1 .. m : link[p] # 0 => link[p] \in 1 .. (m - 1) /\ link[p] \in 1 .. m
  BY <1>4
<1>7. last \in V
  BY <1>4, <1>5, <1>6
<1>8. f2 \in [1 .. m -> V]
  BY <1>4, <1>5, <1>7
<1>9. ASSUME NEW p \in 1 .. m
      PROVE  f2[p] = g[p][IF link[p] = 0 THEN v0 ELSE f2[link[p]]]
  <2>1. link[p] # 0 => f2[link[p]] = f[link[p]]
    BY <1>4, <1>6
  <2>2. CASE p = m
    BY <2>1, <2>2
  <2>3. CASE p # m
    <3>1. p \in 1 .. (m - 1) /\ f2[p] = f[p]
      BY <2>3, <1>4
    <3> QED BY <1>5, <2>1, <3>1
  <2> QED BY <2>2, <2>3
<1>10. Good(m)
  <2> HIDE DEF f2, last
  <2> QED BY <1>8, <1>9
<1> QED BY <1>2, <1>10

LEMMA RecursionUp ==
  ASSUME NEW n \in Nat, NEW V, NEW v0 \in V, NEW link, Ascends(n, link),
         NEW g \in [1 .. n -> [V -> V]]
  PROVE  \E f : Follows(n, V, v0, link, g, f)
<1> USE DEF Ascends
<1> DEFINE Good(m) == \E f \in [(n - m + 1) .. n -> V] :
                        \A p \in (n - m + 1) .. n : f[p] = g[p][IF link[p] = 0 THEN v0 ELSE f[link[p]]]
           Bad == {m \in 0 .. n : ~ Good(m)}
<1>1. SUFFICES ASSUME Bad # {} PROVE FALSE
  <2>1. n \in 0 .. n /\ n - n + 1 = 1
    OBVIOUS
  <2>2. Good(n)
    BY <1>1, <2>1
  <2> QED BY <2>1, <2>2 DEF Follows
<1>2. PICK m \in Bad : \A x \in Bad : m <= x
  <2>1. Bad \in SUBSET Nat
    OBVIOUS
  <2> HIDE DEF Bad
  <2> QED BY <1>1, <2>1, Least
<1>3. m # 0
  <2>1. Good(0)
    <3> DEFINE f == [p \in (n - 0 + 1) .. n |-> v0]
    <3>1. f \in [(n - 0 + 1) .. n -> V] /\ \A p \in (n - 0 + 1) .. n : FALSE
      OBVIOUS
    <3> QED BY <3>1
  <2> QED BY <2>1, <1>2
<1>4. m - 1 \in 0 .. n /\ Good(m - 1) /\ m \in 1 .. n
  <2>1. m \in 1 .. n /\ m - 1 \in 0 .. n
    BY <1>2, <1>3
  <2>2. m - 1 \notin Bad
    <3> HIDE DEF Bad
    <3> QED BY <1>2, <2>1
  <2> QED BY <2>1, <2>2
<1> DEFINE k == n - m + 1
<1>5. k \in 1 .. n /\ n - (m - 1) + 1 = k + 1
  BY <1>4
<1>6. PICK f \in [(k + 1) .. n -> V] :
         \A p \in (k + 1) .. n : f[p] = g[p][IF link[p] = 0 THEN v0 ELSE f[link[p]]]
  BY <1>4, <1>5
<1> DEFINE first == g[k][IF link[k] = 0 THEN v0 ELSE f[link[k]]]
           f2 == [p \in k .. n |-> IF p = k THEN first ELSE f[p]]
<1> HIDE DEF k
<1>7. \A p \in k .. n : link[p] # 0 => link[p] \in (k + 1) .. n /\ link[p] \in k .. n
  BY <1>5
<1>8. first \in V
  BY <1>5, <1>6, <1>7
<1>9. f2 \in [k .. n -> V]
  BY <1>5, <1>6, <1>8
<1>10. ASSUME NEW p \in k .. n
       PROVE  f2[p] = g[p][IF link[p] = 0 THEN v0 ELSE f2[link[p]]]
  <2>1. link[p] # 0 => f2[link[p]] = f[link[p]]
    BY <1>5, <1>7
  <2>2. CASE p = k
    BY <2>1, <2>2
  <2>3. CASE p # k
    <3>1. p \in (k + 1) .. n /\ f2[p] = f[p]
      BY <2>3, <1>5
    <3> QED BY <1>6, <2>1, <3>1
  <2> QED BY <2>2, <2>3
<1>11. Good(m)
  <2> HIDE DEF f2, first
  <2> QED BY <1>9, <1>10 DEF k
<1> QED BY <1>2, <1>11


(***************************************************************************)
(* The invariant.  It holds when the process dies, and operations fail, at *)
(* the points the run lineage_history explores: not within a deletion, nor *)
(* within the last steps of a merge, nor while a metadata file is written. *)
(***************************************************************************)

Calm == FaultPoints \subseteq {"scan", "merge", "blocks", "uuid", "drop", "collect",
                               "archives", "transfer", "alias"}

(* The steps of a merge, and those during which no cleanup has a plan.     *)
Working == {"blocks", "uuid", "state", "unlink", "link", "drop"}
Backing == {"idle", "scan", "transfer", "alias", "record", "torn", "mark"}
Writing == {"record", "torn", "mark"}

(* The disks a cleanup deletes, those a merge unlinks, and the others.     *)
Going  == IF pc = "delete" THEN todo ELSE {}
Fading == IF pc = "unlink" THEN chain \ {Parent} ELSE {}
Alive  == Present \ (Going \cup Fading)

(* The parents of merges under way or interrupted; the disks that such a   *)
(* merge removes; the changes the disks below p bring.                     *)
Half == Interrupted \cap Present
Inner(c) == c \ {Max(c)}
Needed(p) == IF p = None THEN {} ELSE need[p]

(* The disks of c follow one another.                                      *)
Linked(c) ==
    /\ c \subseteq Present
    /\ \A q \in c \ {Min(c)} : disk(q).parent \in c
    /\ \A q \in c \ {Max(c)} : \E r \in c : disk(r).parent = q

IsChain(c) == c \subseteq 1 .. written /\ \E q, r \in c : q # r

(* The backups a metadata file or the memory of the cleanup names.         *)
Listed == {i \in Disks : metadata[i] # "absent"} \cup archives

Typed ==
    /\ entry \in [Disks -> Disks \cup {None}]
    /\ data \in [Disks -> [exists : BOOLEAN, uuid : Disks \cup {None},
                           parent : Disks \cup {None}, bat : SUBSET Disks,
                           holds : SUBSET Disks]]
    /\ mergeState \in [Disks -> [step : {"absent", "mergeBlocks", "cleanup"},
                                 chain : SUBSET Disks]]
    /\ metadata \in [Disks -> {"absent", "torn", "ok"}]
    /\ need \in [Disks -> SUBSET Disks]
    /\ format \in Formats
    /\ faults \in 0 .. MaxFaults
    /\ \A d \in Disks : data[d].parent < d

(* What the process keeps in memory, by step.                              *)
Memory ==
    /\ pc \in Steps \ {"update"}
    /\ next \in {"transfer", "idle"}
    /\ pc = "transfer" => next = "transfer"
    /\ next = "transfer" /\ pc \notin {"alias"} \cup Writing => written < NDisks
    /\ archives \subseteq Disks /\ complete = archives /\ junk = {}
    /\ registered \subseteq Disks /\ todo \subseteq Disks
    /\ chain \subseteq Disks /\ merged \subseteq Disks
    /\ resumes \subseteq SUBSET Disks /\ merges \subseteq SUBSET Disks
    /\ pc \in Backing => archives = {} /\ todo = {} /\ chain = {}
    /\ pc \in {"delete", "merge", "collect"} => chain = {}
    /\ pc \in Backing \cup {"collect", "archives"} => resumes = {} /\ merges = {}
    /\ pc = "archives" => todo \subseteq archives /\ chain \subseteq todo \cap merged

History ==
    /\ written \in 0 .. NDisks
    /\ base \in 0 .. written
    /\ pc \in {"alias"} \cup Writing => base < written
    /\ recorded \subseteq 1 .. written /\ expired \subseteq recorded
    /\ lost = {}
    /\ \A p \in Present : p <= base \/ (p = written /\ pc \in Writing)
    /\ pc \in Writing => written \in Present

(* No two paths lead to the same data, but those of a merge that ends.     *)
Claims ==
    /\ \A p \in Present : entry[p] <= p
    /\ \A p, q \in Present : entry[p] = entry[q] => p = q \/ (pc = "link" /\ p \in {Parent, Target} /\ q \in {Parent, Target})
    /\ pc \in {"delete", "merge", "collect"} \cup Working => Present \subseteq registered
    /\ Going \subseteq Present

Readable ==
    \A p \in Present :
        /\ p \in Alive => disk(p).exists
        /\ disk(p).exists =>
              disk(p).uuid = IF pc \in {"state", "unlink", "link"} /\ p = Parent THEN Target ELSE p

Ancestry ==
    \A p \in Alive :
        \/ disk(p).parent = None
        \/ disk(p).parent \in Alive
        \/ pc = "unlink" /\ disk(p).parent = Target

(* The disk that is written, before its path exists.                       *)
Draft ==
    pc = "alias" =>
        /\ data[written].exists /\ data[written].uuid = written
        /\ data[written].parent = None \/ (data[written].parent = base /\ base \in Present)
        /\ need[written] = data[written].holds \cup Needed(data[written].parent)

(* A disk holds what its backup adds to the disk below, unless its blocks  *)
(* are moved by a merge.                                                   *)
Sound ==
    \A p \in Alive :
        \/ need[p] = disk(p).holds \cup Needed(disk(p).parent)
        \/ \E h \in Half : p \in mergeState[h].chain

(* A merge under way, or interrupted: the disks it removes belong to no    *)
(* backup, nothing else is chained onto them, and the disks of the chain   *)
(* together hold what the target needs.                                    *)
MergeSound(h) ==
    LET c == mergeState[h].chain
    IN  /\ IsChain(c) /\ Min(c) = h
        /\ Inner(c) \cap Listed = {}
        /\ pc \notin {"unlink", "link"} => /\ mergeState[h].step = "mergeBlocks"
                                           /\ Linked(c) /\ c \cap Going = {}
        /\ \A q \in Present \ c : disk(q).parent \notin Inner(c)
        /\ \A x \in Disks : x \in need[Max(c)] <=>
              \/ \E q \in c \cap Present : x \in disk(q).holds
              \/ x \in Needed(disk(h).parent)

Merging ==
    /\ \A h \in Half : MergeSound(h)
    /\ \A h, k \in Half : h = k
    /\ Interrupted \subseteq 1 .. written
    /\ pc = "alias" => written \notin Interrupted

(* The merge under way.                                                    *)
AtWork ==
    /\ pc \in Working => IsChain(chain) /\ chain \subseteq registered /\ chain \subseteq 1 .. base
    /\ pc \in Working \ {"drop"} => Parent \in Half /\ mergeState[Parent].chain = chain
    /\ pc \in {"uuid", "state", "unlink", "link"} =>
          \A h, q \in chain \cap Present : h = Parent => disk(q).holds \subseteq disk(h).holds
    /\ pc = "unlink" => mergeState[Target].step = "absent"
    /\ pc = "link" => chain \cap Present = {Parent, Target} /\ entry[Target] = entry[Parent]
    /\ pc = "drop" => Half = {} /\ chain \cap Present = {Target}

(* The merges still to come.                                               *)
Planned == (resumes \cup merges) \ (IF pc \in Working THEN {chain} ELSE {})
Plan ==
    /\ \A c \in Planned : IsChain(c) /\ Linked(c) /\ c \cap Going = {} /\ Inner(c) \cap Listed = {}
    /\ \A c, d \in resumes \cup merges : c # d => c \cap d = {}
    /\ resumes \cap merges = {}
    /\ pc \in {"delete", "merge"} =>
          /\ \A c \in resumes : \E h \in Half : c = mergeState[h].chain
          /\ \A c \in merges, h \in Half : c \cap mergeState[h].chain = {}
          /\ Half # {} /\ resumes = {} => merges = {}
    /\ pc \in Working => resumes \subseteq {chain} /\ (resumes = {} => chain \in merges)

(* The metadata files.                                                     *)
Books ==
    /\ \A i \in Listed : i \in Present \/ (pc = "unlink" /\ i = Target)
    /\ Listed \cap Going = {}
    /\ \A i \in Disks : metadata[i] = "torn" =>
          (pc = "torn" /\ i = written) \/ (pc = "archives" /\ i \in chain)
    /\ \A i \in recorded \ expired : metadata[i] # "absent"
    /\ pc = "mark" => written \in recorded

Inv == /\ Typed /\ Memory /\ History /\ Claims /\ Readable /\ Ancestry /\ Draft /\ Sound
       /\ Merging /\ AtWork /\ Plan /\ Books /\ LinearChain

(***************************************************************************)
(* The scan of a directory at rest: every disk can be opened, has its own  *)
(* uuid, and its parent is there; no two disks have the same parent.       *)
(***************************************************************************)

par(p) == IF p \in Present THEN disk(p).parent ELSE None

Settled ==
    /\ \A p \in Present :
          /\ disk(p).exists
          /\ disk(p).uuid = p
          /\ disk(p).parent \in 0 .. (p - 1)
          /\ disk(p).parent = None \/ disk(p).parent \in Present
    /\ \A p, q \in Present : disk(p).parent # None /\ disk(p).parent = disk(q).parent => p = q

LEMMA PresentDisks == Present \subseteq Disks /\ Disks \subseteq Nat /\ None \notin Disks /\ \A p \in Disks : p \in 1 .. NDisks
BY ConstantsAssumption DEF Present, Disks, None

LEMMA ParFacts ==
  ASSUME Settled
  PROVE  /\ \A p \in Disks : par(p) \in 0 .. NDisks /\ par(p) < p /\ par(p) \in Present \cup {None}
         /\ \A p \in Disks : par(p) # None => p \in Present
         /\ \A p, q \in Disks : par(p) # None /\ par(p) = par(q) => p = q
<1>1. ASSUME NEW p \in Disks
      PROVE  par(p) \in 0 .. NDisks /\ par(p) < p /\ par(p) \in Present \cup {None} /\ (par(p) # None => p \in Present)
  <2>1. p \in 1 .. NDisks /\ NDisks \in Nat
    BY ConstantsAssumption DEF Disks
  <2>2. CASE p \in Present
    <3>1. par(p) = disk(p).parent /\ disk(p).parent \in 0 .. (p - 1)
      BY <2>2 DEF par, Settled
    <3>2. disk(p).parent \in Present \cup {None}
      BY <2>2 DEF Settled
    <3> HIDE DEF par
    <3> QED BY <2>1, <2>2, <3>1, <3>2
  <2>3. CASE p \notin Present
    BY <2>1, <2>3 DEF par, None
  <2> QED BY <2>2, <2>3
<1>2. ASSUME NEW p \in Disks, NEW q \in Disks, par(p) # None, par(p) = par(q)
      PROVE  p = q
  <2>1. p \in Present /\ q \in Present
    BY <1>1, <1>2
  <2> QED BY <1>2, <2>1 DEF par, Settled
<1> QED BY <1>1, <1>2

LEMMA ScanParents ==
  ASSUME Settled, NEW byName
  PROVE  \A p \in Disks : parentOf(byName, p) = par(p)
<1> SUFFICES ASSUME NEW p \in Disks PROVE parentOf(byName, p) = par(p)
  OBVIOUS
<1>1. CASE p \in Present
  <2>1. Openable(p)
    BY <1>1 DEF Settled, Openable
  <2>2. ASSUME Duplicate(byName, p) PROVE FALSE
    <3>1. PICK q \in Present \ {p} : Openable(q) /\ disk(q).uuid = disk(p).uuid
      BY <2>2 DEF Duplicate
    <3>2. disk(q).uuid = q /\ disk(p).uuid = p
      BY <1>1, <3>1 DEF Settled
    <3> QED BY <3>1, <3>2
  <2> QED BY <1>1, <2>1, <2>2 DEF parentOf, par
<1>2. CASE p \notin Present
  BY <1>2 DEF parentOf, par, Openable
<1> QED BY <1>1, <1>2

LEMMA ScanChildren ==
  ASSUME Settled, NEW byName
  PROVE  /\ \A p \in Disks : childOf(byName, p) = None \/ (childOf(byName, p) \in Present /\ childOf(byName, p) > p)
         /\ \A p, c \in Disks : par(c) = p <=> childOf(byName, p) = c
<1> SUFFICES ASSUME NEW p \in Disks
             PROVE  /\ childOf(byName, p) = None \/ (childOf(byName, p) \in Present /\ childOf(byName, p) > p)
                    /\ \A c \in Disks : par(c) = p <=> childOf(byName, p) = c
  OBVIOUS
<1> DEFINE children == {c \in Disks : parentOf(byName, c) = p}
<1>1. children = {c \in Disks : par(c) = p}
  BY ScanParents
<1>2. p # None /\ p \in Nat /\ None \notin Disks
  BY PresentDisks
<1>3. CASE children = {}
  <2>1. childOf(byName, p) = None
    BY <1>3 DEF childOf
  <2> QED BY <1>1, <1>2, <1>3, <2>1
<1>4. CASE children # {}
  <2>1. PICK c \in Disks : par(c) = p
    BY <1>1, <1>4
  <2>2. \A d \in Disks : par(d) = p <=> d = c
    BY <1>2, <2>1, ParFacts
  <2>3. c \in Present /\ c > p /\ c \in Nat
    BY <1>2, <2>1, ParFacts, PresentDisks
  <2>4. children = {c}
    BY <1>1, <2>1, <2>2
  <2>5. {c} \in SUBSET Disks /\ {c} # {}
    OBVIOUS
  <2>6. Min({c}) = c /\ Max({c}) = c
    BY <2>5, MinMax
  <2>7. childOf(byName, p) = c
    BY <1>4, <2>4, <2>6 DEF childOf
  <2> QED BY <2>2, <2>3, <2>7
<1> QED BY <1>3, <1>4

LEMMA NothingBroken ==
  ASSUME Settled, NEW byName
  PROVE  BrokenDisks(byName) = {}
<1> DEFINE Body(f, p) ==
            \/ ~ Openable(p)
            \/ LET parent == parentOf(byName, p)
               IN  /\ parent # None
                   /\ \/ ~ Openable(parent)
                      \/ f[parent] /\ (byName \/ childOf(byName, parent) = p)
           f0 == [p \in Disks |-> ~ Openable(p)]
           broken == CHOOSE f : f = [p \in Disks |-> Body(f, p)]
<1>1. \A p \in Present : Openable(p)
  BY DEF Settled, Openable
<1>2. f0 = [p \in Disks |-> Body(f0, p)]
  <2>1. ASSUME NEW p \in Disks PROVE f0[p] = Body(f0, p)
    <3>1. parentOf(byName, p) = None \/ parentOf(byName, p) \in Present
      BY ScanParents, ParFacts
    <3>2. parentOf(byName, p) # None => Openable(parentOf(byName, p)) /\ f0[parentOf(byName, p)] = FALSE
      BY <1>1, <3>1, PresentDisks
    <3> QED BY <3>2
  <2> QED BY <2>1
<1>3. broken = [p \in Disks |-> Body(broken, p)]
  BY <1>2
<1>4. BrokenDisks(byName) = {p \in Present : broken[p]}
  BY DEF BrokenDisks
<1>5. ASSUME NEW p \in Present, broken[p] PROVE FALSE
  <2> DEFINE Bad == {q \in Present : broken[q]}
  <2>1. Bad \in SUBSET Nat /\ Bad # {}
    BY <1>5, PresentDisks
  <2>2. PICK m \in Bad : \A x \in Bad : m <= x
    <3> HIDE DEF Bad
    <3> QED BY <2>1, Least
  <2>3. m \in Present /\ broken[m] /\ m \in Disks /\ m \in Nat
    BY <2>2, PresentDisks
  <2>4. Body(broken, m)
    BY <1>3, <2>3
  <2>5. parentOf(byName, m) = par(m) /\ par(m) < m /\ (par(m) # None => par(m) \in Present)
    BY <2>3, ScanParents, ParFacts
  <2>6. par(m) # None /\ par(m) \in Present /\ broken[par(m)]
    BY <1>1, <2>3, <2>4, <2>5
  <2>7. par(m) \in Bad /\ par(m) \in Nat
    BY <2>6, PresentDisks
  <2>8. m <= par(m)
    <3> HIDE DEF Bad
    <3> QED BY <2>2, <2>7
  <2> QED BY <2>3, <2>5, <2>7, <2>8
<1> QED BY <1>4, <1>5

LEMMA ScanComplete ==
  ASSUME Settled, NEW byName
  PROVE  isComplete(byName) = Archives \cap Present
BY NothingBroken DEF isComplete

(***************************************************************************)
(* getUsedChildChainOrDelete.                                              *)
(***************************************************************************)

Orphans == Present \ Archives
Walks == [orphans : SUBSET Disks, anchor : Disks \cup {None}]
NoWalk == [orphans |-> {}, anchor |-> None]

LEMMA WalkEquation ==
  ASSUME Settled, NEW byName, NEW visited
  PROVE  \A q \in Disks :
            /\ Walk(byName, visited, q) \in Walks
            /\ Walk(byName, visited, q) =
                 IF q \in visited THEN NoWalk
                 ELSE IF q \notin Orphans THEN [orphans |-> {}, anchor |-> q]
                 ELSE LET child == childOf(byName, q)
                          rest == IF child = None THEN NoWalk ELSE Walk(byName, visited, child)
                      IN  [rest EXCEPT !.orphans = @ \cup {q}]
<1> DEFINE Body(w, q) ==
              IF q \in visited THEN [orphans |-> {}, anchor |-> None]
              ELSE IF q \notin Present \ isComplete(byName) THEN [orphans |-> {}, anchor |-> q]
              ELSE LET child == childOf(byName, q)
                       rest == IF child = None THEN [orphans |-> {}, anchor |-> None] ELSE w[child]
                   IN  [rest EXCEPT !.orphans = @ \cup {q}]
           walk == CHOOSE w : w = [q \in Disks |-> Body(w, q)]
           up == [q \in 1 .. NDisks |-> childOf(byName, q)]
           Add(q, v) == IF q \in visited THEN NoWalk
                        ELSE IF q \notin Present \ isComplete(byName) THEN [orphans |-> {}, anchor |-> q]
                        ELSE [v EXCEPT !.orphans = @ \cup {q}]
           g == [q \in 1 .. NDisks |-> [v \in Walks |-> Add(q, v)]]
<1>0. NDisks \in Nat /\ Disks = 1 .. NDisks
  BY ConstantsAssumption DEF Disks
<1>1. \A q \in Disks : childOf(byName, q) \in 0 .. NDisks /\ (childOf(byName, q) = 0 \/ childOf(byName, q) > q)
                       /\ (childOf(byName, q) # 0 => childOf(byName, q) \in Disks)
  <2> SUFFICES ASSUME NEW q \in Disks
               PROVE  LET c == childOf(byName, q)
                      IN  c \in 0 .. NDisks /\ (c = 0 \/ c > q) /\ (c # 0 => c \in Disks)
    OBVIOUS
  <2> DEFINE c == childOf(byName, q)
  <2>1. c = None \/ (c \in Present /\ c > q)
    BY ScanChildren
  <2>2. c = 0 \/ (c \in Disks /\ c > q)
    BY <2>1, PresentDisks DEF None
  <2> HIDE DEF c
  <2>3. c \in 0 .. NDisks /\ (c = 0 \/ c > q) /\ (c # 0 => c \in Disks)
    BY <1>0, <2>2
  <2> QED BY <2>3 DEF c
<1>2. NoWalk \in Walks
  BY DEF NoWalk, Walks
<1>3. ASSUME NEW q \in Disks, NEW v \in Walks PROVE Add(q, v) \in Walks
  BY <1>2, <1>3 DEF Walks
<1>4. Ascends(NDisks, up)
  BY <1>0, <1>1 DEF Ascends
<1>5. g \in [1 .. NDisks -> [Walks -> Walks]]
  <2> HIDE DEF Add, Walks
  <2> QED BY <1>0, <1>3
<1>6. PICK f : Follows(NDisks, Walks, NoWalk, up, g, f)
  <2> HIDE DEF g, up
  <2> QED BY <1>0, <1>2, <1>4, <1>5, RecursionUp, Zenon
<1>6a. f \in [Disks -> Walks] /\ \A q \in Disks : f[q] = g[q][IF up[q] = 0 THEN NoWalk ELSE f[up[q]]]
  <2> HIDE DEF g, up
  <2> QED BY <1>0, <1>6 DEF Follows
<1>7. ASSUME NEW w \in [Disks -> Walks], NEW q \in Disks
      PROVE  Body(w, q) = g[q][IF up[q] = 0 THEN NoWalk ELSE w[up[q]]] /\ Body(w, q) \in Walks
  <2> DEFINE rest == IF up[q] = 0 THEN NoWalk ELSE w[up[q]]
  <2>1. up[q] = childOf(byName, q)
    BY <1>0
  <2>2. rest \in Walks
    BY <1>0, <1>1, <1>2, <2>1
  <2>3. g[q][rest] = Add(q, rest)
    <3> HIDE DEF Add, rest, Walks
    <3> QED BY <1>0, <2>2
  <2>4. Add(q, rest) \in Walks
    BY <1>3, <2>2
  <2>5. Body(w, q) = Add(q, rest)
    BY <2>1 DEF NoWalk, None
  <2> QED BY <2>3, <2>4, <2>5
<1>8. f = [q \in Disks |-> Body(f, q)]
  <2> HIDE DEF Body, g, up, Walks
  <2> QED BY <1>6a, <1>7
<1>9. walk = [q \in Disks |-> Body(walk, q)]
  <2> HIDE DEF Body
  <2> QED BY <1>8
<1>10. \A q \in Disks : Walk(byName, visited, q) = walk[q]
  BY DEF Walk
<1>11. \A q \in Disks : walk[q] = f[q]
  <2> DEFINE Bad == {q \in Disks : walk[q] # f[q]}
  <2> SUFFICES ASSUME Bad # {} PROVE FALSE
    OBVIOUS
  <2>1. Bad \in SUBSET (0 .. NDisks)
    BY <1>0
  <2>2. PICK m \in Bad : \A x \in Bad : x <= m
    <3> HIDE DEF Bad
    <3> QED BY <1>0, <2>1, Greatest
  <2>3. m \in Disks /\ walk[m] # f[m] /\ m \in Nat
    BY <2>2, PresentDisks
  <2>4. childOf(byName, m) # 0 => walk[childOf(byName, m)] = f[childOf(byName, m)]
    <3> SUFFICES ASSUME childOf(byName, m) # 0, childOf(byName, m) \in Bad PROVE FALSE
      BY <1>1, <2>3
    <3>1. childOf(byName, m) <= m /\ childOf(byName, m) > m /\ childOf(byName, m) \in Nat
      BY <1>1, <2>2, <2>3, PresentDisks
    <3> QED BY <2>3, <3>1
  <2>5. Body(walk, m) = Body(f, m)
    <3> HIDE DEF walk
    <3> QED BY <2>4 DEF None
  <2> HIDE DEF Body, walk
  <2> QED BY <1>8, <1>9, <2>3, <2>5
<1>12. ASSUME NEW q \in Disks
       PROVE  /\ Walk(byName, visited, q) \in Walks
              /\ Walk(byName, visited, q) =
                   IF q \in visited THEN NoWalk
                   ELSE IF q \notin Orphans THEN [orphans |-> {}, anchor |-> q]
                   ELSE LET child == childOf(byName, q)
                            rest == IF child = None THEN NoWalk ELSE Walk(byName, visited, child)
                        IN  [rest EXCEPT !.orphans = @ \cup {q}]
  <2>1. Walk(byName, visited, q) = f[q] /\ f[q] \in Walks
    <3> HIDE DEF walk, Walks
    <3> QED BY <1>6a, <1>10, <1>11
  <2>2. f[q] = Body(f, q)
    <3> HIDE DEF Body
    <3> QED BY <1>8
  <2>3. childOf(byName, q) # 0 => Walk(byName, visited, childOf(byName, q)) = f[childOf(byName, q)]
    <3> HIDE DEF walk, Walks
    <3> QED BY <1>1, <1>10, <1>11
  <2>4. Present \ isComplete(byName) = Orphans
    BY ScanComplete DEF Orphans
  <2> QED BY <2>1, <2>2, <2>3, <2>4 DEF NoWalk, None
<1> QED BY <1>12

(* The five cases of a walk. *)
LEMMA WalkCases ==
  ASSUME Settled, NEW byName, NEW visited, NEW q \in Disks
  PROVE  LET w == Walk(byName, visited, q)
             child == childOf(byName, q)
         IN  /\ w.orphans \subseteq Disks /\ w.anchor \in Disks \cup {None}
             /\ q \in visited => w.orphans = {} /\ w.anchor = None
             /\ q \notin visited /\ q \notin Orphans => w.orphans = {} /\ w.anchor = q
             /\ q \notin visited /\ q \in Orphans /\ child = None => w.orphans = {q} /\ w.anchor = None
             /\ q \notin visited /\ q \in Orphans /\ child # None =>
                   /\ child \in Present /\ child > q
                   /\ w.orphans = Walk(byName, visited, child).orphans \cup {q}
                   /\ w.anchor = Walk(byName, visited, child).anchor
<1> DEFINE child == childOf(byName, q)
           rest == IF child = None THEN NoWalk ELSE Walk(byName, visited, child)
           w == Walk(byName, visited, q)
<1>1. child = None \/ (child \in Present /\ child > q /\ child \in Disks)
  BY ScanChildren, PresentDisks
<1>2. rest \in Walks
  BY <1>1, WalkEquation DEF NoWalk, Walks
<1>3. w \in Walks /\ w = IF q \in visited THEN NoWalk
                         ELSE IF q \notin Orphans THEN [orphans |-> {}, anchor |-> q]
                         ELSE [rest EXCEPT !.orphans = @ \cup {q}]
  BY WalkEquation
<1>4. w.orphans \subseteq Disks /\ w.anchor \in Disks \cup {None}
  BY <1>3 DEF Walks
<1>5. q \in visited => w.orphans = {} /\ w.anchor = None
  BY <1>3 DEF NoWalk
<1>6. q \notin visited /\ q \notin Orphans => w.orphans = {} /\ w.anchor = q
  BY <1>3
<1>7. q \notin visited /\ q \in Orphans => w.orphans = rest.orphans \cup {q} /\ w.anchor = rest.anchor
  <2> HIDE DEF rest, w
  <2> QED BY <1>2, <1>3 DEF Walks
<1>8. child = None => rest.orphans = {} /\ rest.anchor = None
  BY DEF NoWalk
<1>9. child # None => rest = Walk(byName, visited, child)
  OBVIOUS
<1> HIDE DEF rest, w, child
<1>10. /\ q \notin visited /\ q \in Orphans /\ child = None => w.orphans = {q} /\ w.anchor = None
       /\ q \notin visited /\ q \in Orphans /\ child # None =>
                   /\ child \in Present /\ child > q
                   /\ w.orphans = Walk(byName, visited, child).orphans \cup {q}
                   /\ w.anchor = Walk(byName, visited, child).anchor
  BY <1>1, <1>7, <1>8, <1>9
<1> QED BY <1>4, <1>5, <1>6, <1>10 DEF w, child

(* What a walk from a disk returns: orphans linked upwards from that disk, *)
(* and the used disk above them; without one, everything above it.         *)
WalkSound(byName, visited, q) ==
    LET w == Walk(byName, visited, q)
    IN  /\ w.orphans \subseteq Orphans \ visited
        /\ w.anchor = None \/ w.anchor \in (Present \ Orphans) \ visited
        /\ q \in visited => w.anchor = None
        /\ q \in visited \/ q \in w.orphans \/ w.anchor = q
        /\ \A r \in w.orphans : /\ r >= q
                                /\ r # q => par(r) \in w.orphans
                                /\ Walk(byName, visited, r).anchor = w.anchor
                                /\ \A c \in Disks : par(c) = r => c \in visited \/ c \in w.orphans \/ c = w.anchor
                                /\ w.anchor # None => r < w.anchor /\ \E c \in w.orphans \cup {w.anchor} : par(c) = r
        /\ w.anchor # None => w.anchor >= q /\ (w.anchor # q => par(w.anchor) \in w.orphans)

LEMMA WalkIsSound ==
  ASSUME Settled, NEW byName, NEW visited
  PROVE  \A q \in Present : WalkSound(byName, visited, q)
<1> DEFINE Bad == {q \in Present : ~ WalkSound(byName, visited, q)}
<1> SUFFICES ASSUME Bad # {} PROVE FALSE
  OBVIOUS
<1>1. Bad \in SUBSET (0 .. NDisks) /\ NDisks \in Nat
  <2>1. NDisks \in Nat /\ Disks \subseteq 0 .. NDisks
    BY ConstantsAssumption DEF Disks
  <2>2. Bad \subseteq Disks
    BY PresentDisks
  <2> HIDE DEF Bad
  <2> QED BY <2>1, <2>2
<1>2. PICK q \in Bad : \A x \in Bad : x <= q
  <2> HIDE DEF Bad
  <2> QED BY <1>1, Greatest
<1>3. q \in Present /\ ~ WalkSound(byName, visited, q) /\ q \in Disks /\ q \in Nat /\ q # None
  BY <1>2, PresentDisks
<1> DEFINE w == Walk(byName, visited, q)
           child == childOf(byName, q)
<1>4. /\ w.orphans \subseteq Disks /\ w.anchor \in Disks \cup {None}
      /\ q \in visited => w.orphans = {} /\ w.anchor = None
      /\ q \notin visited /\ q \notin Orphans => w.orphans = {} /\ w.anchor = q
      /\ q \notin visited /\ q \in Orphans /\ child = None => w.orphans = {q} /\ w.anchor = None
      /\ q \notin visited /\ q \in Orphans /\ child # None =>
            /\ child \in Present /\ child > q
            /\ w.orphans = Walk(byName, visited, child).orphans \cup {q}
            /\ w.anchor = Walk(byName, visited, child).anchor
  BY <1>3, WalkCases
<1>5. \A c \in Disks : par(c) = q <=> child = c
  BY <1>3, ScanChildren
<1> HIDE DEF child
<1>6. CASE q \in visited
  <2> HIDE DEF w
  <2>1. w.orphans = {} /\ w.anchor = None
    BY <1>4, <1>6
  <2> QED BY <1>3, <1>6, <2>1 DEF WalkSound, w
<1>7. CASE q \notin visited /\ q \notin Orphans
  <2> HIDE DEF w
  <2>1. w.orphans = {} /\ w.anchor = q
    BY <1>4, <1>7
  <2>2. q >= q
    BY <1>3
  <2> QED BY <1>3, <1>7, <2>1, <2>2 DEF WalkSound, w
<1>8. CASE q \notin visited /\ q \in Orphans /\ child = None
  <2> HIDE DEF w
  <2>1. w.orphans = {q} /\ w.anchor = None
    BY <1>4, <1>8
  <2>2. q >= q /\ \A c \in Disks : par(c) # q
    BY <1>3, <1>5, <1>8, PresentDisks
  <2> QED BY <1>3, <1>8, <2>1, <2>2 DEF WalkSound, w
<1>9. CASE q \notin visited /\ q \in Orphans /\ child # None
  <2> DEFINE v == Walk(byName, visited, child)
  <2>1. /\ child \in Present /\ child > q /\ child \in Disks /\ child \in Nat
        /\ w.orphans = v.orphans \cup {q} /\ w.anchor = v.anchor
    BY <1>4, <1>9, PresentDisks
  <2>2. WalkSound(byName, visited, child)
    <3> SUFFICES ASSUME child \in Bad PROVE FALSE
      BY <2>1
    <3>1. child <= q
      <4> HIDE DEF Bad
      <4> QED BY <1>2
    <3> QED BY <1>3, <2>1, <3>1
  <2>3. par(child) = q
    BY <1>5, <2>1
  <2>4. /\ v.orphans \subseteq Orphans \ visited
        /\ v.anchor = None \/ v.anchor \in (Present \ Orphans) \ visited
        /\ child \in visited => v.anchor = None
        /\ child \in visited \/ child \in v.orphans \/ v.anchor = child
        /\ \A r \in v.orphans : /\ r >= child
                                /\ r # child => par(r) \in v.orphans
                                /\ Walk(byName, visited, r).anchor = v.anchor
                                /\ \A c \in Disks : par(c) = r => c \in visited \/ c \in v.orphans \/ c = v.anchor
                                /\ v.anchor # None => r < v.anchor /\ \E c \in v.orphans \cup {v.anchor} : par(c) = r
        /\ v.anchor # None => v.anchor >= child /\ (v.anchor # child => par(v.anchor) \in v.orphans)
    BY <2>2 DEF WalkSound
  <2> HIDE DEF v
  <2>5. v.orphans \subseteq Nat /\ (v.anchor # None => v.anchor \in Nat)
    BY <2>4, PresentDisks DEF Orphans
  <2>6. \A r \in w.orphans : r >= q /\ (r # q => par(r) \in w.orphans)
    BY <1>3, <2>1, <2>3, <2>4, <2>5
  <2>7. \A r \in w.orphans : Walk(byName, visited, r).anchor = w.anchor
    <3>1. Walk(byName, visited, q).anchor = w.anchor
      BY DEF w
    <3> HIDE DEF w
    <3> QED BY <2>1, <2>4, <3>1
  <2> HIDE DEF w
  <2>8. \A r \in w.orphans : \A c \in Disks : par(c) = r => c \in visited \/ c \in w.orphans \/ c = w.anchor
    BY <1>5, <2>1, <2>4
  <2>9. w.anchor # None => \A r \in w.orphans : \E c \in w.orphans \cup {w.anchor} : par(c) = r
    BY <2>1, <2>3, <2>4
  <2>10. w.anchor # None => w.anchor >= q /\ (w.anchor # q => par(w.anchor) \in w.orphans)
    BY <1>3, <2>1, <2>3, <2>4, <2>5
  <2>12. w.anchor # None => \A r \in w.orphans : r < w.anchor
    BY <1>3, <2>1, <2>4, <2>5
  <2>11. w.orphans \subseteq Orphans \ visited /\ q \in w.orphans
    BY <1>9, <2>1, <2>4
  <2> QED BY <1>3, <1>9, <2>1, <2>4, <2>6, <2>7, <2>8, <2>9, <2>10, <2>11, <2>12 DEF WalkSound, w
<1> QED BY <1>6, <1>7, <1>8, <1>9

(***************************************************************************)
(* pin.                                                                    *)
(***************************************************************************)

LEMMA PinSound ==
  ASSUME Settled, NEW byName, NEW S \in SUBSET Disks
  PROVE  /\ S \subseteq pin(byName, S) /\ pin(byName, S) \subseteq Disks
         /\ \A p \in pin(byName, S) : par(p) # None => par(p) \in pin(byName, S)
<1> DEFINE Body(f, p) == {p} \cup (IF parentOf(byName, p) = None THEN {} ELSE f[parentOf(byName, p)])
           up == CHOOSE f : f = [p \in Disks |-> Body(f, p)]
           down == [p \in 1 .. NDisks |-> parentOf(byName, p)]
           V == SUBSET Disks
           g == [p \in 1 .. NDisks |-> [v \in V |-> {p} \cup v]]
<1>0. NDisks \in Nat /\ Disks = 1 .. NDisks /\ {} \in V
  BY ConstantsAssumption DEF Disks
<1>1. \A p \in Disks : /\ parentOf(byName, p) = par(p) /\ par(p) \in 0 .. NDisks /\ par(p) < p
                       /\ par(p) # None => par(p) \in Disks
  BY ScanParents, ParFacts, PresentDisks
<1>2. Descends(NDisks, down)
  BY <1>0, <1>1 DEF Descends
<1>3. g \in [1 .. NDisks -> [V -> V]]
  BY <1>0
<1>4. PICK f : Follows(NDisks, V, {}, down, g, f)
  <2> HIDE DEF g, down, V
  <2> QED BY <1>0, <1>2, <1>3, RecursionDown, Zenon
<1>5. f \in [Disks -> V] /\ \A p \in Disks : f[p] = g[p][IF down[p] = 0 THEN {} ELSE f[down[p]]]
  <2> HIDE DEF g, down, V
  <2> QED BY <1>0, <1>4 DEF Follows
<1>6. ASSUME NEW p \in Disks PROVE f[p] = Body(f, p)
  <2>1. down[p] = par(p) /\ parentOf(byName, p) = par(p)
    BY <1>0, <1>1
  <2> DEFINE v == IF down[p] = 0 THEN {} ELSE f[down[p]]
  <2>2. v \in V
    BY <1>0, <1>1, <1>5, <2>1 DEF None
  <2>3. g[p][v] = {p} \cup v
    <3> HIDE DEF v, V
    <3> QED BY <1>0, <2>2
  <2> QED BY <1>5, <2>1, <2>3 DEF None
<1>7. f = [p \in Disks |-> Body(f, p)]
  <2> HIDE DEF Body
  <2> QED BY <1>5, <1>6
<1>8. up = [p \in Disks |-> Body(up, p)]
  <2> HIDE DEF Body
  <2> QED BY <1>7
<1>9. pin(byName, S) = UNION {up[p] : p \in S}
  BY DEF pin
<1> HIDE DEF up
<1>10. ASSUME NEW p \in Disks
       PROVE  up[p] = {p} \cup (IF par(p) = None THEN {} ELSE up[par(p)])
  BY <1>1, <1>8
<1> DEFINE Fine(p) == up[p] \subseteq Disks /\ \A x \in up[p] : par(x) # None => par(x) \in up[p]
<1>11. \A p \in Disks : Fine(p)
  <2> DEFINE Bad == {p \in Disks : ~ Fine(p)}
  <2> SUFFICES ASSUME Bad # {} PROVE FALSE
    OBVIOUS
  <2>1. Bad \in SUBSET Nat
    BY PresentDisks
  <2>2. PICK m \in Bad : \A x \in Bad : m <= x
    <3> HIDE DEF Bad
    <3> QED BY <2>1, Least
  <2>3. m \in Disks /\ ~ Fine(m) /\ m \in Nat
    BY <2>2, PresentDisks
  <2>4. par(m) # None => par(m) \in Disks /\ Fine(par(m))
    <3> SUFFICES ASSUME par(m) # None, par(m) \in Bad PROVE FALSE
      BY <1>1, <2>3
    <3>1. m <= par(m)
      <4> HIDE DEF Bad
      <4> QED BY <2>2
    <3> QED BY <1>1, <2>3, <3>1
  <2>5. par(m) # None => par(m) \in up[par(m)]
    BY <1>10, <2>4
  <2>6. up[m] = {m} \cup (IF par(m) = None THEN {} ELSE up[par(m)])
    BY <1>10, <2>3
  <2>7. Fine(m)
    BY <2>3, <2>4, <2>5, <2>6
  <2> QED BY <2>3, <2>7
<1>12. \A p \in S : p \in up[p] /\ p \in Disks
  BY <1>10
<1>13. S \subseteq UNION {up[p] : p \in S}
  BY <1>12
<1> QED BY <1>9, <1>11, <1>13

(***************************************************************************)
(* The plan of a cleanup.                                                  *)
(***************************************************************************)

\* an interrupted merge can be resumed, and there is one at most
Resumable ==
    /\ \A h \in Half :
          LET c == mergeState[h].chain
          IN  /\ mergeState[h].step = "mergeBlocks"
              /\ c \subseteq Present /\ h \in c
              /\ \E q \in c : q # h
              /\ \A q \in c \ {h} : par(q) \in c
    /\ \A h, k \in Half : h = k

LEMMA TwoOrMore ==
  ASSUME NEW S \in SUBSET Disks, NEW x \in S, NEW y \in S, x # y
  PROVE  Cardinality(S) >= 2
<1>1. IsFiniteSet(Disks)
  BY FS_Interval, ConstantsAssumption DEF Disks
<1>2. IsFiniteSet(S)
  BY <1>1, FS_Subset
<1>3. IsFiniteSet({x}) /\ Cardinality({x}) = 1
  BY FS_Singleton
<1>4. Cardinality({x} \cup {y}) = 2
  BY <1>3, FS_AddElement
<1>5. Cardinality({x} \cup {y}) <= Cardinality(S) /\ Cardinality(S) \in Nat
  BY <1>2, FS_Subset, FS_CardinalityType
<1> QED BY <1>4, <1>5

LEMMA ScanMerges ==
  ASSUME Settled, Resumable, NEW byName
  PROVE  /\ Refused(byName) = {}
         /\ Resumed(byName) = {h \in Half : hasUsedDescendant(byName, h)}
         /\ Dropped(byName) = Interrupted \ Resumed(byName)
         /\ \A h \in Half : Survivors(h) = mergeState[h].chain /\ ~ LostDisks(h) /\ Cardinality(Survivors(h)) >= 2
<1>1. ASSUME NEW h \in Half
      PROVE  Survivors(h) = mergeState[h].chain /\ ~ LostDisks(h) /\ Cardinality(Survivors(h)) >= 2
  <2> DEFINE c == mergeState[h].chain
  <2>1. c \subseteq Present /\ h \in c /\ \E q \in c : q # h
    BY DEF Resumable
  <2>2. Survivors(h) = c
    BY <2>1 DEF Survivors
  <2>3. ~ LostDisks(h)
    BY <2>2 DEF LostDisks
  <2>4. PICK q \in c : q # h
    BY <2>1
  <2>5. c \in SUBSET Disks
    BY <2>1, PresentDisks
  <2> HIDE DEF c
  <2>6. Cardinality(c) >= 2
    BY <2>1, <2>4, <2>5, TwoOrMore
  <2> QED BY <2>2, <2>3, <2>6 DEF c
<1>2. Refused(byName) = {}
  BY <1>1 DEF Refused, Half
<1>3. Resumed(byName) = {h \in Half : hasUsedDescendant(byName, h)}
  BY <1>1 DEF Resumed, Half
<1> QED BY <1>1, <1>2, <1>3 DEF Dropped

LEMMA ScanVisited ==
  ASSUME Settled, Resumable, NEW byName
  PROVE  /\ Visited(byName) \subseteq Disks \cup {None}
         /\ \A p \in Visited(byName) \cap Disks : par(p) # None => par(p) \in Visited(byName)
         /\ \A h \in Resumed(byName) : mergeState[h].chain \subseteq Visited(byName)
         /\ Resumed(byName) = {} => Visited(byName) = {}
<1> DEFINE R == Resumed(byName)
           v(h) == Walk(byName, {}, h)
           Pinned == UNION {pin(byName, Survivors(p)) : p \in R}
           Walked == UNION {v(p).orphans \cup {v(p).anchor} : p \in R}
<1>1. Visited(byName) = Pinned \cup Walked
  <2> DEFINE RR == Refused(byName) \cup Resumed(byName)
             Pins(S) == UNION {pin(byName, Survivors(p)) : p \in S}
  <2>1. RR = R
    BY ScanMerges
  <2>2. Visited(byName) = Pins(RR) \cup Walked
    <3>1. Visited(byName) =
            (UNION {pin(byName, Survivors(p)) : p \in Refused(byName) \cup Resumed(byName)}) \cup Walked
      BY DEF Visited
    <3> HIDE DEF Walked
    <3> QED BY <3>1
  <2>3. Pins(RR) = Pins(R)
    <3> HIDE DEF RR, R, Pins
    <3> QED BY <2>1
  <2> HIDE DEF RR, Walked
  <2> QED BY <2>2, <2>3
<1>2. ASSUME NEW h \in R
      PROVE  /\ h \in Present /\ h \in Disks /\ Survivors(h) = mergeState[h].chain /\ h \in Survivors(h)
             /\ Survivors(h) \in SUBSET Disks
  <2>1. h \in Half
    BY ScanMerges
  <2>2. Survivors(h) = mergeState[h].chain
    BY <2>1, ScanMerges
  <2>3. mergeState[h].chain \subseteq Present /\ h \in mergeState[h].chain
    BY <2>1 DEF Resumable
  <2> QED BY <2>1, <2>2, <2>3, PresentDisks DEF Half
<1>3. ASSUME NEW h \in R
      PROVE  LET P == pin(byName, Survivors(h))
             IN  /\ Survivors(h) \subseteq P /\ P \subseteq Disks
                 /\ \A p \in P : par(p) # None => par(p) \in P
  BY <1>2, PinSound
<1>4. ASSUME NEW h \in R
      PROVE  WalkSound(byName, {}, h) /\ v(h).orphans \subseteq Disks /\ v(h).anchor \in Disks \cup {None}
  <2>1. WalkSound(byName, {}, h)
    BY <1>2, WalkIsSound
  <2>2. v(h).orphans \subseteq Disks /\ v(h).anchor \in Disks \cup {None}
    BY <1>2, WalkCases
  <2> QED BY <2>1, <2>2
<1>5. \A h \in R : pin(byName, Survivors(h)) \subseteq Pinned /\ v(h).orphans \cup {v(h).anchor} \subseteq Walked
  OBVIOUS
<1>6. Visited(byName) \subseteq Disks \cup {None}
  BY <1>1, <1>3, <1>4
<1>7. ASSUME NEW p \in Visited(byName) \cap Disks, par(p) # None
      PROVE  par(p) \in Visited(byName)
  <2>1. CASE p \in Pinned
    <3>1. PICK h \in R : p \in pin(byName, Survivors(h))
      BY <2>1
    <3>2. par(p) \in pin(byName, Survivors(h))
      BY <1>3, <1>7, <3>1
    <3> QED BY <1>1, <1>5, <3>2
  <2>2. CASE p \in Walked
    <3>1. PICK h \in R : p \in v(h).orphans \cup {v(h).anchor}
      BY <2>2
    <3>2. p = h => par(p) \in pin(byName, Survivors(h))
      BY <1>2, <1>3, <1>7
    <3>3. p # h => par(p) \in v(h).orphans
      <4> DEFINE w == v(h)
      <4>1. /\ \A r \in w.orphans : r # h => par(r) \in w.orphans
            /\ w.anchor # None => (w.anchor # h => par(w.anchor) \in w.orphans)
        BY <1>4 DEF WalkSound
      <4>2. p # None
        BY PresentDisks
      <4> HIDE DEF w
      <4>3. p \in w.orphans \cup {w.anchor}
        BY <3>1 DEF w
      <4> QED BY <4>1, <4>2, <4>3 DEF w
    <3> QED BY <1>1, <1>5, <3>2, <3>3
  <2> QED BY <1>1, <2>1, <2>2
<1>8. \A h \in R : mergeState[h].chain \subseteq Visited(byName)
  BY <1>1, <1>2, <1>3, <1>5
<1> QED BY <1>1, <1>6, <1>7, <1>8

(* The disks that are deleted: orphans without a used disk above, with all *)
(* that is above them; nothing of a merge that is resumed, everything of a *)
(* merge that is not.                                                      *)
LEMMA ScanDeletes ==
  ASSUME Settled, Resumable, NEW byName
  PROVE  /\ toDelete(byName) \subseteq Orphans \ Visited(byName)
         /\ \A x \in toDelete(byName) : Walk(byName, Visited(byName), x).anchor = None
         /\ \A q \in Disks : par(q) \in toDelete(byName) => q \in toDelete(byName)
         /\ \A h \in Half \ Resumed(byName) : mergeState[h].chain \subseteq toDelete(byName)
<1> DEFINE U == Visited(byName)
           T == toDelete(byName)
           Dead == Roots(byName) \cup {p \in Dropped(byName) \cap Present :
                                          ~ LostDisks(p) /\ Cardinality(Survivors(p)) >= 2}
           w(p) == Walk(byName, U, p)
<1>1. T = UNION {IF w(p).anchor = None THEN w(p).orphans ELSE {} : p \in Dead}
  BY DEF toDelete
<1>2. Dead \subseteq Present
  BY ScanComplete DEF Roots
<1>3. \A p \in Present : WalkSound(byName, U, p)
  BY WalkIsSound
<1>4. ASSUME NEW x \in T
      PROVE  \E p \in Dead : x \in w(p).orphans /\ w(p).anchor = None /\ WalkSound(byName, U, p)
  <2>1. PICK p \in Dead : x \in IF w(p).anchor = None THEN w(p).orphans ELSE {}
    BY <1>1
  <2> QED BY <1>2, <1>3, <2>1
<1>5. ASSUME NEW x \in T
      PROVE  /\ x \in Orphans \ U
             /\ w(x).anchor = None
             /\ \A q \in Disks : par(q) = x => q \in T \/ q \in U
  <2>1. PICK p \in Dead : x \in w(p).orphans /\ w(p).anchor = None /\ WalkSound(byName, U, p)
    BY <1>4
  <2>2. /\ w(p).orphans \subseteq Orphans \ U
        /\ w(x).anchor = w(p).anchor
        /\ \A q \in Disks : par(q) = x => q \in U \/ q \in w(p).orphans \/ q = w(p).anchor
    BY <2>1 DEF WalkSound
  <2>3. w(p).orphans \subseteq T
    BY <1>1, <2>1
  <2> HIDE DEF T, U
  <2> QED BY <2>1, <2>2, <2>3, PresentDisks
<1>6. ASSUME NEW q \in Disks, par(q) \in T PROVE q \in T
  <2>1. par(q) \in Orphans \ U /\ (q \in T \/ q \in U)
    BY <1>5, <1>6
  <2>2. par(q) # None
    BY <2>1, PresentDisks DEF Orphans
  <2>3. q \notin U
    BY <2>1, <2>2, ScanVisited
  <2> QED BY <2>1, <2>3
<1>7. ASSUME NEW h \in Half \ Resumed(byName) PROVE mergeState[h].chain \subseteq T
  <2>1. h \in Present /\ h \in Dropped(byName)
    BY ScanMerges DEF Half
  <2>2. h \in Dead
    BY <2>1, ScanMerges
  <2>3. Resumed(byName) = {}
    BY ScanMerges DEF Resumable
  <2>4. U = {}
    BY <2>3, ScanVisited
  <2>5. w(h).anchor = None
    BY <2>1, <2>4, ScanMerges DEF hasUsedDescendant
  <2>6. w(h).orphans \subseteq T
    BY <1>1, <2>2, <2>5
  <2> DEFINE c == mergeState[h].chain
             Bad == {q \in c : q \notin w(h).orphans}
  <2>7. c \subseteq Disks /\ \A q \in c \ {h} : par(q) \in c
    BY PresentDisks DEF Resumable
  <2>8. h \in w(h).orphans
    <3>1. h \in U \/ h \in w(h).orphans \/ w(h).anchor = h
      BY <1>3, <2>1 DEF WalkSound
    <3> QED BY <2>1, <2>4, <2>5, <3>1, PresentDisks
  <2>9. SUFFICES ASSUME Bad # {} PROVE FALSE
    BY <2>6
  <2>10. Bad \in SUBSET Nat
    BY <2>7, PresentDisks
  <2>11. PICK m \in Bad : \A x \in Bad : m <= x
    <3> HIDE DEF Bad
    <3> QED BY <2>9, <2>10, Least
  <2>12. m \in c /\ m \notin w(h).orphans /\ m # h /\ m \in Disks /\ m \in Nat
    BY <2>7, <2>8, <2>11, PresentDisks
  <2>13. par(m) \in c /\ par(m) \in Disks /\ par(m) < m /\ par(m) \in Nat
    BY <2>7, <2>12, ParFacts, PresentDisks
  <2>14. par(m) \in w(h).orphans
    <3> SUFFICES ASSUME par(m) \in Bad PROVE FALSE
      BY <2>13
    <3>1. m <= par(m)
      <4> HIDE DEF Bad
      <4> QED BY <2>11
    <3> QED BY <2>12, <2>13, <3>1
  <2>15. m \in U \/ m \in w(h).orphans \/ m = w(h).anchor
    BY <1>3, <2>1, <2>12, <2>14 DEF WalkSound
  <2> QED BY <2>4, <2>5, <2>12, <2>15, PresentDisks
<1> QED BY <1>5, <1>6, <1>7

(* The new merges: orphans linked below a used disk, apart from what is    *)
(* deleted, from what is resumed and from one another.                     *)
LEMMA ScanNewMerges ==
  ASSUME Settled, Resumable, NEW byName
  PROVE  /\ \A c \in toMerge(byName) :
               /\ c \subseteq Present
               /\ \A q \in c \ {Min(c)} : par(q) \in c
               /\ \A q \in c \ {Max(c)} : \E r \in c : par(r) = q
               /\ \E q, r \in c : q # r
               /\ c \ {Max(c)} \subseteq Orphans
               /\ c \cap toDelete(byName) = {}
               /\ c \cap Visited(byName) = {}
         /\ \A c, d \in toMerge(byName) : c # d => c \cap d = {}
<1> DEFINE U == Visited(byName)
           w(p) == Walk(byName, U, p)
           ch(p) == w(p).orphans \cup {w(p).anchor}
           Rooted(c, p) == /\ p \in Orphans \ U /\ par(p) \notin Orphans /\ w(p).anchor # None
                           /\ WalkSound(byName, U, p) /\ p \in Present /\ c = ch(p)
<1>1. ASSUME NEW c \in toMerge(byName) PROVE \E p \in Disks : Rooted(c, p)
  <2> DEFINE Ws == {Walk(byName, Visited(byName), p) : p \in Roots(byName)}
                    \cap [orphans : SUBSET Disks, anchor : Disks]
  <2>1. PICK x \in Ws : c = x.orphans \cup {x.anchor}
    BY DEF toMerge
  <2>2. PICK p \in Roots(byName) : x = w(p)
    BY <2>1
  <2>3. x.anchor \in Disks
    BY <2>1
  <2>4. p \in Orphans \ U /\ parentOf(byName, p) \notin Orphans
    BY <2>2, ScanComplete DEF Roots, Orphans
  <2>5. p \in Present /\ p \in Disks
    BY <2>4, PresentDisks DEF Orphans
  <2>6. par(p) \notin Orphans
    BY <2>4, <2>5, ScanParents
  <2>7. WalkSound(byName, U, p)
    BY <2>5, WalkIsSound
  <2> QED BY <2>1, <2>2, <2>3, <2>4, <2>5, <2>6, <2>7, PresentDisks
<1>2. ASSUME NEW p \in Disks, NEW c, Rooted(c, p)
      PROVE  /\ c \subseteq Present /\ c \in SUBSET Disks /\ c # {}
             /\ Min(c) = p /\ Max(c) = w(p).anchor /\ p # w(p).anchor /\ p \in c /\ w(p).anchor \in c
             /\ \A q \in c \ {p} : par(q) \in c
             /\ \A q \in c \ {w(p).anchor} : \E r \in c : par(r) = q
             /\ w(p).orphans \subseteq Orphans /\ w(p).anchor \notin Orphans
             /\ c \cap U = {}
  <2> DEFINE x == w(p)
  <2>1. /\ x.orphans \subseteq Orphans \ U
        /\ x.anchor \in (Present \ Orphans) \ U
        /\ p \in U \/ p \in x.orphans \/ x.anchor = p
        /\ \A r \in x.orphans : /\ r >= p /\ r < x.anchor
                                /\ r # p => par(r) \in x.orphans
                                /\ \E q \in x.orphans \cup {x.anchor} : par(q) = r
        /\ x.anchor >= p /\ (x.anchor # p => par(x.anchor) \in x.orphans)
    BY <1>2 DEF WalkSound
  <2>2. c = x.orphans \cup {x.anchor}
    BY <1>2
  <2> HIDE DEF x
  <2>3. c \subseteq Present /\ c \in SUBSET Disks
    BY <2>1, <2>2, PresentDisks DEF Orphans
  <2>4. p \in x.orphans /\ p # x.anchor /\ p \in c /\ x.anchor \in c
    BY <1>2, <2>1, <2>2
  <2>5. \A q \in c : p <= q /\ q <= x.anchor
    <3>1. c \subseteq Nat
      BY <2>3, PresentDisks
    <3> QED BY <2>1, <2>2, <2>4, <3>1
  <2>6. Min(c) = p
    BY <2>3, <2>4, <2>5, SetMin
  <2>7. Max(c) = x.anchor
    BY <2>3, <2>4, <2>5, SetMax
  <2>8. \A q \in c \ {p} : par(q) \in c
    BY <2>1, <2>2
  <2>9. \A q \in c \ {x.anchor} : \E r \in c : par(r) = q
    BY <2>1, <2>2
  <2> QED BY <2>1, <2>2, <2>3, <2>4, <2>6, <2>7, <2>8, <2>9 DEF x
<1>3. ASSUME NEW c \in toMerge(byName)
      PROVE  /\ c \subseteq Present
             /\ \A q \in c \ {Min(c)} : par(q) \in c
             /\ \A q \in c \ {Max(c)} : \E r \in c : par(r) = q
             /\ \E q, r \in c : q # r
             /\ c \ {Max(c)} \subseteq Orphans
             /\ c \cap toDelete(byName) = {}
             /\ c \cap U = {}
  <2>1. PICK p \in Disks : Rooted(c, p)
    BY <1>1
  <2> DEFINE x == w(p)
  <2>2. /\ c \subseteq Present /\ Min(c) = p /\ Max(c) = x.anchor
        /\ p # x.anchor /\ p \in c /\ x.anchor \in c
        /\ \A q \in c \ {p} : par(q) \in c
        /\ \A q \in c \ {x.anchor} : \E r \in c : par(r) = q
        /\ x.orphans \subseteq Orphans /\ x.anchor \notin Orphans
        /\ c \cap U = {}
    BY <1>2, <2>1
  <2>3. ASSUME NEW y \in c, y \in toDelete(byName) PROVE FALSE
    <3>1. y \in Orphans /\ w(y).anchor = None
      BY <2>3, ScanDeletes
    <3>2. y \in x.orphans
      BY <2>1, <2>2, <2>3, <3>1
    <3>3. w(y).anchor = x.anchor /\ x.anchor # None
      BY <2>1, <3>2 DEF WalkSound
    <3> QED BY <3>1, <3>3
  <2>4. c = x.orphans \cup {x.anchor}
    BY <2>1
  <2> HIDE DEF x, U
  <2> QED BY <2>2, <2>3, <2>4
<1>4. ASSUME NEW c \in toMerge(byName), NEW d \in toMerge(byName), c # d PROVE c \cap d = {}
  <2>1. PICK p \in Disks : Rooted(c, p)
    BY <1>1
  <2>2. PICK s \in Disks : Rooted(d, s)
    BY <1>1
  <2>3. p # s
    BY <1>4, <2>1, <2>2
  <2> DEFINE Bad == c \cap d
  <2> SUFFICES ASSUME Bad # {} PROVE FALSE
    OBVIOUS
  <2> DEFINE x == w(p)
             y == w(s)
  <2>4. /\ c \subseteq Present /\ Max(c) = x.anchor /\ x.anchor \in c /\ c \in SUBSET Disks
        /\ \A q \in c \ {p} : par(q) \in c
        /\ x.orphans \subseteq Orphans /\ c = x.orphans \cup {x.anchor}
    BY <1>2, <2>1
  <2>5. /\ d \subseteq Present /\ Max(d) = y.anchor /\ y.anchor \in d /\ d \in SUBSET Disks
        /\ \A q \in d \ {s} : par(q) \in d
        /\ y.orphans \subseteq Orphans /\ d = y.orphans \cup {y.anchor}
    BY <1>2, <2>2
  <2>6. par(p) \notin Orphans /\ par(s) \notin Orphans
    BY <2>1, <2>2
  <2> HIDE DEF x, y
  <2>7. \A q \in c : q <= x.anchor
    BY <2>4, MinMax
  <2>8. \A q \in d : q <= y.anchor
    BY <2>5, MinMax
  <2>9. PICK m \in Bad : \A q \in Bad : m <= q
    <3>1. Bad \in SUBSET Nat
      BY <2>4, PresentDisks
    <3> HIDE DEF Bad
    <3> QED BY <3>1, Least
  <2>10. m \in c /\ m \in d /\ m \in Disks /\ m \in Nat
    BY <2>4, <2>9, PresentDisks
  <2>11. par(m) < m /\ par(m) \in Nat
    BY <2>10, ParFacts
  <2>12. m = p => FALSE
    <3> SUFFICES ASSUME m = p PROVE FALSE
      OBVIOUS
    <3>1. par(m) \in d
      BY <2>3, <2>5, <2>10
    <3>2. par(m) # y.anchor
      <4>1. m <= y.anchor
        BY <2>8, <2>10
      <4>2. y.anchor \in Nat
        BY <2>5, PresentDisks
      <4> QED BY <2>10, <2>11, <4>1, <4>2
    <3> QED BY <2>5, <2>6, <3>1, <3>2
  <2>13. m = s => FALSE
    <3> SUFFICES ASSUME m = s PROVE FALSE
      OBVIOUS
    <3>1. par(m) \in c
      BY <2>3, <2>4, <2>10
    <3>2. par(m) # x.anchor
      <4>1. m <= x.anchor
        BY <2>7, <2>10
      <4>2. x.anchor \in Nat
        BY <2>4, PresentDisks
      <4> QED BY <2>10, <2>11, <4>1, <4>2
    <3> QED BY <2>4, <2>6, <3>1, <3>2
  <2>14. par(m) \in Bad
    BY <2>4, <2>5, <2>10, <2>12, <2>13
  <2>15. m <= par(m)
    <3> HIDE DEF Bad
    <3> QED BY <2>9, <2>14
  <2> QED BY <2>10, <2>11, <2>15
<1> QED BY <1>3, <1>4

(***************************************************************************)
(* The directory between two cleanups.                                     *)
(***************************************************************************)

LEMMA Order ==
  ASSUME Typed, Claims
  PROVE  \A p \in Present : /\ entry[p] \in Disks /\ disk(p).parent \in 0 .. (p - 1)
                            /\ disk(p).exists \in BOOLEAN
                            /\ disk(p).holds \in SUBSET Disks
                            /\ disk(p).uuid \in Disks \cup {None}
<1> SUFFICES ASSUME NEW p \in Present
             PROVE  /\ entry[p] \in Disks /\ disk(p).parent \in 0 .. (p - 1)
                    /\ disk(p).exists \in BOOLEAN
                    /\ disk(p).holds \in SUBSET Disks
                    /\ disk(p).uuid \in Disks \cup {None}
  OBVIOUS
<1>1. p \in Disks /\ entry[p] # None
  BY DEF Present
<1>2. entry[p] \in Disks /\ entry[p] <= p
  BY <1>1 DEF Typed, Claims
<1>3. data[entry[p]] \in [exists : BOOLEAN, uuid : Disks \cup {None},
                           parent : Disks \cup {None}, bat : SUBSET Disks,
                           holds : SUBSET Disks]
  BY <1>2 DEF Typed
<1>4. disk(p).parent \in Nat /\ disk(p).parent < entry[p]
  <2>1. disk(p).parent \in Disks \cup {None}
    BY <1>3 DEF disk
  <2>2. disk(p).parent < entry[p]
    BY <1>2 DEF Typed, disk
  <2>3. Disks \subseteq Nat /\ None \in Nat
    BY PresentDisks DEF None
  <2>4. disk(p).parent \in Nat
    BY <2>1, <2>3
  <2> QED BY <2>2, <2>4
<1>5. p \in Nat /\ entry[p] \in Nat
  BY <1>1, <1>2, PresentDisks
<1>6. disk(p).parent \in 0 .. (p - 1)
  BY <1>2, <1>4, <1>5
<1> QED BY <1>2, <1>3, <1>6 DEF disk

LEMMA AtRest ==
  ASSUME Inv, Going = {}, pc \notin {"state", "unlink", "link"}
  PROVE  Settled /\ Alive = Present
<1>1. Alive = Present
  BY DEF Alive, Fading
<1>2. ASSUME NEW p \in Present
      PROVE  /\ disk(p).exists
             /\ disk(p).uuid = p
             /\ disk(p).parent \in 0 .. (p - 1)
             /\ disk(p).parent = None \/ disk(p).parent \in Present
  <2>1. disk(p).exists /\ disk(p).uuid = p
    BY <1>1 DEF Inv, Readable
  <2>2. disk(p).parent \in 0 .. (p - 1)
    BY Order DEF Inv
  <2>3. disk(p).parent = None \/ disk(p).parent \in Present
    BY <1>1 DEF Inv, Ancestry
  <2> QED BY <2>1, <2>2, <2>3
<1>3. ASSUME NEW p \in Present, NEW q \in Present, disk(p).parent # None, disk(p).parent = disk(q).parent
      PROVE  p = q
  <2>1. entry[p] = entry[q]
    BY <1>3 DEF Inv, LinearChain
  <2> QED BY <2>1 DEF Inv, Claims
<1> QED BY <1>1, <1>2, <1>3 DEF Settled

LEMMA ChainFacts ==
  ASSUME NEW c, c \subseteq 1 .. written, written \in 0 .. NDisks, \E q, r \in c : q # r
  PROVE  /\ c \in SUBSET Disks /\ c # {}
         /\ Min(c) \in c /\ Max(c) \in c /\ Min(c) \in Disks /\ Max(c) \in Disks
         /\ Min(c) # Max(c)
         /\ Min(c) \in Inner(c) /\ Max(c) \notin Inner(c) /\ Inner(c) \subseteq c
         /\ \A q \in c : Min(c) <= q /\ q <= Max(c)
         /\ \A q \in Inner(c) : q < Max(c)
<1>1. c \in SUBSET Disks /\ c # {}
  BY ConstantsAssumption DEF Disks
<1>2. /\ Min(c) \in c /\ \A x \in c : Min(c) <= x
      /\ Max(c) \in c /\ \A x \in c : x <= Max(c)
  BY <1>1, MinMax
<1> DEFINE a == Min(c)
           b == Max(c)
<1>3. a \in c /\ b \in c /\ \A x \in c : a <= x /\ x <= b
  BY <1>2
<1>4. c \subseteq Nat
  BY <1>1, PresentDisks
<1> HIDE DEF a, b
<1>5. a # b
  <2>1. PICK q, r \in c : q # r
    OBVIOUS
  <2> QED BY <1>3, <1>4, <2>1
<1>6. ASSUME NEW q \in c \ {b} PROVE q < b
  <2>1. q \in Nat /\ b \in Nat /\ q <= b /\ q # b
    BY <1>3, <1>4
  <2> QED BY <2>1
<1> QED BY <1>1, <1>3, <1>5, <1>6 DEF Inner, a, b

LEMMA CanResume ==
  ASSUME Inv, pc \notin {"unlink", "link"}
  PROVE  Resumable
<1>1. ASSUME NEW h \in Half
      PROVE  LET c == mergeState[h].chain
             IN  /\ mergeState[h].step = "mergeBlocks"
                 /\ c \subseteq Present /\ h \in c
                 /\ \E q \in c : q # h
                 /\ \A q \in c \ {h} : par(q) \in c
  <2> DEFINE c == mergeState[h].chain
  <2>1. /\ IsChain(c) /\ Min(c) = h /\ mergeState[h].step = "mergeBlocks" /\ Linked(c)
    BY DEF Inv, Merging, MergeSound
  <2> HIDE DEF c
  <2>2. written \in 0 .. NDisks
    BY DEF Inv, History
  <2>3. h \in c /\ \E q \in c : q # h
    BY <2>1, <2>2, ChainFacts DEF IsChain
  <2>4. c \subseteq Present /\ \A q \in c \ {h} : disk(q).parent \in c
    BY <2>1 DEF Linked
  <2>5. \A q \in c \ {h} : par(q) \in c
    BY <2>4 DEF par
  <2> QED BY <2>1, <2>3, <2>4, <2>5 DEF c
<1>2. \A h, k \in Half : h = k
  BY DEF Inv, Merging
<1> QED BY <1>1, <1>2 DEF Resumable

(***************************************************************************)
(* Steps.                                                                  *)
(***************************************************************************)

LEMMA InitInv ==
  ASSUME Init
  PROVE  Inv
<1>1. NDisks \in Nat /\ Disks \subseteq Nat /\ None \notin Disks /\ None = 0
  BY ConstantsAssumption, PresentDisks DEF None
<1>2. Present = {} /\ Interrupted = {} /\ Half = {}
  BY DEF Init, Present, Interrupted, Half, NoMerge
<1>3. Going = {} /\ Alive = {} /\ Listed = {}
  BY <1>2 DEF Init, Going, Alive, Listed
<1>4. Typed
  <2>1. NoData \in [exists : BOOLEAN, uuid : Disks \cup {None},
                    parent : Disks \cup {None}, bat : SUBSET Disks, holds : SUBSET Disks]
    BY DEF NoData
  <2>2. NoMerge \in [step : {"absent", "mergeBlocks", "cleanup"}, chain : SUBSET Disks]
    BY DEF NoMerge
  <2>3. \A d \in Disks : data[d].parent < d
    BY <1>1, ConstantsAssumption DEF Init, NoData, Disks
  <2> QED BY <1>1, <2>1, <2>2, <2>3, ConstantsAssumption DEF Init, Typed
<1>5. Memory
  BY <1>1 DEF Init, Memory, Steps, Backing, Writing
<1>6. History
  BY <1>1, <1>2 DEF Init, History, Writing
<1>7. Claims
  BY <1>2, <1>3 DEF Init, Claims, Working
<1>8. Readable /\ Ancestry /\ Sound
  BY <1>2, <1>3 DEF Readable, Ancestry, Sound
<1>9. Draft
  BY DEF Init, Draft
<1>10. Merging
  BY <1>2 DEF Init, Merging
<1>11. AtWork
  BY DEF Init, AtWork, Working
<1>12. Plan
  BY DEF Init, Plan, Planned, Working
<1>13. Books
  BY <1>3 DEF Init, Books
<1>14. LinearChain
  BY <1>2 DEF LinearChain
<1> QED BY <1>4, <1>5, <1>6, <1>7, <1>8, <1>9, <1>10, <1>11, <1>12, <1>13, <1>14 DEF Inv

(* A step that touches neither the disks nor the merge state files, before *)
(* or after the parts of a cleanup that delete or merge.                   *)
Quietly ==
    /\ UNCHANGED <<entry, mergeState, need, format, written>>
    /\ \A p \in Present : disk(p)' = disk(p)
    /\ Going = {} /\ pc \notin {"state", "unlink", "link"}
    /\ pc' \notin {"delete"} \cup Working
    /\ Listed' \subseteq Listed \cup {written}

LEMMA QuietStep ==
  ASSUME Inv, Quietly, Typed',
         pc' \in {"merge", "collect"} => Present \subseteq registered',
         pc' = "alias" => pc = "alias"
  PROVE  /\ Present' = Present /\ Half' = Half /\ Going' = {} /\ Going = {}
         /\ Claims' /\ Readable' /\ Ancestry' /\ Sound' /\ Merging' /\ AtWork' /\ LinearChain'
         /\ \A c : Linked(c)' <=> Linked(c)
<1>1. UNCHANGED <<entry, mergeState, need, format, written>>
  BY DEF Quietly
<1>2. Present' = Present /\ \A p \in Present : disk(p)' = disk(p)
  BY <1>1 DEF Present, Quietly
<1>3. Interrupted' = Interrupted /\ Half' = Half
  BY <1>1, <1>2 DEF Interrupted, Half
<1>4. /\ Going = {} /\ Going' = {} /\ Alive = Present /\ Alive' = Present
      /\ pc \notin {"state", "unlink", "link"} /\ pc' \notin {"state", "unlink", "link"}
      /\ pc' \notin Working /\ pc' # "delete"
  BY <1>2 DEF Quietly, Going, Fading, Alive, Working
<1>6. Claims'
  BY <1>1, <1>2, <1>4 DEF Inv, Claims
<1>7. Readable'
  BY <1>2, <1>4 DEF Inv, Readable
<1>8. Ancestry'
  BY <1>2, <1>4 DEF Inv, Ancestry
<1>9. Sound'
  BY <1>1, <1>2, <1>3, <1>4 DEF Inv, Sound, Needed
<1>10. ASSUME NEW c PROVE Linked(c)' <=> Linked(c)
  BY <1>2 DEF Linked
<1>11. ASSUME NEW h \in Half' PROVE MergeSound(h)'
  <2>0. PICK c : c = mergeState[h].chain
    OBVIOUS
  <2>1. h \in Half /\ MergeSound(h)
    BY <1>3 DEF Inv, Merging
  <2>2. /\ IsChain(c) /\ Min(c) = h
        /\ Inner(c) \cap Listed = {}
        /\ mergeState[h].step = "mergeBlocks" /\ Linked(c) /\ c \cap Going = {}
        /\ \A q \in Present \ c : disk(q).parent \notin Inner(c)
        /\ \A x \in Disks : x \in need[Max(c)] <=>
              \/ \E q \in c \cap Present : x \in disk(q).holds
              \/ x \in Needed(disk(h).parent)
    BY <1>4, <2>0, <2>1 DEF MergeSound
  <2>3. mergeState'[h] = mergeState[h] /\ mergeState'[h].chain = c
    BY <1>1, <2>0
  <2>4. IsChain(c)'
    BY <1>1, <2>2 DEF IsChain
  <2>5. Inner(c) \cap Listed' = {}
    <3>1. written \notin Inner(c)
      <4>1. written \in 0 .. NDisks
        BY DEF Inv, History
      <4>2. Max(c) \in 1 .. written /\ \A q \in Inner(c) : q < Max(c)
        BY <2>2, <4>1, ChainFacts DEF IsChain
      <4> QED BY <4>1, <4>2
    <3> QED BY <2>2, <3>1 DEF Quietly
  <2>6. Linked(c)'
    BY <1>10, <2>2
  <2>7. \A q \in Present' \ c : disk(q)'.parent \notin Inner(c)
    BY <1>2, <2>2
  <2>8. \A x \in Disks : x \in need'[Max(c)] <=>
              \/ \E q \in c \cap Present' : x \in disk(q)'.holds
              \/ x \in Needed(disk(h).parent)'
    <3>1. h \in Present
      BY <2>1 DEF Half
    <3>2. disk(h)' = disk(h)
      BY <1>2, <3>1
    <3>3. Needed(disk(h).parent)' = Needed(disk(h).parent)
      BY <1>1, <3>2 DEF Needed
    <3> QED BY <1>1, <1>2, <2>2, <3>3
  <2> QED BY <1>4, <2>2, <2>3, <2>4, <2>5, <2>6, <2>7, <2>8 DEF MergeSound, Inner
<1>12. Merging'
  BY <1>1, <1>3, <1>11 DEF Inv, Merging
<1>13. AtWork'
  BY <1>4 DEF AtWork, Working
<1>14. LinearChain'
  BY <1>1, <1>2 DEF Inv, LinearChain
<1> QED BY <1>2, <1>3, <1>4, <1>6, <1>7, <1>8, <1>9, <1>10, <1>12, <1>13, <1>14

LEMMA QuietPlan ==
  ASSUME resumes' = {}, merges' = {}, pc' \notin Working
  PROVE  Plan'
BY DEF Plan, Planned

LEMMA LeaveStep ==
  ASSUME Inv, Going = {}, pc \notin {"state", "unlink", "link"} \cup Writing,
         UNCHANGED <<remoteVars, backupVars>>, faults' \in 0 .. MaxFaults,
         \A i \in Disks : metadata[i] # "torn",
         NEW step \in {"idle", "scan", "transfer"}, Leave(step),
         step = "transfer" => next = "transfer" /\ pc # "alias"
  PROVE  Inv'
<1>1. /\ UNCHANGED <<entry, data, mergeState, metadata, need, format, written, base, recorded, expired, lost>>
      /\ pc' = step /\ step \notin {"delete", "alias", "torn", "mark", "archives", "collect", "unlink"} \cup Working
      /\ pc' \notin Writing
      /\ next' = IF step = "transfer" THEN "transfer" ELSE "idle"
      /\ registered' = {} /\ todo' = {} /\ archives' = {} /\ complete' = {} /\ junk' = {}
      /\ resumes' = {} /\ merges' = {} /\ chain' = {} /\ merged' = {}
  BY DEF Leave, remoteVars, backupVars, Working, Writing
<1>2. Listed' \subseteq Listed
  BY <1>1 DEF Listed
<1>3. Quietly
  BY <1>1, <1>2 DEF Quietly, disk
<1>4. Typed'
  BY <1>1 DEF Inv, Typed
<1>5. /\ Present' = Present /\ Half' = Half /\ Going' = {}
      /\ Claims' /\ Readable' /\ Ancestry' /\ Sound' /\ Merging' /\ AtWork' /\ LinearChain'
  BY <1>1, <1>3, <1>4, QuietStep
<1>6. Memory'
  BY <1>1 DEF Inv, Memory, Steps, Working, Backing, Writing
<1>7. History'
  BY <1>1, <1>5 DEF Inv, History
<1>8. Draft'
  BY <1>1 DEF Draft
<1>9. Plan'
  BY <1>1, QuietPlan
<1>10. Books'
  BY <1>1, <1>2, <1>5 DEF Inv, Books, Listed
<1> QED BY <1>4, <1>5, <1>6, <1>7, <1>8, <1>9, <1>10 DEF Inv

(* Nothing is torn but the metadata file that is being written.            *)
LEMMA NotTorn ==
  ASSUME Inv, pc # "torn", pc = "archives" => chain = {}
  PROVE  \A i \in Disks : metadata[i] # "torn"
BY DEF Inv, Books

LEMMA FaultStep ==
  ASSUME Inv, Calm, Fault
  PROVE  Inv'
<1>1. pc \in {"scan", "merge", "blocks", "uuid", "drop", "collect", "archives", "transfer", "alias"}
  BY DEF Fault, Calm, Point
<1>2. pc = "archives" => chain = {}
  BY DEF Fault, Calm, Point
<1>3. PICK step \in {"idle", IF Cleaning THEN next ELSE "scan"} : Leave(step)
  BY DEF Fault
<1>4. /\ UNCHANGED <<remoteVars, backupVars>> /\ faults' = faults + 1 /\ faults < MaxFaults
  BY DEF Fault
<1>5. faults \in 0 .. MaxFaults /\ MaxFaults \in Nat
  BY ConstantsAssumption DEF Inv, Typed
<1>6. faults' \in 0 .. MaxFaults
  BY <1>4, <1>5
<1>7. step \in {"idle", "scan", "transfer"} /\ (step = "transfer" => next = "transfer" /\ pc # "alias")
  BY <1>3 DEF Inv, Memory, Cleaning
<1>8. Going = {} /\ pc \notin {"state", "unlink", "link"} \cup Writing
  BY <1>1 DEF Going, Writing
<1>9. \A i \in Disks : metadata[i] # "torn"
  BY <1>1, <1>2, NotTorn
<1> QED BY <1>3, <1>4, <1>6, <1>7, <1>8, <1>9, LeaveStep

LEMMA EndCleanStep ==
  ASSUME Inv, EndClean
  PROVE  Inv'
<1>1. pc = "archives" /\ todo = {} /\ Leave(next) /\ UNCHANGED <<entry, data, mergeState, backupVars, faults>>
      /\ metadata' = [i \in Disks |-> IF i \in junk THEN "absent" ELSE metadata[i]]
  BY DEF EndClean
<1>2. chain = {} /\ junk = {} /\ next \in {"transfer", "idle"}
  BY <1>1 DEF Inv, Memory
<1>3. metadata \in [Disks -> {"absent", "torn", "ok"}] /\ faults \in 0 .. MaxFaults
  BY DEF Inv, Typed
<1>4. metadata' = metadata
  BY <1>1, <1>2, <1>3
<1>5. UNCHANGED <<remoteVars, backupVars>> /\ faults' \in 0 .. MaxFaults
  BY <1>1, <1>3, <1>4 DEF remoteVars
<1>6. Going = {} /\ pc \notin {"state", "unlink", "link"} \cup Writing
  BY <1>1 DEF Going, Writing
<1>7. \A i \in Disks : metadata[i] # "torn"
  BY <1>1, <1>2, NotTorn
<1>8. next \in {"idle", "scan", "transfer"} /\ (next = "transfer" => next = "transfer" /\ pc # "alias")
  BY <1>1, <1>2
<1> QED BY <1>1, <1>5, <1>6, <1>7, <1>8, LeaveStep

(* The other quiet steps, but those that put a backup on record.           *)
LEMMA QuietInv ==
  ASSUME Inv, Going = {}, pc \notin {"state", "unlink", "link", "alias"} \cup Writing,
         UNCHANGED <<entry, data, mergeState, backupVars, archives, complete, junk, faults>>,
         metadata' \in [Disks -> {"absent", "torn", "ok"}], Listed' \subseteq Listed,
         pc' \notin {"delete", "alias"} \cup Writing \cup Working,
         pc' \in {"merge", "collect"} => Present \subseteq registered',
         Memory', Plan',
         \A i \in Disks : metadata'[i] = "torn" => pc' = "archives" /\ i \in chain',
         \A i \in recorded \ expired : metadata'[i] # "absent"
  PROVE  Inv'
<1>1. UNCHANGED <<need, format, written, base, recorded, expired, lost>>
  BY DEF backupVars
<1>2. Quietly
  BY <1>1 DEF Quietly, disk
<1>3. Typed'
  BY <1>1 DEF Inv, Typed
<1>4. /\ Present' = Present /\ Half' = Half /\ Going' = {}
      /\ Claims' /\ Readable' /\ Ancestry' /\ Sound' /\ Merging' /\ AtWork' /\ LinearChain'
  BY <1>2, <1>3, QuietStep
<1>5. History'
  BY <1>1, <1>4 DEF Inv, History
<1>6. Draft'
  BY DEF Draft
<1>7. Books'
  BY <1>1, <1>4 DEF Inv, Books, Writing, Working
<1> QED BY <1>3, <1>4, <1>5, <1>6, <1>7 DEF Inv

LEMMA BeginStep ==
  ASSUME Inv, Begin
  PROVE  Inv'
<1>1. /\ pc = "idle" /\ pc' = "scan" /\ next' \in {"idle"} \cup (IF written < NDisks THEN {"transfer"} ELSE {})
      /\ UNCHANGED <<entry, data, mergeState, metadata, registered, archives, complete, junk, resumes, merges, merged, todo, chain, faults>>
      /\ UNCHANGED backupVars /\ UNCHANGED written
  BY DEF Begin, remoteVars, planVars, backupVars
<1>2. Going = {} /\ pc \notin {"state", "unlink", "link", "alias"} \cup Writing
  BY <1>1 DEF Going, Writing
<1>3. pc' \notin {"delete", "alias", "merge", "collect"} \cup Writing \cup Working
  BY <1>1 DEF Writing, Working
<1>4. Listed' = Listed /\ metadata' \in [Disks -> {"absent", "torn", "ok"}]
  BY <1>1 DEF Listed, Inv, Typed
<1>5. Memory'
  BY <1>1 DEF Inv, Memory, Backing, Writing, Steps
<1>6. Plan'
  <2>1. resumes' = {} /\ merges' = {}
    BY <1>1 DEF Inv, Memory, Backing
  <2> QED BY <1>3, <2>1, QuietPlan
<1>7. \A i \in Disks : metadata'[i] # "torn"
  BY <1>1, NotTorn
<1>8. \A i \in recorded \ expired : metadata'[i] # "absent"
  BY <1>1 DEF Inv, Books
<1> QED BY <1>1, <1>2, <1>3, <1>4, <1>5, <1>6, <1>7, <1>8, QuietInv

LEMMA EndDeleteStep ==
  ASSUME Inv, EndDelete
  PROVE  Inv'
<1>1. /\ pc = "delete" /\ todo = {} /\ pc' = "merge"
      /\ UNCHANGED <<entry, data, mergeState, metadata, registered, archives, complete, junk, resumes, merges, merged, next, todo, chain, faults>>
      /\ UNCHANGED backupVars /\ UNCHANGED written
  BY DEF EndDelete, remoteVars, planVars, backupVars
<1>2. Going = {} /\ Going' = {} /\ pc \notin {"state", "unlink", "link", "alias"} \cup Writing
  BY <1>1 DEF Going, Writing
<1>3. pc' \notin {"delete", "alias"} \cup Writing \cup Working
  BY <1>1 DEF Writing, Working
<1>4. Listed' = Listed /\ metadata' \in [Disks -> {"absent", "torn", "ok"}]
  BY <1>1 DEF Listed, Inv, Typed
<1>5. Memory'
  BY <1>1 DEF Inv, Memory, Backing, Writing, Steps
<1>6. Plan'
  <2>1. Present' = Present /\ Half' = Half /\ \A p : disk(p)' = disk(p)
    BY <1>1 DEF Half, Present, Interrupted, disk
  <2>2. Planned = resumes \cup merges /\ Planned' = resumes \cup merges
    BY <1>1 DEF Planned, Working
  <2>3. ASSUME NEW c \in Planned' PROVE IsChain(c)' /\ Linked(c)' /\ c \cap Going' = {} /\ Inner(c) \cap Listed' = {}
    <3>1. IsChain(c) /\ Linked(c) /\ Inner(c) \cap Listed = {}
      BY <2>2 DEF Inv, Plan
    <3>2. IsChain(c)'
      BY <1>1, <3>1 DEF IsChain
    <3>3. Linked(c)'
      BY <2>1, <3>1 DEF Linked
    <3> QED BY <1>2, <1>4, <3>1, <3>2, <3>3
  <2>4. Plan
    BY DEF Inv
  <2> QED BY <1>1, <1>3, <2>1, <2>3, <2>4 DEF Plan, Inner
<1>7. \A i \in Disks : metadata'[i] # "torn"
  BY <1>1, NotTorn
<1>8. \A i \in recorded \ expired : metadata'[i] # "absent"
  BY <1>1 DEF Inv, Books
<1>9. Present \subseteq registered'
  BY <1>1 DEF Inv, Claims
<1> QED BY <1>1, <1>2, <1>3, <1>4, <1>5, <1>6, <1>7, <1>8, <1>9, QuietInv

LEMMA EndMergeStep ==
  ASSUME Inv, EndMerge
  PROVE  Inv'
<1>1. /\ pc = "merge" /\ resumes = {} /\ merges = {} /\ pc' = "collect"
      /\ UNCHANGED <<entry, data, mergeState, metadata, registered, archives, complete, junk, resumes, merges, merged, next, todo, chain, faults>>
      /\ UNCHANGED backupVars /\ UNCHANGED written
  BY DEF EndMerge, remoteVars, planVars, backupVars
<1>2. Going = {} /\ pc \notin {"state", "unlink", "link", "alias"} \cup Writing
  BY <1>1 DEF Going, Writing
<1>3. pc' \notin {"delete", "alias"} \cup Writing \cup Working
  BY <1>1 DEF Writing, Working
<1>4. Listed' = Listed /\ metadata' \in [Disks -> {"absent", "torn", "ok"}]
  BY <1>1 DEF Listed, Inv, Typed
<1>5. Memory'
  BY <1>1 DEF Inv, Memory, Backing, Writing, Steps
<1>6. Plan'
  BY <1>1, <1>3, QuietPlan
<1>7. \A i \in Disks : metadata'[i] # "torn"
  BY <1>1, NotTorn
<1>8. \A i \in recorded \ expired : metadata'[i] # "absent"
  BY <1>1 DEF Inv, Books
<1>9. Present \subseteq registered'
  BY <1>1 DEF Inv, Claims
<1> QED BY <1>1, <1>2, <1>3, <1>4, <1>5, <1>6, <1>7, <1>8, <1>9, QuietInv

(* The archives: they are all complete, so none is removed.                *)
LEMMA RemoveMetadataNever ==
  ASSUME Inv, NEW i \in Disks, RemoveMetadata(i)
  PROVE  FALSE
BY DEF Inv, Memory, RemoveMetadata

LEMMA ArchiveStep ==
  ASSUME Inv, NEW i \in Disks, KeepMetadata(i) \/ BeginUpdate(i) \/ EndUpdate(i)
  PROVE  Inv'
<1>1. /\ pc = "archives" /\ pc' = "archives" /\ i \in todo
      /\ UNCHANGED <<entry, data, mergeState, registered, archives, complete, junk, resumes, merges, merged, next, faults>>
      /\ UNCHANGED backupVars /\ UNCHANGED written
  BY DEF Inv, Memory, KeepMetadata, BeginUpdate, EndUpdate, remoteVars, planVars, backupVars
<1>2. \/ /\ i \notin merged /\ i \notin chain /\ todo' = todo \ {i} /\ UNCHANGED <<metadata, chain>>
      \/ /\ i \in merged /\ metadata' = [metadata EXCEPT ![i] = "torn"] /\ chain' = chain \cup {i} /\ UNCHANGED todo
      \/ /\ metadata' = [metadata EXCEPT ![i] = "ok"] /\ chain' = chain \ {i} /\ todo' = todo \ {i}
  BY <1>1 DEF Inv, Memory, KeepMetadata, BeginUpdate, EndUpdate, remoteVars, planVars
<1>3. Going = {} /\ pc \notin {"state", "unlink", "link", "alias"} \cup Writing
  BY <1>1 DEF Going, Writing
<1>4. pc' \notin {"delete", "alias", "merge", "collect"} \cup Writing \cup Working
  BY <1>1 DEF Writing, Working
<1>5. /\ i \in archives /\ resumes = {} /\ merges = {}
      /\ todo \subseteq archives /\ chain \subseteq todo \cap merged /\ archives \subseteq Disks
  BY <1>1 DEF Inv, Memory
<1>6. metadata \in [Disks -> {"absent", "torn", "ok"}]
  BY DEF Inv, Typed
<1>7. metadata' \in [Disks -> {"absent", "torn", "ok"}] /\ \A j \in Disks : j # i => metadata'[j] = metadata[j]
  BY <1>2, <1>6
<1>8. Listed' \subseteq Listed
  BY <1>1, <1>5, <1>7 DEF Listed
<1>9. Memory'
  <2>1. todo' \subseteq todo /\ chain' \subseteq todo' \cap merged'
    BY <1>1, <1>2, <1>5
  <2>2. todo' \subseteq archives' /\ todo' \subseteq Disks /\ chain' \subseteq Disks
    BY <1>1, <1>5, <2>1
  <2> QED BY <1>1, <2>1, <2>2 DEF Inv, Memory, Backing, Writing
<1>10. Plan'
  BY <1>1, <1>4, <1>5, QuietPlan
<1>11. \A j \in Disks : metadata'[j] = "torn" => pc' = "archives" /\ j \in chain'
  BY <1>1, <1>2, <1>6 DEF Inv, Books
<1>12. \A j \in recorded \ expired : metadata'[j] # "absent"
  <2>1. recorded \subseteq Disks
    BY ConstantsAssumption DEF Inv, History, Disks
  <2> QED BY <1>2, <1>6, <2>1 DEF Inv, Books
<1> QED BY <1>1, <1>3, <1>4, <1>7, <1>8, <1>9, <1>10, <1>11, <1>12, QuietInv

(* The steps that put a backup on record.                                  *)
LEMMA RecordStep ==
  ASSUME Inv, BeginRecord \/ EndRecord \/ MarkExported
  PROVE  Inv'
<1>1. UNCHANGED <<entry, data, mergeState, registered, archives, complete, junk, resumes, merges, merged,
                  format, need, written, lost, expired, todo, chain, faults>>
  BY DEF BeginRecord, EndRecord, MarkExported, remoteVars, planVars, backupVars
<1>2. \/ /\ pc = "record" /\ pc' = "torn" /\ metadata' = [metadata EXCEPT ![written] = "torn"]
         /\ UNCHANGED <<recorded, base, next>>
      \/ /\ pc = "torn" /\ pc' = "mark" /\ metadata' = [metadata EXCEPT ![written] = "ok"]
         /\ recorded' = recorded \cup {written} /\ UNCHANGED <<base, next>>
      \/ /\ pc = "mark" /\ pc' = "scan" /\ next' = "idle" /\ base' = written /\ UNCHANGED <<metadata, recorded>>
  BY DEF BeginRecord, EndRecord, MarkExported, remoteVars, planVars, backupVars
<1>3. /\ Going = {} /\ pc \notin {"state", "unlink", "link"} /\ pc' \notin {"delete", "alias", "merge", "collect"} \cup Working
      /\ pc \in Writing
  BY <1>2 DEF Going, Working, Writing
<1>4. /\ written \in Present /\ written \in Disks /\ written \in Nat /\ written \in 1 .. written
      /\ base \in Nat /\ base < written
  <2>1. written \in Present /\ written \in 0 .. NDisks /\ base \in 0 .. written /\ base < written
    BY <1>3 DEF Inv, History
  <2>2. written \in Disks
    BY <2>1, PresentDisks
  <2> QED BY <2>1, <2>2, ConstantsAssumption DEF Disks
<1>5. /\ metadata \in [Disks -> {"absent", "torn", "ok"}]
      /\ metadata' \in [Disks -> {"absent", "torn", "ok"}]
      /\ \A j \in Disks : j # written => metadata'[j] = metadata[j]
  <2>1. metadata \in [Disks -> {"absent", "torn", "ok"}]
    BY DEF Inv, Typed
  <2> QED BY <1>2, <1>4, <2>1
<1>6. Listed' \subseteq Listed \cup {written}
  BY <1>1, <1>5 DEF Listed
<1>7. Quietly
  BY <1>1, <1>3, <1>6 DEF Quietly, disk
<1>8. Typed'
  BY <1>1, <1>5 DEF Inv, Typed
<1>9. /\ Present' = Present /\ Half' = Half /\ Going' = {}
      /\ Claims' /\ Readable' /\ Ancestry' /\ Sound' /\ Merging' /\ AtWork' /\ LinearChain'
  BY <1>3, <1>7, <1>8, QuietStep
<1>10. Memory'
  BY <1>1, <1>2 DEF Inv, Memory, Backing, Writing, Steps
<1>11. History'
  <2>1. /\ written' \in 0 .. NDisks /\ recorded' \subseteq 1 .. written' /\ expired' \subseteq recorded' /\ lost' = {}
    BY <1>1, <1>2, <1>4 DEF Inv, History
  <2>2. base' \in 0 .. written' /\ (pc' \in {"alias"} \cup Writing => base' < written')
    BY <1>1, <1>2, <1>3, <1>4 DEF Writing
  <2>3. ASSUME NEW p \in Present' PROVE p <= base' \/ (p = written' /\ pc' \in Writing)
    <3>1. p \in Nat /\ (p <= base \/ p = written)
      BY <1>9, PresentDisks DEF Inv, History
    <3> QED BY <1>1, <1>2, <1>4, <3>1 DEF Writing
  <2>4. pc' \in Writing => written' \in Present'
    BY <1>1, <1>4, <1>9
  <2> QED BY <2>1, <2>2, <2>3, <2>4 DEF History
<1>12. Draft'
  BY <1>3 DEF Draft
<1>13. Plan'
  <2>1. resumes' = {} /\ merges' = {}
    BY <1>1, <1>3 DEF Inv, Memory, Backing, Writing
  <2> QED BY <1>3, <2>1, QuietPlan
<1>14. Books'
  <2>1. \A i \in Listed' : i \in Present'
    <3>1. \A i \in Listed : i \in Present
      BY <1>3 DEF Inv, Books
    <3> QED BY <1>4, <1>6, <1>9, <3>1
  <2>2. \A i \in Disks : metadata'[i] = "torn" => pc' = "torn" /\ i = written'
    BY <1>1, <1>2, <1>3, <1>4, <1>5 DEF Inv, Books, Writing
  <2>3. \A i \in recorded' \ expired' : metadata'[i] # "absent"
    <3>1. recorded \subseteq Disks
      BY ConstantsAssumption DEF Inv, History, Disks
    <3> QED BY <1>1, <1>2, <1>4, <1>5, <3>1 DEF Inv, Books
  <2>4. pc' = "mark" => written' \in recorded'
    BY <1>1, <1>2
  <2> QED BY <1>9, <2>1, <2>2, <2>3, <2>4 DEF Books
<1> QED BY <1>8, <1>9, <1>10, <1>11, <1>12, <1>13, <1>14 DEF Inv

(* Whatever happens to the metadata files, if no other backup is listed.    *)
LEMMA MetadataStep ==
  ASSUME Inv,
         UNCHANGED <<entry, data, mergeState, registered, archives, complete, junk, resumes, merges, merged,
                     format, need, written, base, lost, recorded, pc, next, todo, chain, faults>>,
         metadata' \in [Disks -> {"absent", "torn", "ok"}], Listed' \subseteq Listed,
         expired' \subseteq recorded, Books'
  PROVE  Inv'
<1>1. UNCHANGED <<entry, data, mergeState, registered, archives, complete, junk, resumes, merges, merged,
                  format, need, written, base, lost, recorded, pc, next, todo, chain, faults>>
  OBVIOUS
<1>2. /\ Present' = Present /\ Going' = Going /\ Fading' = Fading /\ Alive' = Alive
      /\ Parent' = Parent /\ Target' = Target /\ Planned' = Planned
      /\ \A p : disk(p)' = disk(p)
  BY <1>1 DEF Present, Going, Fading, Alive, Parent, Target, Planned, disk
<1>3. Interrupted' = Interrupted /\ Half' = Half
  BY <1>1, <1>2 DEF Interrupted, Half
<1>5. Listed' \subseteq Listed
  OBVIOUS
<1>6. Typed'
  BY <1>1 DEF Inv, Typed
<1>7. Memory'
  BY <1>1 DEF Inv, Memory
<1>8. History'
  BY <1>1, <1>2 DEF Inv, History
<1>9. Claims'
  BY <1>1, <1>2 DEF Inv, Claims
<1>10. Readable'
  BY <1>1, <1>2 DEF Inv, Readable
<1>11. Ancestry'
  BY <1>1, <1>2 DEF Inv, Ancestry
<1>12. Draft'
  BY <1>1, <1>2 DEF Inv, Draft, Needed
<1>13. Sound'
  BY <1>1, <1>2, <1>3 DEF Inv, Sound, Needed
<1>14. ASSUME NEW c PROVE (Linked(c)' <=> Linked(c)) /\ (IsChain(c)' <=> IsChain(c))
  BY <1>1, <1>2 DEF Linked, IsChain
<1>15. ASSUME NEW h \in Half' PROVE MergeSound(h)'
  <2>1. PICK c : c = mergeState[h].chain
    OBVIOUS
  <2>2. /\ IsChain(c) /\ Min(c) = h
        /\ Inner(c) \cap Listed = {}
        /\ pc \notin {"unlink", "link"} => mergeState[h].step = "mergeBlocks" /\ Linked(c) /\ c \cap Going = {}
        /\ \A q \in Present \ c : disk(q).parent \notin Inner(c)
        /\ \A x \in Disks : x \in need[Max(c)] <=>
              \/ \E q \in c \cap Present : x \in disk(q).holds
              \/ x \in Needed(disk(h).parent)
    BY <1>3, <2>1 DEF Inv, Merging, MergeSound
  <2>3. mergeState'[h] = mergeState[h] /\ mergeState'[h].chain = c
    BY <1>1, <2>1
  <2>4. \A x \in Disks : x \in need'[Max(c)] <=>
              \/ \E q \in c \cap Present' : x \in disk(q)'.holds
              \/ x \in Needed(disk(h).parent)'
    BY <1>1, <1>2, <2>2 DEF Needed
  <2>5. IsChain(c)' /\ (Linked(c)' <=> Linked(c))
    BY <1>14, <2>2
  <2> QED BY <1>1, <1>2, <1>5, <2>2, <2>3, <2>4, <2>5 DEF MergeSound, Inner
<1>16. Merging'
  BY <1>1, <1>3, <1>15 DEF Inv, Merging
<1>17. AtWork'
  BY <1>1, <1>2, <1>3, <1>14 DEF Inv, AtWork, IsChain
<1>18. Plan'
  BY <1>1, <1>2, <1>3, <1>5, <1>14 DEF Inv, Plan, Inner
<1>20. LinearChain'
  BY <1>1, <1>2 DEF Inv, LinearChain
<1> QED BY <1>6, <1>7, <1>8, <1>9, <1>10, <1>11, <1>12, <1>13, <1>16, <1>17, <1>18, <1>20 DEF Inv

(* The deletion of a backup, at any time.                                  *)
LEMMA ExpireStep ==
  ASSUME Inv, NEW i \in Disks, Expire(i)
  PROVE  Inv'
<1>1. /\ UNCHANGED <<entry, data, mergeState, registered, archives, complete, junk, resumes, merges, merged,
                     format, need, written, base, lost, recorded, pc, next, todo, chain, faults>>
      /\ i \in recorded /\ metadata' = [metadata EXCEPT ![i] = "absent"] /\ expired' = expired \cup {i}
  BY DEF Expire, planVars
<1>2. /\ metadata \in [Disks -> {"absent", "torn", "ok"}]
      /\ metadata' \in [Disks -> {"absent", "torn", "ok"}]
      /\ \A j \in Disks : j # i => metadata'[j] = metadata[j]
      /\ metadata'[i] = "absent"
  <2>1. metadata \in [Disks -> {"absent", "torn", "ok"}]
    BY DEF Inv, Typed
  <2> QED BY <1>1, <2>1
<1>3. Listed' \subseteq Listed
  BY <1>1, <1>2 DEF Listed
<1>4. expired' \subseteq recorded
  BY <1>1 DEF Inv, History
<1>5. Books'
  <2>1. Present' = Present /\ Going' = Going /\ Target' = Target
    BY <1>1 DEF Present, Going, Target
  <2> QED BY <1>1, <1>2, <1>3, <2>1 DEF Inv, Books
<1> QED BY <1>1, <1>2, <1>3, <1>4, <1>5, MetadataStep

LEMMA StutterStep ==
  ASSUME Inv, UNCHANGED vars
  PROVE  Inv'
<1>1. UNCHANGED <<entry, data, mergeState, registered, archives, complete, junk, resumes, merges, merged,
                  format, need, written, base, lost, recorded, pc, next, todo, chain, faults, metadata, expired>>
  BY DEF vars, remoteVars, planVars, backupVars
<1>2. Present' = Present /\ Going' = Going /\ Target' = Target /\ Listed' = Listed
  BY <1>1 DEF Present, Going, Target, Listed
<1>3. Books'
  BY <1>1, <1>2 DEF Inv, Books
<1>4. metadata' \in [Disks -> {"absent", "torn", "ok"}] /\ expired' \subseteq recorded
  BY <1>1 DEF Inv, Typed, History
<1> QED BY <1>1, <1>2, <1>3, <1>4, MetadataStep

(* The scan, and the plan it makes.                                        *)
LEMMA ScanStep ==
  ASSUME Inv, NEW byName \in BOOLEAN, NEW merge \in BOOLEAN, Scan(byName, merge)
  PROVE  Inv'
<1>1. /\ pc = "scan" /\ archives' = Archives /\ junk' = {i \in Disks : metadata[i] = "torn"}
      /\ complete' = isComplete(byName) /\ merged' = {}
      /\ UNCHANGED <<entry, data, metadata, format, base, written, need, recorded, expired, lost, next, chain, faults>>
      /\ UNCHANGED backupVars
  BY DEF Scan, backupVars
<1>2. /\ archives = {} /\ todo = {} /\ chain = {} /\ resumes = {} /\ merges = {} /\ complete = {} /\ junk = {}
  BY <1>1 DEF Inv, Memory, Backing
<1>3. Going = {} /\ pc \notin {"state", "unlink", "link", "alias", "torn"} \cup Writing
  BY <1>1 DEF Going, Writing
<1>4. Settled /\ Alive = Present /\ Resumable
  BY <1>1, <1>3, AtRest, CanResume
<1>5. \A i \in Disks : metadata[i] # "torn"
  BY <1>1, NotTorn
<1>6. Archives = Listed /\ Listed \subseteq Present
  <2>1. metadata \in [Disks -> {"absent", "torn", "ok"}]
    BY DEF Inv, Typed
  <2>2. Archives = Listed
    BY <1>2, <1>5, <2>1 DEF Archives, Listed
  <2>3. Listed \subseteq Present
    BY <1>1 DEF Inv, Books
  <2> QED BY <2>2, <2>3
<1>7. complete' = archives' /\ junk' = {}
  BY <1>1, <1>4, <1>5, <1>6, ScanComplete
<1>8. Listed' = Listed
  BY <1>1, <1>2, <1>6 DEF Listed
<1>9. \A i \in recorded \ expired : metadata'[i] # "absent"
  BY <1>1 DEF Inv, Books
<1>10. metadata' \in [Disks -> {"absent", "torn", "ok"}]
  BY <1>1 DEF Inv, Typed
<1>11. CASE Archives = {}
  <2>1. /\ pc' = "archives" /\ todo' = {} /\ registered' = {} /\ resumes' = {} /\ merges' = {}
        /\ UNCHANGED mergeState
    BY <1>11 DEF Scan
  <2>2. UNCHANGED <<entry, data, mergeState, backupVars, archives, complete, junk, faults>>
    BY <1>1, <1>2, <1>7, <1>11, <2>1
  <2>3. pc' \notin {"delete", "alias", "merge", "collect"} \cup Writing \cup Working
    BY <2>1 DEF Writing, Working
  <2>4. Plan'
    BY <2>1, <2>3, QuietPlan
  <2>5. Memory'
    BY <1>1, <1>2, <1>7, <1>11, <2>1 DEF Inv, Memory, Backing, Writing, Steps
  <2>6. \A i \in Disks : metadata'[i] # "torn"
    BY <1>1, <1>5
  <2> QED BY <1>3, <1>8, <1>9, <1>10, <2>2, <2>3, <2>4, <2>5, <2>6, QuietInv
<1>12. CASE Archives # {}
  <2> DEFINE T == toDelete(byName)
             R == Resumed(byName)
             D == Dropped(byName)
             V == Visited(byName)
             M == toMerge(byName)
  <2>1. /\ pc' = "delete" /\ registered' = Present /\ todo' = T
        /\ resumes' = IF merge THEN {Survivors(p) : p \in R} ELSE {}
        /\ merges' = IF merge THEN M ELSE {}
        /\ mergeState' = [p \in Disks |-> IF p \in D THEN NoMerge ELSE mergeState[p]]
    BY <1>12 DEF Scan
  <2>2. /\ R \subseteq Half /\ D = Interrupted \ R
        /\ \A h \in R : Survivors(h) = mergeState[h].chain
    BY <1>4, ScanMerges
  <2>3. /\ T \subseteq Orphans /\ T \cap V = {}
        /\ \A q \in Disks : par(q) \in T => q \in T
        /\ \A h \in Half \ R : mergeState[h].chain \subseteq T
    BY <1>4, ScanDeletes
  <2>4. \A h \in R : mergeState[h].chain \subseteq V
    BY <1>4, ScanVisited
  <2>5. /\ \A c \in M :
               /\ c \subseteq Present
               /\ \A q \in c \ {Min(c)} : par(q) \in c
               /\ \A q \in c \ {Max(c)} : \E r \in c : par(r) = q
               /\ \E q, r \in c : q # r
               /\ c \ {Max(c)} \subseteq Orphans
               /\ c \cap T = {}
               /\ c \cap V = {}
        /\ \A c, d \in M : c # d => c \cap d = {}
    BY <1>4, ScanNewMerges
  <2> HIDE DEF T, R, D, V, M
  <2>6. Orphans \cap Listed = {} /\ Orphans \subseteq Present
    BY <1>6 DEF Orphans
  <2>7. /\ Present' = Present /\ \A p : disk(p)' = disk(p)
    BY <1>1 DEF Present, disk
  <2>8. /\ Going' = T /\ Fading' = {} /\ Alive' = Present \ T /\ pc' \notin Working \cup Backing \cup {"collect", "archives"}
    BY <2>1, <2>7 DEF Going, Fading, Alive, Working, Backing
  <2>9. /\ Interrupted \subseteq Disks /\ Half \subseteq Interrupted /\ Half \subseteq Present
        /\ \A h, k \in Half : h = k
    BY DEF Interrupted, Half, Inv, Merging
  <2>10. Interrupted' = R /\ Half' = R /\ \A h \in R : mergeState'[h] = mergeState[h]
    <3>1. Interrupted' = R
      BY <2>1, <2>2, <2>9 DEF Interrupted, NoMerge
    <3>2. \A h \in R : mergeState'[h] = mergeState[h]
      BY <2>1, <2>2, <2>9
    <3> QED BY <2>2, <2>7, <2>9, <3>1, <3>2 DEF Half
  <2>11. Typed'
    <3>1. NoMerge \in [step : {"absent", "mergeBlocks", "cleanup"}, chain : SUBSET Disks]
      BY DEF NoMerge
    <3>2. mergeState' \in [Disks -> [step : {"absent", "mergeBlocks", "cleanup"}, chain : SUBSET Disks]]
      BY <2>1, <3>1 DEF Inv, Typed
    <3> QED BY <1>1, <3>2 DEF Inv, Typed
  <2>12. Present \subseteq 1 .. written /\ written \in 0 .. NDisks /\ Present \subseteq Disks
    <3>1. written \in 0 .. NDisks /\ base \in 0 .. written /\ \A p \in Present : p <= base
      BY <1>3 DEF Inv, History
    <3>2. ASSUME NEW p \in Present PROVE p \in 1 .. written
      <4>1. p \in 1 .. NDisks /\ p <= base
        BY <3>1, PresentDisks
      <4> QED BY <3>1, <4>1
    <3> QED BY <3>1, <3>2, PresentDisks
  <2>13. ASSUME NEW h \in R
         PROVE  LET c == mergeState[h].chain
                IN  /\ IsChain(c) /\ Min(c) = h
                    /\ Inner(c) \cap Listed = {}
                    /\ mergeState[h].step = "mergeBlocks" /\ Linked(c) /\ c \cap T = {}
                    /\ \A q \in Present \ c : disk(q).parent \notin Inner(c)
                    /\ \A x \in Disks : x \in need[Max(c)] <=>
                          \/ \E q \in c \cap Present : x \in disk(q).holds
                          \/ x \in Needed(disk(h).parent)
    <3>1. mergeState[h].chain \cap T = {}
      BY <2>3, <2>4
    <3>2. MergeSound(h)
      BY <2>2 DEF Inv, Merging
    <3> QED BY <1>1, <3>1, <3>2 DEF MergeSound
  <2>14. ASSUME NEW c PROVE (Linked(c)' <=> Linked(c)) /\ (IsChain(c)' <=> IsChain(c))
    BY <1>1, <2>7 DEF Linked, IsChain
  <2>15. Memory'
    <3>1. M \subseteq SUBSET Disks /\ T \subseteq Disks
      BY <2>3, <2>5, <2>6, <2>12
    <3>2. \A p \in R : Survivors(p) \subseteq Disks
      BY <2>12 DEF Survivors
    <3>3. resumes' \subseteq SUBSET Disks
      BY <2>1, <3>2
    <3>4. archives' \subseteq Disks
      BY <1>1 DEF Archives
    <3>5. chain' = {}
      BY <1>1, <1>2
    <3>6. merges' \subseteq SUBSET Disks
      BY <2>1, <3>1
    <3>7. pc' \in Steps \ {"update"}
      BY <2>1 DEF Steps
    <3> QED BY <1>1, <1>3, <1>7, <2>1, <2>8, <2>12, <3>1, <3>3, <3>4, <3>5, <3>6, <3>7 DEF Inv, Memory
  <2>16. History'
    BY <1>1, <1>3, <2>1, <2>7 DEF Inv, History, Writing
  <2>17. Claims'
    <3>1. T \subseteq Present'
      BY <2>3, <2>6, <2>7
    <3>2. registered' = Present' /\ Going' \subseteq Present'
      BY <2>1, <2>7, <2>8, <3>1
    <3> QED BY <1>1, <2>7, <3>2 DEF Inv, Claims
  <2>18. Readable'
    BY <1>1, <1>4, <2>1, <2>7, <2>8 DEF Inv, Readable
  <2>19. Ancestry'
    <3> SUFFICES ASSUME NEW p \in Present, p \notin T
                 PROVE  disk(p).parent = None \/ disk(p).parent \in Present \ T
      BY <2>7, <2>8 DEF Ancestry
    <3>1. disk(p).parent = None \/ disk(p).parent \in Present
      BY <1>1, <1>4 DEF Inv, Ancestry
    <3>2. par(p) = disk(p).parent
      BY DEF par
    <3>3. disk(p).parent \notin T
      BY <2>3, <2>12, <3>2
    <3> QED BY <3>1, <3>3
  <2>20. Draft'
    BY <2>1 DEF Draft
  <2>21. Sound'
    <3> SUFFICES ASSUME NEW p \in Present, p \notin T
                 PROVE  \/ need[p] = disk(p).holds \cup Needed(disk(p).parent)
                        \/ \E h \in R : p \in mergeState[h].chain
      BY <1>1, <2>7, <2>8, <2>10 DEF Sound, Needed
    <3>1. \/ need[p] = disk(p).holds \cup Needed(disk(p).parent)
          \/ \E h \in Half : p \in mergeState[h].chain
      BY <1>4 DEF Inv, Sound
    <3> QED BY <2>3, <3>1
  <2>22. ASSUME NEW h \in Half' PROVE MergeSound(h)'
    <3>1. PICK c : c = mergeState[h].chain
      OBVIOUS
    <3>2. h \in R
      BY <2>10
    <3>3. /\ IsChain(c) /\ Min(c) = h
          /\ Inner(c) \cap Listed = {}
          /\ mergeState[h].step = "mergeBlocks" /\ Linked(c) /\ c \cap T = {}
          /\ \A q \in Present \ c : disk(q).parent \notin Inner(c)
          /\ \A x \in Disks : x \in need[Max(c)] <=>
                          \/ \E q \in c \cap Present : x \in disk(q).holds
                          \/ x \in Needed(disk(h).parent)
      BY <2>13, <3>1, <3>2
    <3>4. mergeState'[h] = mergeState[h] /\ mergeState'[h].chain = c
      BY <2>10, <3>1, <3>2
    <3>5. \A x \in Disks : x \in need'[Max(c)] <=>
              \/ \E q \in c \cap Present' : x \in disk(q)'.holds
              \/ x \in Needed(disk(h).parent)'
      BY <1>1, <2>7, <3>3 DEF Needed
    <3>6. IsChain(c)' /\ Linked(c)'
      BY <2>14, <3>3
    <3> QED BY <1>8, <2>1, <2>7, <2>8, <3>3, <3>4, <3>5, <3>6 DEF MergeSound, Inner
  <2>23. Merging'
    <3>1. R \subseteq 1 .. written
      BY <2>2, <2>9, <2>12
    <3> QED BY <1>1, <2>1, <2>2, <2>9, <2>10, <2>22, <3>1 DEF Merging
  <2>24. AtWork'
    BY <2>1, <2>8 DEF AtWork, Working
  <2>25. Plan'
    <3>1. \A c \in resumes' : \E h \in R : c = mergeState[h].chain
      BY <2>1, <2>2
    <3>2. merges' \subseteq M
      BY <2>1
    <3>3. Planned' = resumes' \cup merges'
      BY <2>8 DEF Planned
    <3>4. ASSUME NEW c \in resumes'
          PROVE  IsChain(c) /\ Linked(c) /\ c \cap T = {} /\ Inner(c) \cap Listed = {} /\ c \subseteq V /\ c # {}
      <4>1. PICK h \in R : c = mergeState[h].chain
        BY <3>1
      <4>2. IsChain(c) /\ Linked(c) /\ c \cap T = {} /\ Inner(c) \cap Listed = {}
        BY <2>13, <4>1
      <4> QED BY <2>4, <4>1, <4>2 DEF IsChain
    <3>5. ASSUME NEW c \in merges'
          PROVE  IsChain(c) /\ Linked(c) /\ c \cap T = {} /\ Inner(c) \cap Listed = {} /\ c \cap V = {}
      <4>1. /\ c \subseteq Present
            /\ \A q \in c \ {Min(c)} : par(q) \in c
            /\ \A q \in c \ {Max(c)} : \E r \in c : par(r) = q
            /\ \E q, r \in c : q # r
            /\ c \ {Max(c)} \subseteq Orphans
            /\ c \cap T = {}
            /\ c \cap V = {}
        BY <2>5, <3>2
      <4>2. \A q \in c : par(q) = disk(q).parent
        BY <4>1 DEF par
      <4>3. IsChain(c)
        BY <2>12, <4>1 DEF IsChain
      <4>4. Linked(c)
        BY <4>1, <4>2 DEF Linked
      <4> QED BY <2>6, <4>1, <4>3, <4>4 DEF Inner
    <3>6. ASSUME NEW c \in resumes' \cup merges', NEW d \in resumes' \cup merges', c # d
          PROVE  c \cap d = {}
      <4>1. CASE c \in resumes' /\ d \in resumes'
        BY <2>2, <2>9, <3>1, <3>6, <4>1
      <4>2. CASE c \in merges' /\ d \in merges'
        BY <2>5, <3>2, <3>6, <4>2
      <4>3. CASE c \in resumes' /\ d \in merges'
        BY <3>4, <3>5, <4>3
      <4>4. CASE c \in merges' /\ d \in resumes'
        BY <3>4, <3>5, <4>4
      <4> QED BY <4>1, <4>2, <4>3, <4>4
    <3>7. resumes' \cap merges' = {}
      BY <3>4, <3>5
    <3>8. \A c \in resumes' : \E h \in Half' : c = mergeState'[h].chain
      BY <2>10, <3>1
    <3>9. \A c \in merges', h \in Half' : c \cap mergeState'[h].chain = {}
      BY <2>4, <2>10, <3>5
    <3>10. Half' # {} /\ resumes' = {} => merges' = {}
      BY <2>1, <2>10
    <3>11. \A c \in Planned' : IsChain(c)' /\ Linked(c)' /\ c \cap Going' = {} /\ Inner(c) \cap Listed' = {}
      BY <1>8, <2>8, <2>14, <3>3, <3>4, <3>5
    <3> QED BY <2>1, <2>8, <3>6, <3>7, <3>8, <3>9, <3>10, <3>11 DEF Plan, Inner, Working
  <2>26. Books'
    <3>1. \A i \in Listed' : i \in Present'
      BY <1>6, <1>8, <2>7
    <3>2. Listed' \cap Going' = {}
      BY <1>8, <2>3, <2>6, <2>8
    <3>3. \A i \in Disks : metadata'[i] # "torn"
      BY <1>1, <1>5
    <3> QED BY <1>1, <1>9, <2>1, <3>1, <3>2, <3>3 DEF Books
  <2>27. LinearChain'
    BY <1>1, <2>7 DEF Inv, LinearChain
  <2> QED BY <2>11, <2>15, <2>16, <2>17, <2>18, <2>19, <2>20, <2>21, <2>23, <2>24, <2>25, <2>26, <2>27 DEF Inv
<1> QED BY <1>11, <1>12

LEMMA NoDataType ==
  /\ NoData \in [exists : BOOLEAN, uuid : Disks \cup {None},
                 parent : Disks \cup {None}, bat : SUBSET Disks, holds : SUBSET Disks]
  /\ NoData.exists = FALSE /\ NoData.parent = None /\ \A d \in Disks : NoData.parent < d
BY ConstantsAssumption DEF NoData, None, Disks

(* The deletion of the disks no backup uses.                               *)
LEMMA DeleteStep ==
  ASSUME Inv, NEW p \in Disks, DeleteData(p) \/ DeletePath(p)
  PROVE  Inv'
<1>1. /\ pc = "delete" /\ p \in todo /\ pc' = "delete"
      /\ UNCHANGED <<mergeState, metadata, archives, complete, junk, resumes, merges, merged, backupVars, next, chain, faults>>
      /\ UNCHANGED <<format, base, written, need, recorded, expired, lost>>
      /\ data' = [data EXCEPT ![entry[p]] = NoData]
  BY DEF DeleteData, DeletePath, planVars, backupVars
<1>2. \/ UNCHANGED <<entry, registered, todo>>
      \/ /\ entry' = [entry EXCEPT ![p] = None] /\ todo' = todo \ {p} /\ registered' = registered \ {p}
  BY DEF DeleteData, DeletePath, planVars
<1>3. Going = todo /\ Going' = todo' /\ Fading = {} /\ Fading' = {} /\ p \in Present
  BY <1>1 DEF Going, Fading, Inv, Claims
<1>4. /\ entry \in [Disks -> Disks \cup {None}]
      /\ data \in [Disks -> [exists : BOOLEAN, uuid : Disks \cup {None},
                           parent : Disks \cup {None}, bat : SUBSET Disks,
                           holds : SUBSET Disks]]
      /\ \A d \in Disks : data[d].parent < d
  BY DEF Inv, Typed
<1>5. \A q \in Present : entry[q] \in Disks
  BY Order DEF Inv
<1>6. \A q \in Present : q # p => entry[q] # entry[p]
  BY <1>1, <1>3 DEF Inv, Claims
<1>7. /\ \/ Present' = Present /\ todo' = todo
         \/ Present' = Present \ {p} /\ todo' = todo \ {p}
      /\ \A q \in Present' : entry'[q] = entry[q]
  BY <1>2, <1>4 DEF Present, None
<1>8. /\ \A q \in Present' : q # p => disk(q)' = disk(q)
      /\ p \in Present' => disk(p)' = NoData
  <2>1. \A q \in Present' : data'[entry'[q]] = data'[entry[q]]
    BY <1>7
  <2>2. \A q \in Present : q # p => data'[entry[q]] = data[entry[q]]
    BY <1>1, <1>4, <1>5, <1>6
  <2>3. data'[entry[p]] = NoData
    BY <1>1, <1>3, <1>4, <1>5
  <2> QED BY <1>7, <2>1, <2>2, <2>3 DEF disk
<1>9. Alive' = Alive /\ p \notin Alive /\ Alive \subseteq Present /\ Alive \subseteq Present'
  BY <1>1, <1>3, <1>7 DEF Alive
<1>10. \A q \in Alive : disk(q)' = disk(q)
  BY <1>8, <1>9
<1>11. Interrupted' = Interrupted /\ Listed' = Listed
  BY <1>1 DEF Interrupted, Listed
<1>12. ASSUME NEW h \in Half
       PROVE  LET c == mergeState[h].chain
              IN  /\ c \subseteq Present /\ p \notin c /\ h \in c /\ h # p /\ Inner(c) \subseteq Disks
  <2> DEFINE c == mergeState[h].chain
  <2>1. IsChain(c) /\ Min(c) = h /\ Linked(c) /\ c \cap Going = {}
    BY <1>1 DEF Inv, Merging, MergeSound
  <2>2. written \in 0 .. NDisks
    BY DEF Inv, History
  <2> HIDE DEF c
  <2>3. h \in c /\ Inner(c) \subseteq Disks
    BY <2>1, <2>2, ChainFacts DEF IsChain
  <2> QED BY <1>1, <1>3, <2>1, <2>3 DEF Linked, c
<1>13. Half' = Half
  BY <1>7, <1>11, <1>12 DEF Half
<1>14. Typed'
  <2>1. data' \in [Disks -> [exists : BOOLEAN, uuid : Disks \cup {None},
                           parent : Disks \cup {None}, bat : SUBSET Disks,
                           holds : SUBSET Disks]]
    BY <1>1, <1>4, NoDataType
  <2>2. \A d \in Disks : data'[d] = data[d] \/ data'[d] = NoData
    BY <1>1, <1>4
  <2>3. \A d \in Disks : data'[d].parent < d
    BY <1>4, <2>2, NoDataType
  <2>4. entry' \in [Disks -> Disks \cup {None}]
    BY <1>2, <1>4
  <2> QED BY <1>1, <2>1, <2>3, <2>4 DEF Inv, Typed
<1>15. Memory'
  BY <1>1, <1>2 DEF Inv, Memory
<1>16. History'
  BY <1>1, <1>7 DEF Inv, History, Writing
<1>17. Claims'
  <2>1. Present' \subseteq registered'
    BY <1>1, <1>2, <1>4, <1>7 DEF Inv, Claims, Present, None
  <2>2. Going' \subseteq Present'
    BY <1>1, <1>3, <1>7 DEF Inv, Claims
  <2> QED BY <1>1, <1>7, <2>1, <2>2 DEF Inv, Claims
<1>18. Readable'
  <2> SUFFICES ASSUME NEW q \in Present'
               PROVE  /\ q \in Alive => disk(q)'.exists
                      /\ disk(q)'.exists => disk(q)'.uuid = q
    BY <1>1, <1>9 DEF Readable
  <2>1. CASE q = p
    BY <1>8, <1>9, <2>1, NoDataType
  <2>2. CASE q # p
    BY <1>1, <1>7, <1>8, <2>2 DEF Inv, Readable
  <2> QED BY <2>1, <2>2
<1>19. Ancestry'
  BY <1>1, <1>9, <1>10 DEF Inv, Ancestry
<1>20. Draft'
  BY <1>1 DEF Draft
<1>21. Sound'
  BY <1>1, <1>9, <1>10, <1>13 DEF Inv, Sound, Needed
<1>22. ASSUME NEW c, c \subseteq Present, p \notin c
       PROVE  /\ c \subseteq Present' /\ (Linked(c) => Linked(c)') /\ \A q \in c : disk(q)' = disk(q)
  <2>1. c \subseteq Present' /\ \A q \in c : disk(q)' = disk(q)
    BY <1>7, <1>8, <1>22
  <2> QED BY <2>1 DEF Linked
<1>23. ASSUME NEW h \in Half' PROVE MergeSound(h)'
  <2>1. PICK c : c = mergeState[h].chain
    OBVIOUS
  <2>2. h \in Half
    BY <1>13
  <2>3. /\ IsChain(c) /\ Min(c) = h
        /\ Inner(c) \cap Listed = {}
        /\ mergeState[h].step = "mergeBlocks" /\ Linked(c) /\ c \cap Going = {}
        /\ \A q \in Present \ c : disk(q).parent \notin Inner(c)
        /\ \A x \in Disks : x \in need[Max(c)] <=>
              \/ \E q \in c \cap Present : x \in disk(q).holds
              \/ x \in Needed(disk(h).parent)
    BY <1>1, <2>1, <2>2 DEF Inv, Merging, MergeSound
  <2>4. mergeState'[h] = mergeState[h] /\ mergeState'[h].chain = c
    BY <1>1, <2>1
  <2>5. c \subseteq Present /\ p \notin c /\ h \in c /\ h # p /\ Inner(c) \subseteq Disks
    BY <1>12, <2>1, <2>2
  <2>6. c \subseteq Present' /\ Linked(c)' /\ \A q \in c : disk(q)' = disk(q)
    BY <1>22, <2>3, <2>5
  <2>7. \A x \in Disks : x \in need'[Max(c)] <=>
              \/ \E q \in c \cap Present' : x \in disk(q)'.holds
              \/ x \in Needed(disk(h).parent)'
    <3>1. c \cap Present = c /\ c \cap Present' = c
      BY <2>5, <2>6
    <3>2. disk(h)' = disk(h)
      BY <2>5, <2>6
    <3>3. Needed(disk(h).parent)' = Needed(disk(h).parent)
      BY <1>1, <3>2 DEF Needed
    <3> QED BY <1>1, <2>3, <2>6, <3>1, <3>3
  <2>8. \A q \in Present' \ c : disk(q)'.parent \notin Inner(c)
    <3> SUFFICES ASSUME NEW q \in Present' \ c PROVE disk(q)'.parent \notin Inner(c)
      OBVIOUS
    <3>1. CASE q = p
      BY <1>8, <2>5, <3>1, NoDataType, PresentDisks
    <3>2. CASE q # p
      BY <1>7, <1>8, <2>3, <3>2
    <3> QED BY <3>1, <3>2
  <2>9. IsChain(c)'
    BY <1>1, <2>3 DEF IsChain
  <2>10. c \cap Going' = {}
    BY <1>2, <1>3, <2>3
  <2> QED BY <1>1, <1>11, <2>3, <2>4, <2>6, <2>7, <2>8, <2>9, <2>10 DEF MergeSound, Inner
<1>24. Merging'
  BY <1>1, <1>11, <1>13, <1>23 DEF Inv, Merging
<1>25. AtWork'
  BY <1>1 DEF AtWork, Working
<1>26. Plan'
  <2>1. Planned = resumes \cup merges /\ Planned' = resumes \cup merges /\ pc' \notin Working
    BY <1>1 DEF Planned, Working
  <2>2. ASSUME NEW c \in Planned'
        PROVE  IsChain(c)' /\ Linked(c)' /\ c \cap Going' = {} /\ Inner(c) \cap Listed' = {}
    <3>1. IsChain(c) /\ Linked(c) /\ c \cap Going = {} /\ Inner(c) \cap Listed = {}
      BY <2>1 DEF Inv, Plan
    <3>2. c \subseteq Present /\ p \notin c
      BY <1>1, <1>3, <3>1 DEF Linked
    <3>3. Linked(c)'
      BY <1>22, <3>1, <3>2
    <3>4. IsChain(c)' /\ c \cap Going' = {}
      BY <1>1, <1>2, <1>3, <3>1 DEF IsChain
    <3> QED BY <1>11, <3>1, <3>3, <3>4
  <2> QED BY <1>1, <1>13, <2>1, <2>2 DEF Inv, Plan, Inner
<1>27. Books'
  <2>1. p \notin Listed
    BY <1>1, <1>3 DEF Inv, Books
  <2>2. \A i \in Listed' : i \in Present'
    BY <1>1, <1>7, <1>11, <2>1 DEF Inv, Books
  <2>3. Listed' \cap Going' = {}
    BY <1>2, <1>3, <1>11 DEF Inv, Books
  <2> QED BY <1>1, <2>2, <2>3 DEF Inv, Books
<1>28. LinearChain'
  <2> SUFFICES ASSUME NEW q \in Present', NEW r \in Present', entry'[q] # entry'[r],
                      disk(q)'.parent # None, disk(q)'.parent = disk(r)'.parent
               PROVE  FALSE
    BY DEF LinearChain
  <2>1. q # p /\ r # p
    BY <1>8, NoDataType
  <2>2. disk(q)' = disk(q) /\ disk(r)' = disk(r) /\ q \in Present /\ r \in Present /\ entry[q] # entry[r]
    BY <1>7, <1>8, <2>1
  <2> QED BY <2>2 DEF Inv, LinearChain
<1> QED BY <1>14, <1>15, <1>16, <1>17, <1>18, <1>19, <1>20, <1>21, <1>24, <1>25, <1>26, <1>27, <1>28 DEF Inv

(* The disks of a chain together hold what its youngest backup adds to the *)
(* disk below the chain.                                                   *)
LEMMA Summed ==
  ASSUME Inv, Half = {}, Alive = Present, NEW c, IsChain(c), Linked(c), NEW x \in Disks
  PROVE  x \in need[Max(c)] <=> \/ \E q \in c \cap Present : x \in disk(q).holds
                                \/ x \in Needed(disk(Min(c)).parent)
<1> DEFINE a == Min(c)
           b == Max(c)
           Held == (\E q \in c \cap Present : x \in disk(q).holds) \/ x \in Needed(disk(a).parent)
<1>1. written \in 0 .. NDisks
  BY DEF Inv, History
<1>2. /\ c \in SUBSET Disks /\ c # {} /\ a \in c /\ b \in c
      /\ \A q \in c : a <= q /\ q <= b
  BY <1>1, ChainFacts DEF IsChain
<1>3. /\ c \subseteq Present
      /\ \A q \in c \ {a} : disk(q).parent \in c
      /\ \A q \in c \ {b} : \E r \in c : disk(r).parent = q
  BY DEF Linked
<1>4. \A p \in Present : need[p] = disk(p).holds \cup Needed(disk(p).parent)
  BY DEF Inv, Sound
<1>5. \A q \in c : /\ q \in Nat /\ q \in 0 .. NDisks /\ q # None /\ disk(q).parent \in Nat /\ disk(q).parent < q
                   /\ disk(q).parent \in c => Needed(disk(q).parent) = need[disk(q).parent]
  <2> SUFFICES ASSUME NEW q \in c
               PROVE  /\ q \in Nat /\ q \in 0 .. NDisks /\ q # None /\ disk(q).parent \in Nat /\ disk(q).parent < q
                      /\ disk(q).parent \in c => Needed(disk(q).parent) = need[disk(q).parent]
    OBVIOUS
  <2>1. q \in 1 .. NDisks /\ NDisks \in Nat /\ q # None
    BY <1>2, PresentDisks, ConstantsAssumption
  <2>2. disk(q).parent \in 0 .. (q - 1)
    BY <1>3, Order DEF Inv
  <2>3. disk(q).parent \in c => disk(q).parent # None
    BY <1>2, PresentDisks
  <2>4. disk(q).parent \in c => Needed(disk(q).parent) = need[disk(q).parent]
    BY <2>3 DEF Needed
  <2> QED BY <2>1, <2>2, <2>4
<1> HIDE DEF a, b
<1>6. ASSUME x \in need[b], ~ Held PROVE FALSE
  <2> DEFINE Bad == {q \in c : x \in need[q]}
  <2>1. Bad \in SUBSET Nat /\ Bad # {}
    BY <1>2, <1>5, <1>6
  <2>2. PICK m \in Bad : \A y \in Bad : m <= y
    <3> HIDE DEF Bad
    <3> QED BY <2>1, Least
  <2>3. m \in c /\ x \in need[m] /\ m \in Present
    BY <1>3, <2>2
  <2>4. x \in Needed(disk(m).parent)
    BY <1>4, <1>6, <2>3
  <2>5. m # a
    BY <1>6, <2>4
  <2>6. disk(m).parent \in c
    BY <1>3, <2>3, <2>5
  <2>7. disk(m).parent \in Bad
    BY <1>5, <2>3, <2>4, <2>6
  <2>8. m <= disk(m).parent
    <3> HIDE DEF Bad
    <3> QED BY <2>2, <2>7
  <2>9. disk(m).parent \in Nat /\ disk(m).parent < m /\ m \in Nat
    BY <1>5, <2>3
  <2> QED BY <2>8, <2>9
<1>7. ASSUME Held, x \notin need[b] PROVE FALSE
  <2> DEFINE Up == {q \in c : x \in need[q]}
  <2>1. Up # {}
    <3>1. CASE \E q \in c \cap Present : x \in disk(q).holds
      BY <1>4, <3>1
    <3>2. CASE x \in Needed(disk(a).parent)
      BY <1>2, <1>3, <1>4, <3>2
    <3> QED BY <1>7, <3>1, <3>2
  <2>2. Up \in SUBSET (0 .. NDisks) /\ NDisks \in Nat
    BY <1>5, ConstantsAssumption
  <2>3. PICK m \in Up : \A y \in Up : y <= m
    <3> HIDE DEF Up
    <3> QED BY <2>1, <2>2, Greatest
  <2>4. m \in c /\ x \in need[m] /\ m # b
    BY <1>7, <2>3
  <2>5. PICK r \in c : disk(r).parent = m
    BY <1>3, <2>4
  <2>6. x \in need[r]
    <3>1. Needed(disk(r).parent) = need[m]
      BY <1>5, <2>4, <2>5
    <3> QED BY <1>3, <1>4, <2>4, <3>1
  <2>7. r \in Up
    BY <2>6
  <2>8. r <= m
    <3> HIDE DEF Up
    <3> QED BY <2>3, <2>7
  <2>9. m < r /\ m \in Nat /\ r \in Nat
    BY <1>5, <2>4, <2>5
  <2> QED BY <2>8, <2>9
<1>8. x \in need[b] <=> Held
  BY <1>6, <1>7
<1> QED BY <1>8 DEF a, b

(* The start of a merge.                                                   *)
LEMMA StartMergeStep ==
  ASSUME Inv, NEW c \in resumes \cup merges, StartMerge(c)
  PROVE  Inv'
<1>1. /\ pc = "merge" /\ c \in IF resumes # {} THEN resumes ELSE merges
      /\ UNCHANGED <<entry, data, metadata, backupVars, faults>>
      /\ UNCHANGED <<format, base, written, need, recorded, expired, lost>>
  BY DEF StartMerge, backupVars
<1>2. Going = {} /\ Fading = {} /\ pc \notin {"state", "unlink", "link", "alias"} \cup Writing
  BY <1>1 DEF Going, Fading, Writing
<1>3. CASE ~ openDiskChain(c)
  <2>1. Leave(next) /\ UNCHANGED mergeState
    BY <1>3 DEF StartMerge
  <2>2. UNCHANGED <<remoteVars, backupVars>> /\ faults' \in 0 .. MaxFaults
    BY <1>1, <2>1 DEF remoteVars, Inv, Typed
  <2>3. next \in {"idle", "scan", "transfer"} /\ (next = "transfer" => next = "transfer" /\ pc # "alias")
    BY <1>1 DEF Inv, Memory
  <2>4. \A i \in Disks : metadata[i] # "torn"
    BY <1>1, NotTorn
  <2> QED BY <1>2, <2>1, <2>2, <2>3, <2>4, LeaveStep
<1>4. CASE openDiskChain(c)
  <2>1. /\ chain' = c
        /\ pc' = IF mergeState[Min(c)].step = "cleanup" THEN "state" ELSE "blocks"
        /\ mergeState' = [mergeState EXCEPT ![Min(c)] =
                             IF @.step = "absent" THEN [step |-> "mergeBlocks", chain |-> c] ELSE @]
        /\ UNCHANGED <<registered, archives, complete, junk, resumes, merges, merged, next, todo>>
    BY <1>4 DEF StartMerge, planVars
  <2>2. IsChain(c) /\ Linked(c) /\ Inner(c) \cap Listed = {}
    BY <1>1 DEF Inv, Plan, Planned, Working
  <2>3. written \in 0 .. NDisks
    BY DEF Inv, History
  <2>4. PICK h : h = Min(c)
    OBVIOUS
  <2>5. /\ c \in SUBSET Disks /\ c # {} /\ h \in c /\ h \in Disks /\ Max(c) \in c
        /\ Inner(c) \subseteq c /\ h \in Present /\ c \subseteq Present
    BY <2>2, <2>3, <2>4, ChainFacts DEF IsChain, Linked
  <2>6. Alive = Present /\ Settled
    BY <1>2, AtRest
  <2>7. /\ mergeState \in [Disks -> [step : {"absent", "mergeBlocks", "cleanup"}, chain : SUBSET Disks]]
    BY DEF Inv, Typed
  <2>8. /\ Half \subseteq {h} /\ pc' = "blocks" /\ mergeState'[h] = [step |-> "mergeBlocks", chain |-> c]
        /\ mergeState' \in [Disks -> [step : {"absent", "mergeBlocks", "cleanup"}, chain : SUBSET Disks]]
        /\ \A k \in Disks : k # h => mergeState'[k] = mergeState[k]
        /\ \A x \in Disks : x \in need[Max(c)] <=> \/ \E q \in c \cap Present : x \in disk(q).holds
                                                   \/ x \in Needed(disk(h).parent)
        /\ \A k \in Half : mergeState[k].chain = c
        /\ \A q \in Present \ c : disk(q).parent \notin Inner(c)
        /\ resumes \subseteq {c}
        /\ resumes # {} => Half = {h}
    <3>1. CASE resumes # {}
      <4>1. PICK k \in Half : c = mergeState[k].chain
        BY <1>1, <3>1 DEF Inv, Plan
      <4>2. MergeSound(k) /\ \A j \in Half : j = k
        BY DEF Inv, Merging
      <4>3. /\ h = k /\ mergeState[k].step = "mergeBlocks"
            /\ \A x \in Disks : x \in need[Max(c)] <=> \/ \E q \in c \cap Present : x \in disk(q).holds
                                                       \/ x \in Needed(disk(k).parent)
            /\ \A q \in Present \ c : disk(q).parent \notin Inner(c)
        BY <1>1, <2>4, <4>1, <4>2 DEF MergeSound
      <4>4. mergeState' = mergeState /\ pc' = "blocks"
        BY <2>1, <2>4, <2>5, <2>7, <4>3
      <4>5. mergeState[h] = [step |-> "mergeBlocks", chain |-> c]
        BY <2>5, <2>7, <4>1, <4>3
      <4>6. resumes \subseteq {c}
        BY <1>1, <4>1, <4>2 DEF Inv, Plan
      <4> QED BY <2>7, <4>1, <4>2, <4>3, <4>4, <4>5, <4>6
    <3>2. CASE resumes = {}
      <4>1. Half = {}
        BY <1>1, <3>2 DEF Inv, Plan
      <4>2. mergeState[h].step = "absent"
        BY <2>5, <4>1 DEF Half, Interrupted
      <4>3. pc' = "blocks" /\ mergeState' = [mergeState EXCEPT ![h] = [step |-> "mergeBlocks", chain |-> c]]
        BY <2>1, <2>4, <2>5, <2>7, <4>2
      <4>4. mergeState' \in [Disks -> [step : {"absent", "mergeBlocks", "cleanup"}, chain : SUBSET Disks]]
        BY <2>5, <2>7, <4>3
      <4>5. mergeState'[h] = [step |-> "mergeBlocks", chain |-> c] /\ \A k \in Disks : k # h => mergeState'[k] = mergeState[k]
        BY <2>5, <2>7, <4>3
      <4>6. \A x \in Disks : x \in need[Max(c)] <=> \/ \E q \in c \cap Present : x \in disk(q).holds
                                                    \/ x \in Needed(disk(h).parent)
        BY <2>2, <2>4, <2>6, <4>1, Summed
      <4>7. ASSUME NEW q \in Present \ c, disk(q).parent \in Inner(c) PROVE FALSE
        <5>1. disk(q).parent \in c \ {Max(c)}
          BY <4>7 DEF Inner
        <5>2. PICK r \in c : disk(r).parent = disk(q).parent
          BY <2>2, <5>1 DEF Linked
        <5>3. disk(q).parent # None
          BY <2>5, <5>1, PresentDisks
        <5>4. r = q
          BY <2>5, <2>6, <5>2, <5>3 DEF Settled
        <5> QED BY <5>4
      <4> QED BY <3>2, <4>1, <4>3, <4>4, <4>5, <4>6, <4>7
    <3> QED BY <3>1, <3>2
  <2>9. /\ Present' = Present /\ \A p : disk(p)' = disk(p)
    BY <1>1 DEF Present, disk
  <2>10. /\ Going' = {} /\ Fading' = {} /\ Alive' = Present /\ Listed' = Listed /\ Parent' = h /\ Target' = Max(c)
    BY <1>1, <2>1, <2>4, <2>8, <2>9 DEF Going, Fading, Alive, Listed, Parent, Target
  <2>11. Interrupted' = Interrupted \cup {h} /\ Half' = {h}
    <3>1. Interrupted' = Interrupted \cup {h}
      BY <2>5, <2>8 DEF Interrupted
    <3> QED BY <2>5, <2>8, <2>9, <3>1 DEF Half
  <2>12. Typed'
    BY <1>1, <2>8 DEF Inv, Typed
  <2>13. Memory'
    BY <1>1, <2>1, <2>5, <2>8 DEF Inv, Memory, Backing, Writing, Steps
  <2>14. History'
    BY <1>1, <1>2, <2>8, <2>9 DEF Inv, History, Writing
  <2>15. Claims'
    BY <1>1, <2>1, <2>8, <2>9, <2>10 DEF Inv, Claims
  <2>16. Readable'
    BY <1>1, <2>6, <2>8, <2>9, <2>10 DEF Inv, Readable
  <2>17. Ancestry'
    BY <1>1, <2>6, <2>9, <2>10 DEF Inv, Ancestry
  <2>18. Draft'
    BY <2>8 DEF Draft
  <2>19. Sound'
    <3> SUFFICES ASSUME NEW p \in Present
                 PROVE  \/ need[p] = disk(p).holds \cup Needed(disk(p).parent)
                        \/ \E k \in {h} : p \in mergeState'[k].chain
      BY <1>1, <2>9, <2>10, <2>11 DEF Sound, Needed
    <3>1. \/ need[p] = disk(p).holds \cup Needed(disk(p).parent)
          \/ \E k \in Half : p \in mergeState[k].chain
      BY <2>6 DEF Inv, Sound
    <3> QED BY <2>8, <3>1
  <2>20. IsChain(c)' /\ \A d : (Linked(d)' <=> Linked(d)) /\ (IsChain(d)' <=> IsChain(d))
    BY <1>1, <2>2, <2>9 DEF IsChain, Linked
  <2>21. ASSUME NEW k \in Half' PROVE MergeSound(k)'
    <3>1. k = h /\ mergeState'[k].chain = c /\ mergeState'[k].step = "mergeBlocks"
      BY <2>8, <2>11
    <3>2. \A x \in Disks : x \in need'[Max(c)] <=>
              \/ \E q \in c \cap Present' : x \in disk(q)'.holds
              \/ x \in Needed(disk(k).parent)'
      BY <1>1, <2>8, <2>9, <3>1 DEF Needed
    <3>3. Linked(c)' /\ Inner(c) \cap Listed' = {} /\ c \cap Going' = {} /\ Min(c) = k
      BY <2>2, <2>4, <2>10, <2>20, <3>1
    <3>4. \A q \in Present' \ c : disk(q)'.parent \notin Inner(c)
      BY <2>8, <2>9
    <3> QED BY <2>20, <3>1, <3>2, <3>3, <3>4 DEF MergeSound, Inner
  <2>22. Merging'
    <3>1. Interrupted' \subseteq 1 .. written'
      BY <1>1, <2>2, <2>5, <2>11 DEF Inv, Merging, IsChain
    <3> QED BY <2>8, <2>11, <2>21, <3>1 DEF Merging
  <2>23. AtWork'
    <3>1. IsChain(chain)' /\ chain' \subseteq registered'
      BY <1>1, <2>1, <2>5, <2>20 DEF Inv, Claims, IsChain
    <3>2. Parent' \in Half' /\ mergeState'[Parent'].chain = chain'
      BY <2>1, <2>8, <2>10, <2>11
    <3>3. chain' \subseteq 1 .. base'
      <4>1. \A p \in Present : p <= base /\ base \in Nat
        BY <1>2 DEF Inv, History
      <4>2. \A p \in Present : p \in 1 .. base
        BY <4>1, PresentDisks, ConstantsAssumption DEF Disks
      <4> QED BY <1>1, <2>1, <2>5, <4>2
    <3> QED BY <2>8, <3>1, <3>2, <3>3 DEF AtWork
  <2>24. Plan'
    <3>1. Planned = resumes \cup merges /\ Planned' = (resumes \cup merges) \ {c}
      BY <1>1, <2>1, <2>8 DEF Planned, Working
    <3>2. \A d \in Planned' : IsChain(d)' /\ Linked(d)' /\ d \cap Going' = {} /\ Inner(d) \cap Listed' = {}
      BY <2>10, <2>20, <3>1 DEF Inv, Plan
    <3>3. resumes' \subseteq {chain'} /\ (resumes' = {} => chain' \in merges')
      BY <1>1, <2>1, <2>8
    <3> QED BY <2>1, <2>8, <3>2, <3>3 DEF Inv, Plan, Inner
  <2>25. Books'
    BY <1>1, <2>1, <2>8, <2>9, <2>10 DEF Inv, Books
  <2>26. LinearChain'
    BY <1>1, <2>9 DEF Inv, LinearChain
  <2> QED BY <2>12, <2>13, <2>14, <2>15, <2>16, <2>17, <2>18, <2>19, <2>22, <2>23, <2>24, <2>25, <2>26 DEF Inv
<1> QED BY <1>3, <1>4

(* A step of a merge: what is not of its chain stays as it is.             *)
Merges ==
    /\ pc \in Working \ {"drop"} /\ pc' \in Working
    /\ UNCHANGED <<metadata, planVars, backupVars, next, todo, chain, faults>>
    /\ Present' \ chain = Present \ chain
    /\ \A q \in Present \ chain : entry'[q] = entry[q] /\ disk(q)' = disk(q)

LEMMA MergeStep ==
  ASSUME Inv, Merges
  PROVE  /\ Memory' /\ History' /\ Draft' /\ Plan' /\ Present' \subseteq registered'
         /\ Going = {} /\ Going' = {} /\ Listed' = Listed /\ Parent' = Parent /\ Target' = Target
         /\ UNCHANGED <<metadata, format, base, written, need, recorded, expired, lost, chain, faults>>
<1>1. /\ pc \in Working /\ pc' \in Working
      /\ UNCHANGED <<metadata, registered, archives, complete, junk, resumes, merges, merged,
                     format, base, written, need, recorded, expired, lost, next, todo, chain, faults>>
      /\ Present' \ chain = Present \ chain
      /\ \A q \in Present \ chain : entry'[q] = entry[q] /\ disk(q)' = disk(q)
  BY DEF Merges, planVars, backupVars
<1>2. /\ pc \notin Backing \cup {"delete", "merge", "collect", "archives", "alias"} \cup Writing
      /\ pc' \notin Backing \cup {"delete", "merge", "collect", "archives", "alias"} \cup Writing
  BY <1>1 DEF Working, Backing, Writing
<1>3. Going = {} /\ Going' = {} /\ Listed' = Listed /\ Parent' = Parent /\ Target' = Target
  BY <1>1, <1>2 DEF Going, Listed, Parent, Target
<1>4. chain \subseteq registered /\ chain \subseteq 1 .. base
  BY <1>1 DEF Inv, AtWork
<1>5. Present' \subseteq registered'
  BY <1>1, <1>4 DEF Inv, Claims
<1>6. Memory'
  <2>1. pc' \in Steps \ {"update"}
    BY <1>1 DEF Working, Steps
  <2> QED BY <1>1, <1>2, <2>1 DEF Inv, Memory, Backing
<1>7. History'
  <2>1. ASSUME NEW p \in Present' PROVE p <= base'
    <3>1. CASE p \in chain
      BY <1>1, <1>4, <3>1
    <3>2. CASE p \notin chain
      BY <1>1, <1>2, <3>2 DEF Inv, History
    <3> QED BY <3>1, <3>2
  <2> QED BY <1>1, <1>2, <2>1 DEF Inv, History
<1>8. Draft'
  BY <1>2 DEF Draft
<1>9. Plan'
  <2>1. Planned = (resumes \cup merges) \ {chain} /\ Planned' = Planned
    BY <1>1 DEF Planned
  <2>2. chain \in resumes \cup merges
    BY <1>1 DEF Inv, Plan
  <2>3. ASSUME NEW d \in Planned'
        PROVE  IsChain(d)' /\ Linked(d)' /\ d \cap Going' = {} /\ Inner(d) \cap Listed' = {}
    <3>1. IsChain(d) /\ Linked(d) /\ Inner(d) \cap Listed = {}
      BY <2>1 DEF Inv, Plan
    <3>2. d \cap chain = {}
      BY <2>1, <2>2 DEF Inv, Plan
    <3>3. d \subseteq Present' /\ \A q \in d : disk(q)' = disk(q)
      BY <1>1, <3>1, <3>2 DEF Linked
    <3>4. Linked(d)'
      BY <3>1, <3>3 DEF Linked
    <3>5. IsChain(d)'
      BY <1>1, <3>1 DEF IsChain
    <3> QED BY <1>3, <3>1, <3>4, <3>5
  <2> QED BY <1>1, <1>2, <2>3 DEF Inv, Plan, Inner
<1> QED BY <1>1, <1>3, <1>5, <1>6, <1>7, <1>8, <1>9

(* What is known of the merge under way.                                   *)
LEMMA WorkFacts ==
  ASSUME Inv, pc \in Working \ {"drop"}
  PROVE  /\ IsChain(chain) /\ chain \in SUBSET Disks /\ chain # {}
         /\ Parent \in chain /\ Target \in chain /\ Parent \in Disks /\ Target \in Disks /\ Parent # Target
         /\ Parent \in Inner(chain) /\ Inner(chain) = chain \ {Target}
         /\ Parent \in Present /\ Half = {Parent} /\ mergeState[Parent].chain = chain
         /\ Inner(chain) \cap Listed = {}
         /\ \A q \in Present \ chain : disk(q).parent \notin Inner(chain)
         /\ \A x \in Disks : x \in need[Target] <=>
              \/ \E q \in chain \cap Present : x \in disk(q).holds
              \/ x \in Needed(disk(Parent).parent)
         /\ \A q \in chain : Parent <= q /\ q <= Target
         /\ disk(Parent).parent \notin chain
         /\ pc \notin {"unlink", "link"} => mergeState[Parent].step = "mergeBlocks" /\ Linked(chain)
<1>1. IsChain(chain) /\ Parent \in Half /\ mergeState[Parent].chain = chain
  BY DEF Inv, AtWork
<1>2. written \in 0 .. NDisks
  BY DEF Inv, History
<1>3. /\ chain \in SUBSET Disks /\ chain # {} /\ Parent \in chain /\ Target \in chain /\ Parent \in Disks /\ Target \in Disks
      /\ Parent # Target /\ Parent \in Inner(chain)
      /\ \A q \in chain : Parent <= q /\ q <= Target
  BY <1>1, <1>2, ChainFacts DEF IsChain, Parent, Target
<1>4. Inner(chain) = chain \ {Target}
  BY DEF Inner, Target
<1>5. Parent \in Present /\ Half = {Parent} /\ MergeSound(Parent)
  BY <1>1 DEF Inv, Merging, Half
<1>6. /\ Inner(chain) \cap Listed = {}
      /\ \A q \in Present \ chain : disk(q).parent \notin Inner(chain)
      /\ \A x \in Disks : x \in need[Target] <=>
              \/ \E q \in chain \cap Present : x \in disk(q).holds
              \/ x \in Needed(disk(Parent).parent)
      /\ pc \notin {"unlink", "link"} => mergeState[Parent].step = "mergeBlocks" /\ Linked(chain)
  BY <1>1, <1>5 DEF MergeSound, Target
<1>7. disk(Parent).parent \notin chain
  <2>1. disk(Parent).parent \in 0 .. (Parent - 1)
    BY <1>5, Order DEF Inv
  <2>2. Parent \in Nat
    BY <1>3, PresentDisks
  <2> QED BY <1>3, <2>1, <2>2
<1> QED BY <1>1, <1>3, <1>4, <1>5, <1>6, <1>7

LEMMA MergeBlocksStep ==
  ASSUME Inv, MergeBlocks
  PROVE  Inv'
<1> DEFINE children == {entry[p] : p \in chain \ {Parent}}
<1>1. /\ pc = "blocks" /\ pc' = "uuid"
      /\ UNCHANGED <<entry, mergeState, metadata, planVars, backupVars, next, todo, chain, faults>>
  BY DEF MergeBlocks
<1>2. data' = [d \in Disks |->
              IF d = entry[Parent]
              THEN [data[d] EXCEPT !.bat   = @ \cup UNION {data[c].bat : c \in children},
                                   !.holds = @ \cup UNION {data[c].holds : c \in children}]
              ELSE IF d \in children /\ UseAlias THEN [data[d] EXCEPT !.holds = {}]
              ELSE data[d]]
  BY DEF MergeBlocks
<1>3. pc \in Working \ {"drop"} /\ pc' \in Working
  BY <1>1 DEF Working
<1>4. PICK h : h = Parent
  OBVIOUS
<1>5. /\ chain \in SUBSET Disks /\ h \in chain /\ h \in Present /\ Linked(chain) /\ chain \subseteq Present
      /\ Target \in chain /\ h # Target /\ Half = {h} /\ mergeState[h].chain = chain
  BY <1>1, <1>3, <1>4, WorkFacts DEF Linked
<1>6. \A q \in Present : entry[q] \in Disks
  BY Order DEF Inv
<1>7. \A p, q \in Present : entry[p] = entry[q] => p = q
  BY <1>1 DEF Inv, Claims
<1>8. data \in [Disks -> [exists : BOOLEAN, uuid : Disks \cup {None},
                          parent : Disks \cup {None}, bat : SUBSET Disks, holds : SUBSET Disks]]
      /\ \A d \in Disks : data[d].parent < d
  BY DEF Inv, Typed
<1>9. children \subseteq Disks
  BY <1>5, <1>6
<1> DEFINE bats == UNION {data[c].bat : c \in children}
           holdings == UNION {data[c].holds : c \in children}
<1>10. bats \in SUBSET Disks /\ holdings \in SUBSET Disks
  <2>1. \A c \in children : data[c].bat \in SUBSET Disks /\ data[c].holds \in SUBSET Disks
    <3> HIDE DEF children
    <3> QED BY <1>8, <1>9
  <2> HIDE DEF children
  <2> QED BY <2>1
<1>11. \A x : x \in holdings <=> \E q \in chain \ {h} : x \in disk(q).holds
  BY <1>4 DEF disk
<1>12. \A q \in Present : entry[q] \in children <=> q \in chain \ {h}
  BY <1>4, <1>5, <1>7
<1> HIDE DEF children, bats, holdings
<1>13. data' = [d \in Disks |->
              IF d = entry[h] THEN [data[d] EXCEPT !.bat = @ \cup bats, !.holds = @ \cup holdings]
              ELSE IF d \in children /\ UseAlias THEN [data[d] EXCEPT !.holds = {}]
              ELSE data[d]]
  BY <1>2, <1>4 DEF bats, holdings
<1>14. ASSUME NEW d \in Disks
       PROVE  /\ data'[d] \in [exists : BOOLEAN, uuid : Disks \cup {None},
                          parent : Disks \cup {None}, bat : SUBSET Disks, holds : SUBSET Disks]
              /\ data'[d].exists = data[d].exists /\ data'[d].uuid = data[d].uuid /\ data'[d].parent = data[d].parent
              /\ d = entry[h] => data'[d].holds = data[d].holds \cup holdings
              /\ d # entry[h] => data'[d].holds = IF d \in children /\ UseAlias THEN {} ELSE data[d].holds
  <2>1. data[d] \in [exists : BOOLEAN, uuid : Disks \cup {None},
                     parent : Disks \cup {None}, bat : SUBSET Disks, holds : SUBSET Disks]
    BY <1>8
  <2>2. CASE d = entry[h]
    <3>1. data'[d] = [data[d] EXCEPT !.bat = data[d].bat \cup bats, !.holds = data[d].holds \cup holdings]
      BY <1>13, <2>2
    <3>2. data[d].bat \cup bats \in SUBSET Disks /\ data[d].holds \cup holdings \in SUBSET Disks
      BY <1>10, <2>1
    <3> QED BY <2>1, <2>2, <3>1, <3>2
  <2>3. CASE d # entry[h] /\ d \in children /\ UseAlias
    <3>1. data'[d] = [data[d] EXCEPT !.holds = {}]
      BY <1>13, <2>3
    <3> QED BY <2>1, <2>3, <3>1
  <2>4. CASE d # entry[h] /\ ~ (d \in children /\ UseAlias)
    <3>1. data'[d] = data[d]
      BY <1>13, <2>4
    <3> QED BY <2>1, <2>4, <3>1
  <2> QED BY <2>2, <2>3, <2>4
<1>15. Present' = Present /\ \A q : disk(q)' = data'[entry[q]]
  BY <1>1 DEF Present, disk
<1>16. \A q \in Present : /\ disk(q)'.exists = disk(q).exists
                          /\ disk(q)'.uuid = disk(q).uuid
                          /\ disk(q)'.parent = disk(q).parent
  BY <1>6, <1>14, <1>15 DEF disk
<1>17. disk(h)'.holds = disk(h).holds \cup holdings
  BY <1>5, <1>6, <1>14, <1>15 DEF disk
<1>18. \A q \in chain : q # h => disk(q)'.holds \subseteq disk(q).holds
  BY <1>5, <1>6, <1>7, <1>14, <1>15 DEF disk
<1>19. \A q \in Present \ chain : data'[entry[q]] = data[entry[q]]
  BY <1>5, <1>6, <1>7, <1>12, <1>13
<1>20. \A q \in Present \ chain : disk(q)' = disk(q)
  BY <1>15, <1>19 DEF disk
<1>21. Merges
  BY <1>1, <1>3, <1>15, <1>20 DEF Merges
<1>22. /\ Memory' /\ History' /\ Draft' /\ Plan' /\ Present' \subseteq registered'
       /\ Going = {} /\ Going' = {} /\ Listed' = Listed /\ Parent' = h /\ Target' = Target
       /\ UNCHANGED <<metadata, format, base, written, need, recorded, expired, lost, chain, faults>>
  BY <1>4, <1>21, MergeStep
<1>23. Alive = Present /\ Alive' = Present
  BY <1>1, <1>15, <1>22 DEF Alive, Fading
<1>24. Interrupted' = Interrupted /\ Half' = Half
  BY <1>1, <1>15 DEF Interrupted, Half
<1>25. Typed'
  <2>1. data' \in [Disks -> [exists : BOOLEAN, uuid : Disks \cup {None},
                          parent : Disks \cup {None}, bat : SUBSET Disks, holds : SUBSET Disks]]
    BY <1>13, <1>14
  <2>2. \A d \in Disks : data'[d].parent < d
    BY <1>8, <1>14
  <2> QED BY <1>1, <1>22, <2>1, <2>2 DEF Inv, Typed
<1>26. Claims'
  BY <1>1, <1>7, <1>15, <1>22 DEF Inv, Claims
<1>27. Readable'
  BY <1>1, <1>15, <1>16, <1>23 DEF Inv, Readable
<1>28. Ancestry'
  BY <1>1, <1>16, <1>23 DEF Inv, Ancestry
<1>29. Sound'
  <2> SUFFICES ASSUME NEW p \in Present, p \notin chain
               PROVE  need'[p] = disk(p)'.holds \cup Needed(disk(p).parent)'
    BY <1>1, <1>5, <1>23, <1>24 DEF Sound
  <2>1. need[p] = disk(p).holds \cup Needed(disk(p).parent)
    BY <1>5, <1>23 DEF Inv, Sound
  <2>2. disk(p)' = disk(p)
    BY <1>20
  <2> QED BY <1>22, <2>1, <2>2 DEF Needed
<1>30. Linked(chain)'
  BY <1>5, <1>15, <1>16, <1>22 DEF Linked
<1>31. \A x : (\E q \in chain \cap Present : x \in disk(q).holds) <=> \E q \in chain \cap Present' : x \in disk(q)'.holds
  <2> SUFFICES ASSUME NEW x
               PROVE  (\E q \in chain \cap Present : x \in disk(q).holds) <=> \E q \in chain \cap Present' : x \in disk(q)'.holds
    OBVIOUS
  <2>1. (\E q \in chain : x \in disk(q).holds) => x \in disk(h)'.holds
    BY <1>11, <1>17
  <2>2. \A q \in chain : x \in disk(q)'.holds => \E r \in chain : x \in disk(r).holds
    BY <1>5, <1>11, <1>17, <1>18
  <2> QED BY <1>5, <1>15, <2>1, <2>2
<1>32. ASSUME NEW k \in Half' PROVE MergeSound(k)'
  <2>1. k = h /\ k \in Present /\ mergeState'[k] = mergeState[k] /\ mergeState'[k].chain = chain
    BY <1>1, <1>5, <1>24
  <2>2. PICK c : c = chain
    OBVIOUS
  <2>3. /\ IsChain(c) /\ Min(c) = h
        /\ Inner(c) \cap Listed = {}
        /\ mergeState[h].step = "mergeBlocks"
        /\ \A q \in Present \ c : disk(q).parent \notin Inner(c)
        /\ \A x \in Disks : x \in need[Max(c)] <=>
              \/ \E q \in c \cap Present : x \in disk(q).holds
              \/ x \in Needed(disk(h).parent)
    BY <1>1, <1>5, <2>2 DEF Inv, Merging, MergeSound
  <2>4. \A x \in Disks : x \in need'[Max(c)] <=>
              \/ \E q \in c \cap Present' : x \in disk(q)'.holds
              \/ x \in Needed(disk(k).parent)'
    <3>1. Needed(disk(k).parent)' = Needed(disk(h).parent)
      BY <1>16, <1>22, <2>1 DEF Needed
    <3> QED BY <1>22, <1>31, <2>2, <2>3, <3>1
  <2>5. Linked(c)' /\ IsChain(c)'
    BY <1>22, <1>30, <2>2, <2>3 DEF Linked, IsChain
  <2>6. \A q \in Present' \ c : disk(q)'.parent \notin Inner(c)
    BY <1>15, <1>16, <2>3
  <2> QED BY <1>22, <2>1, <2>2, <2>3, <2>4, <2>5, <2>6 DEF MergeSound, Inner
<1>33. Merging'
  BY <1>1, <1>22, <1>24, <1>32 DEF Inv, Merging
<1>34. AtWork'
  <2>1. IsChain(chain)' /\ chain' \subseteq registered' /\ chain' \subseteq 1 .. base'
    BY <1>3, <1>5, <1>15, <1>22 DEF Inv, AtWork, IsChain
  <2>2. Parent' \in Half' /\ mergeState'[Parent'].chain = chain'
    BY <1>1, <1>5, <1>22, <1>24
  <2>3. \A k, q \in chain' \cap Present' : k = Parent' => disk(q)'.holds \subseteq disk(k)'.holds
    <3> SUFFICES ASSUME NEW q \in chain PROVE disk(q)'.holds \subseteq disk(h)'.holds
      BY <1>22
    <3>1. CASE q = h
      BY <3>1
    <3>2. CASE q # h
      BY <1>11, <1>17, <1>18, <3>2
    <3> QED BY <3>1, <3>2
  <2> QED BY <1>1, <2>1, <2>2, <2>3 DEF AtWork
<1>35. Books'
  BY <1>1, <1>15, <1>22 DEF Inv, Books
<1>36. LinearChain'
  BY <1>1, <1>15, <1>16 DEF Inv, LinearChain
<1> QED BY <1>22, <1>25, <1>26, <1>27, <1>28, <1>29, <1>33, <1>34, <1>35, <1>36 DEF Inv

LEMMA MergeMetadataStep ==
  ASSUME Inv, MergeMetadata
  PROVE  Inv'
<1>1. /\ pc = "uuid" /\ pc' = "state"
      /\ UNCHANGED <<entry, mergeState, metadata, planVars, backupVars, next, todo, chain, faults>>
      /\ data' = [data EXCEPT ![entry[Parent]].uuid = disk(Target).uuid]
  BY DEF MergeMetadata
<1>2. pc \in Working \ {"drop"} /\ pc' \in Working /\ pc # "delete"
  BY <1>1 DEF Working
<1>3. PICK h : h = Parent
  OBVIOUS
<1>4. /\ chain \in SUBSET Disks /\ h \in chain /\ h \in Present /\ Linked(chain) /\ chain \subseteq Present
      /\ Target \in chain /\ Target \in Disks /\ h # Target /\ Half = {h} /\ mergeState[h].chain = chain
  BY <1>1, <1>2, <1>3, WorkFacts DEF Linked
<1>5. Going = {} /\ Alive = Present
  BY <1>1 DEF Going, Alive, Fading
<1>6. disk(Target).uuid = Target
  BY <1>1, <1>4, <1>5 DEF Inv, Readable
<1>7. \A q \in Present : entry[q] \in Disks
  BY Order DEF Inv
<1>8. \A p, q \in Present : entry[p] = entry[q] => p = q
  BY <1>1 DEF Inv, Claims
<1>9. data \in [Disks -> [exists : BOOLEAN, uuid : Disks \cup {None},
                          parent : Disks \cup {None}, bat : SUBSET Disks, holds : SUBSET Disks]]
      /\ \A d \in Disks : data[d].parent < d
  BY DEF Inv, Typed
<1>10. data' = [data EXCEPT ![entry[h]] = [data[entry[h]] EXCEPT !.uuid = Target]]
  BY <1>1, <1>3, <1>6
<1>11. [data[entry[h]] EXCEPT !.uuid = Target] \in
           [exists : BOOLEAN, uuid : Disks \cup {None},
            parent : Disks \cup {None}, bat : SUBSET Disks, holds : SUBSET Disks]
  BY <1>4, <1>7, <1>9
<1>12. /\ data' \in [Disks -> [exists : BOOLEAN, uuid : Disks \cup {None},
                          parent : Disks \cup {None}, bat : SUBSET Disks, holds : SUBSET Disks]]
       /\ data'[entry[h]] = [data[entry[h]] EXCEPT !.uuid = Target]
       /\ \A d \in Disks : d # entry[h] => data'[d] = data[d]
  BY <1>4, <1>7, <1>9, <1>10, <1>11
<1>13. Present' = Present /\ \A q : disk(q)' = data'[entry[q]]
  BY <1>1 DEF Present, disk
<1>14. /\ disk(h)'.uuid = Target /\ disk(h)'.exists = disk(h).exists
       /\ disk(h)'.parent = disk(h).parent /\ disk(h)'.holds = disk(h).holds
  BY <1>4, <1>7, <1>9, <1>12, <1>13 DEF disk
<1>15. \A q \in Present : q # h => disk(q)' = disk(q)
  BY <1>4, <1>7, <1>8, <1>12, <1>13 DEF disk
<1>16. \A q \in Present : disk(q)'.exists = disk(q).exists /\ disk(q)'.parent = disk(q).parent /\ disk(q)'.holds = disk(q).holds
  BY <1>14, <1>15
<1>17. Merges
  BY <1>1, <1>2, <1>4, <1>13, <1>15 DEF Merges
<1>18. /\ Memory' /\ History' /\ Draft' /\ Plan' /\ Present' \subseteq registered'
       /\ Going' = {} /\ Listed' = Listed /\ Parent' = h /\ Target' = Target
       /\ UNCHANGED <<metadata, format, base, written, need, recorded, expired, lost, chain, faults>>
  BY <1>3, <1>17, MergeStep
<1>19. Alive' = Present
  BY <1>1, <1>13, <1>18 DEF Alive, Fading
<1>20. Interrupted' = Interrupted /\ Half' = Half
  BY <1>1, <1>13 DEF Interrupted, Half
<1>21. Typed'
  <2>1. \A d \in Disks : data'[d].parent < d
    BY <1>4, <1>7, <1>9, <1>12
  <2> QED BY <1>1, <1>12, <1>18, <2>1 DEF Inv, Typed
<1>22. Claims'
  BY <1>1, <1>8, <1>13, <1>18 DEF Inv, Claims
<1>23. Readable'
  <2> SUFFICES ASSUME NEW p \in Present
               PROVE  disk(p)'.exists /\ disk(p)'.uuid = IF p = h THEN Target ELSE p
    BY <1>1, <1>13, <1>18, <1>19 DEF Readable
  <2>1. disk(p).exists /\ disk(p).uuid = p
    BY <1>1, <1>5 DEF Inv, Readable
  <2> QED BY <1>14, <1>15, <2>1
<1>24. Ancestry'
  BY <1>1, <1>5, <1>16, <1>19 DEF Inv, Ancestry
<1>25. Sound'
  <2> SUFFICES ASSUME NEW p \in Present, p \notin chain
               PROVE  need'[p] = disk(p)'.holds \cup Needed(disk(p).parent)'
    BY <1>1, <1>4, <1>19, <1>20 DEF Sound
  <2>1. need[p] = disk(p).holds \cup Needed(disk(p).parent)
    BY <1>4, <1>5 DEF Inv, Sound
  <2>2. disk(p)' = disk(p)
    BY <1>4, <1>15
  <2> QED BY <1>18, <2>1, <2>2 DEF Needed
<1>26. ASSUME NEW k \in Half' PROVE MergeSound(k)'
  <2>1. k = h /\ k \in Present /\ mergeState'[k] = mergeState[k] /\ mergeState'[k].chain = chain
    BY <1>1, <1>4, <1>20
  <2>2. PICK c : c = chain
    OBVIOUS
  <2>3. /\ IsChain(c) /\ Min(c) = h
        /\ Inner(c) \cap Listed = {}
        /\ mergeState[h].step = "mergeBlocks"
        /\ \A q \in Present \ c : disk(q).parent \notin Inner(c)
        /\ \A x \in Disks : x \in need[Max(c)] <=>
              \/ \E q \in c \cap Present : x \in disk(q).holds
              \/ x \in Needed(disk(h).parent)
    BY <1>1, <1>4, <2>2 DEF Inv, Merging, MergeSound
  <2>4. \A x \in Disks : x \in need'[Max(c)] <=>
              \/ \E q \in c \cap Present' : x \in disk(q)'.holds
              \/ x \in Needed(disk(k).parent)'
    <3>1. Needed(disk(k).parent)' = Needed(disk(h).parent)
      BY <1>16, <1>18, <2>1 DEF Needed
    <3> QED BY <1>13, <1>16, <1>18, <2>3, <3>1
  <2>5. Linked(c)' /\ IsChain(c)'
    BY <1>4, <1>13, <1>16, <1>18, <2>2, <2>3 DEF Linked, IsChain
  <2>6. \A q \in Present' \ c : disk(q)'.parent \notin Inner(c)
    BY <1>13, <1>16, <2>3
  <2> QED BY <1>18, <2>1, <2>2, <2>3, <2>4, <2>5, <2>6 DEF MergeSound, Inner
<1>27. Merging'
  BY <1>1, <1>18, <1>20, <1>26 DEF Inv, Merging
<1>28. AtWork'
  <2>1. IsChain(chain)' /\ chain' \subseteq registered' /\ chain' \subseteq 1 .. base'
    BY <1>2, <1>4, <1>13, <1>18 DEF Inv, AtWork, IsChain
  <2>2. Parent' \in Half' /\ mergeState'[Parent'].chain = chain'
    BY <1>1, <1>4, <1>18, <1>20
  <2>3. \A k, q \in chain' \cap Present' : k = Parent' => disk(q)'.holds \subseteq disk(k)'.holds
    BY <1>1, <1>3, <1>13, <1>16, <1>18 DEF Inv, AtWork
  <2> QED BY <1>1, <2>1, <2>2, <2>3 DEF AtWork
<1>29. Books'
  BY <1>1, <1>13, <1>18 DEF Inv, Books
<1>30. LinearChain'
  BY <1>1, <1>13, <1>16 DEF Inv, LinearChain
<1> QED BY <1>18, <1>21, <1>22, <1>23, <1>24, <1>25, <1>27, <1>28, <1>29, <1>30 DEF Inv

LEMMA BeginCleanupStep ==
  ASSUME Inv, BeginCleanup
  PROVE  Inv'
<1>1. /\ pc = "state" /\ pc' = "unlink"
      /\ UNCHANGED <<entry, data, metadata, planVars, backupVars, next, todo, chain, faults>>
      /\ mergeState' = [mergeState EXCEPT ![Parent].step = "cleanup"]
  BY DEF BeginCleanup
<1>2. pc \in Working \ {"drop"} /\ pc' \in Working /\ pc # "delete"
  BY <1>1 DEF Working
<1>3. PICK h : h = Parent
  OBVIOUS
<1>4. /\ chain \in SUBSET Disks /\ h \in chain /\ h \in Present /\ h \in Disks /\ Linked(chain) /\ chain \subseteq Present
      /\ Target \in chain /\ Target \in Disks /\ h # Target /\ Half = {h} /\ mergeState[h].chain = chain
      /\ disk(h).parent \notin chain
      /\ \A q \in Present \ chain : disk(q).parent \notin chain \ {Target}
  BY <1>1, <1>2, <1>3, WorkFacts DEF Linked
<1>5. Going = {} /\ Alive = Present
  BY <1>1 DEF Going, Alive, Fading
<1>6. Present' = Present /\ \A q : disk(q)' = disk(q)
  BY <1>1 DEF Present, disk
<1>7. Merges
  BY <1>1, <1>2, <1>6 DEF Merges
<1>8. /\ Memory' /\ History' /\ Draft' /\ Plan' /\ Present' \subseteq registered'
      /\ Going' = {} /\ Listed' = Listed /\ Parent' = h /\ Target' = Target
      /\ UNCHANGED <<metadata, format, base, written, need, recorded, expired, lost, chain, faults>>
  BY <1>3, <1>7, MergeStep
<1>9. mergeState \in [Disks -> [step : {"absent", "mergeBlocks", "cleanup"}, chain : SUBSET Disks]]
  BY DEF Inv, Typed
<1>10. /\ mergeState' \in [Disks -> [step : {"absent", "mergeBlocks", "cleanup"}, chain : SUBSET Disks]]
       /\ \A k \in Disks : mergeState'[k].chain = mergeState[k].chain
       /\ \A k \in Disks : k # h => mergeState'[k] = mergeState[k]
       /\ mergeState'[h].step = "cleanup"
  BY <1>1, <1>3, <1>4, <1>9
<1>11. mergeState[h].step = "mergeBlocks"
  BY <1>1, <1>2, <1>3, WorkFacts
<1>12. Interrupted' = Interrupted /\ Half' = Half
  <2>1. Interrupted' = Interrupted
    BY <1>4, <1>10, <1>11 DEF Interrupted
  <2> QED BY <1>6, <2>1 DEF Half
<1>13. Fading' = chain \ {h} /\ Alive' = Present \ (chain \ {h})
  BY <1>1, <1>6, <1>8 DEF Fading, Alive
<1>14. Typed'
  BY <1>1, <1>8, <1>10 DEF Inv, Typed
<1>15. Claims'
  BY <1>1, <1>6, <1>8 DEF Inv, Claims
<1>16. Readable'
  BY <1>1, <1>3, <1>5, <1>6, <1>8, <1>13 DEF Inv, Readable
<1>17. Ancestry'
  <2> SUFFICES ASSUME NEW p \in Present \ (chain \ {h})
               PROVE  \/ disk(p).parent = None
                      \/ disk(p).parent \in Present \ (chain \ {h})
                      \/ disk(p).parent = Target
    BY <1>1, <1>6, <1>8, <1>13 DEF Ancestry
  <2>1. disk(p).parent = None \/ disk(p).parent \in Present
    BY <1>1, <1>5 DEF Inv, Ancestry
  <2> QED BY <1>4, <2>1
<1>18. Sound'
  <2> SUFFICES ASSUME NEW p \in Present, p \notin chain
               PROVE  need'[p] = disk(p)'.holds \cup Needed(disk(p).parent)'
    BY <1>4, <1>8, <1>10, <1>12, <1>13 DEF Sound
  <2>1. need[p] = disk(p).holds \cup Needed(disk(p).parent)
    BY <1>4, <1>5 DEF Inv, Sound
  <2> QED BY <1>6, <1>8, <2>1 DEF Needed
<1>19. ASSUME NEW k \in Half' PROVE MergeSound(k)'
  <2>1. k = h /\ k \in Present /\ mergeState'[k].chain = chain
    BY <1>4, <1>10, <1>12
  <2>2. PICK c : c = chain
    OBVIOUS
  <2>3. /\ IsChain(c) /\ Min(c) = h
        /\ Inner(c) \cap Listed = {}
        /\ \A q \in Present \ c : disk(q).parent \notin Inner(c)
        /\ \A x \in Disks : x \in need[Max(c)] <=>
              \/ \E q \in c \cap Present : x \in disk(q).holds
              \/ x \in Needed(disk(h).parent)
    BY <1>1, <1>4, <2>2 DEF Inv, Merging, MergeSound
  <2>4. \A x \in Disks : x \in need'[Max(c)] <=>
              \/ \E q \in c \cap Present' : x \in disk(q)'.holds
              \/ x \in Needed(disk(k).parent)'
    <3>1. Needed(disk(k).parent)' = Needed(disk(h).parent)
      BY <1>6, <1>8, <2>1 DEF Needed
    <3> QED BY <1>6, <1>8, <2>3, <3>1
  <2>5. IsChain(c)'
    BY <1>8, <2>3 DEF IsChain
  <2>6. \A q \in Present' \ c : disk(q)'.parent \notin Inner(c)
    BY <1>6, <2>3
  <2> QED BY <1>1, <1>8, <2>1, <2>2, <2>3, <2>4, <2>5, <2>6 DEF MergeSound, Inner
<1>20. Merging'
  BY <1>1, <1>8, <1>12, <1>19 DEF Inv, Merging
<1>21. AtWork'
  <2>1. IsChain(chain)' /\ chain' \subseteq registered' /\ chain' \subseteq 1 .. base'
    BY <1>2, <1>4, <1>6, <1>8 DEF Inv, AtWork, IsChain
  <2>2. Parent' \in Half' /\ mergeState'[Parent'].chain = chain'
    BY <1>4, <1>8, <1>10, <1>12
  <2>3. \A k, q \in chain' \cap Present' : k = Parent' => disk(q)'.holds \subseteq disk(k)'.holds
    BY <1>1, <1>3, <1>6, <1>8 DEF Inv, AtWork
  <2>4. mergeState'[Target'].step = "absent"
    <3>1. Target \notin Half /\ Target \in Present
      BY <1>4
    <3>2. mergeState[Target].step = "absent"
      BY <1>4, <3>1 DEF Half, Interrupted
    <3> QED BY <1>4, <1>8, <1>10, <3>2
  <2> QED BY <1>1, <2>1, <2>2, <2>3, <2>4 DEF AtWork
<1>22. Books'
  BY <1>1, <1>6, <1>8 DEF Inv, Books
<1>23. LinearChain'
  BY <1>1, <1>6 DEF Inv, LinearChain
<1> QED BY <1>8, <1>14, <1>15, <1>16, <1>17, <1>18, <1>20, <1>21, <1>22, <1>23 DEF Inv

(* The children of the merge are unlinked.                                 *)
LEMMA UnlinkStep ==
  ASSUME Inv, NEW p \in Disks, UnlinkData(p) \/ UnlinkPath(p)
  PROVE  Inv'
<1>1. /\ pc = "unlink" /\ pc' = "unlink"
      /\ UNCHANGED <<mergeState, metadata, planVars, backupVars, next, todo, chain, faults>>
      /\ data' = [data EXCEPT ![entry[p]] = NoData]
      /\ (chain \ {Parent}) \cap Present # {} /\ p = Min((chain \ {Parent}) \cap Present)
      /\ UNCHANGED entry \/ entry' = [entry EXCEPT ![p] = None]
  BY DEF UnlinkData, UnlinkPath, Unlinkable
<1>2. pc \in Working \ {"drop"} /\ pc' \in Working /\ pc # "delete"
  BY <1>1 DEF Working
<1>3. PICK h : h = Parent
  OBVIOUS
<1>4. /\ chain \in SUBSET Disks /\ h \in chain /\ h \in Present /\ h \in Disks
      /\ Target \in chain /\ Target \in Disks /\ h # Target /\ Half = {h} /\ mergeState[h].chain = chain
      /\ chain \ {Target} \subseteq Disks
      /\ IsChain(chain)
  BY <1>1, <1>2, <1>3, WorkFacts
<1>5. p \in chain /\ p # h /\ p \in Present
  <2>1. (chain \ {Parent}) \cap Present \in SUBSET Disks
    BY <1>4
  <2>2. p \in (chain \ {Parent}) \cap Present
    BY <1>1, <2>1, MinMax
  <2> QED BY <1>3, <2>2
<1>6. \A q \in Present : entry[q] \in Disks
  BY Order DEF Inv
<1>7. \A q, r \in Present : entry[q] = entry[r] => q = r
  BY <1>1 DEF Inv, Claims
<1>8. /\ data \in [Disks -> [exists : BOOLEAN, uuid : Disks \cup {None},
                          parent : Disks \cup {None}, bat : SUBSET Disks, holds : SUBSET Disks]]
      /\ \A d \in Disks : data[d].parent < d
      /\ entry \in [Disks -> Disks \cup {None}]
  BY DEF Inv, Typed
<1>9. /\ \/ Present' = Present
         \/ Present' = Present \ {p}
      /\ \A q \in Present' : entry'[q] = entry[q]
  BY <1>1, <1>8 DEF Present, None
<1>10. /\ \A q \in Present' : q # p => disk(q)' = disk(q)
       /\ p \in Present' => disk(p)' = NoData
  <2>1. \A q \in Present' : data'[entry'[q]] = data'[entry[q]]
    BY <1>9
  <2>2. \A q \in Present : q # p => data'[entry[q]] = data[entry[q]]
    BY <1>1, <1>5, <1>6, <1>7, <1>8
  <2>3. data'[entry[p]] = NoData
    BY <1>1, <1>5, <1>6, <1>8
  <2> QED BY <1>9, <2>1, <2>2, <2>3 DEF disk
<1>11. Merges
  BY <1>1, <1>2, <1>5, <1>9, <1>10 DEF Merges
<1>12. /\ Memory' /\ History' /\ Draft' /\ Plan' /\ Present' \subseteq registered'
       /\ Going = {} /\ Going' = {} /\ Listed' = Listed /\ Parent' = h /\ Target' = Target
       /\ UNCHANGED <<metadata, format, base, written, need, recorded, expired, lost, chain, faults>>
  BY <1>3, <1>11, MergeStep
<1>13. /\ Alive = Present \ (chain \ {h}) /\ Alive' = Present' \ (chain \ {h})
  BY <1>1, <1>3, <1>12 DEF Alive, Fading
<1>14. Alive' = Alive /\ \A q \in Alive : disk(q)' = disk(q)
  BY <1>5, <1>9, <1>10, <1>13
<1>15. h \in Present' /\ disk(h)' = disk(h)
  BY <1>4, <1>5, <1>9, <1>10
<1>16. Interrupted' = Interrupted /\ Half' = Half
  BY <1>1, <1>4, <1>9, <1>15 DEF Interrupted, Half
<1>17. Typed'
  <2>1. data' \in [Disks -> [exists : BOOLEAN, uuid : Disks \cup {None},
                           parent : Disks \cup {None}, bat : SUBSET Disks,
                           holds : SUBSET Disks]]
    BY <1>1, <1>8, NoDataType
  <2>2. \A d \in Disks : data'[d] = data[d] \/ data'[d] = NoData
    BY <1>1, <1>8
  <2>3. \A d \in Disks : data'[d].parent < d
    BY <1>8, <2>2, NoDataType
  <2>4. entry' \in [Disks -> Disks \cup {None}]
    BY <1>1, <1>8
  <2> QED BY <1>1, <1>12, <2>1, <2>3, <2>4 DEF Inv, Typed
<1>18. Claims'
  BY <1>1, <1>7, <1>9, <1>12 DEF Inv, Claims
<1>19. Readable'
  <2> SUFFICES ASSUME NEW q \in Present'
               PROVE  /\ q \in Alive => disk(q)'.exists
                      /\ disk(q)'.exists => disk(q)'.uuid = IF q = h THEN Target ELSE q
    BY <1>1, <1>12, <1>14 DEF Readable
  <2>1. CASE q = p
    BY <1>5, <1>10, <1>13, <2>1, NoDataType
  <2>2. CASE q # p
    BY <1>1, <1>3, <1>9, <1>10, <2>2 DEF Inv, Readable
  <2> QED BY <2>1, <2>2
<1>20. Ancestry'
  BY <1>1, <1>12, <1>14 DEF Inv, Ancestry
<1>21. Sound'
  BY <1>1, <1>12, <1>14, <1>16 DEF Inv, Sound, Needed
<1>22. \A q \in chain \cap Present : disk(q).holds \subseteq disk(h).holds
  BY <1>1, <1>3, <1>4 DEF Inv, AtWork
<1>23. \A x : (\E q \in chain \cap Present : x \in disk(q).holds) <=> \E q \in chain \cap Present' : x \in disk(q)'.holds
  <2> SUFFICES ASSUME NEW x
               PROVE  (\E q \in chain \cap Present : x \in disk(q).holds) <=> \E q \in chain \cap Present' : x \in disk(q)'.holds
    OBVIOUS
  <2>1. (\E q \in chain \cap Present : x \in disk(q).holds) => x \in disk(h)'.holds
    BY <1>15, <1>22
  <2>2. \A q \in chain \cap Present' : x \in disk(q)'.holds => q \in Present /\ x \in disk(q).holds
    BY <1>9, <1>10 DEF NoData
  <2> QED BY <1>4, <1>15, <2>1, <2>2
<1>24. ASSUME NEW k \in Half' PROVE MergeSound(k)'
  <2>1. k = h /\ mergeState'[k].chain = chain
    BY <1>1, <1>4, <1>16
  <2>2. PICK c : c = chain
    OBVIOUS
  <2>3. /\ IsChain(c) /\ Min(c) = h
        /\ Inner(c) \cap Listed = {}
        /\ \A q \in Present \ c : disk(q).parent \notin Inner(c)
        /\ \A x \in Disks : x \in need[Max(c)] <=>
              \/ \E q \in c \cap Present : x \in disk(q).holds
              \/ x \in Needed(disk(h).parent)
    BY <1>1, <1>4, <2>2 DEF Inv, Merging, MergeSound
  <2>4. \A x \in Disks : x \in need'[Max(c)] <=>
              \/ \E q \in c \cap Present' : x \in disk(q)'.holds
              \/ x \in Needed(disk(k).parent)'
    <3>1. Needed(disk(k).parent)' = Needed(disk(h).parent)
      BY <1>12, <1>15, <2>1 DEF Needed
    <3> QED BY <1>12, <1>23, <2>2, <2>3, <3>1
  <2>5. IsChain(c)'
    BY <1>12, <2>3 DEF IsChain
  <2>6. \A q \in Present' \ c : disk(q)'.parent \notin Inner(c)
    BY <1>5, <1>9, <1>10, <2>2, <2>3
  <2> QED BY <1>1, <1>12, <2>1, <2>2, <2>3, <2>4, <2>5, <2>6 DEF MergeSound, Inner
<1>25. Merging'
  BY <1>1, <1>12, <1>16, <1>24 DEF Inv, Merging
<1>26. AtWork'
  <2>1. IsChain(chain)' /\ chain' \subseteq registered' /\ chain' \subseteq 1 .. base'
    BY <1>1, <1>2, <1>4, <1>12 DEF Inv, AtWork, IsChain, planVars
  <2>2. Parent' \in Half' /\ mergeState'[Parent'].chain = chain'
    BY <1>1, <1>4, <1>12, <1>16
  <2>3. ASSUME NEW k \in chain' \cap Present', NEW q \in chain' \cap Present', k = Parent'
        PROVE  disk(q)'.holds \subseteq disk(k)'.holds
    <3>1. k = h /\ q \in chain
      BY <1>12, <2>3
    <3>2. CASE q = p
      BY <1>10, <3>2 DEF NoData
    <3>3. CASE q # p
      BY <1>9, <1>10, <1>15, <1>22, <3>1, <3>3
    <3> QED BY <3>2, <3>3
  <2>4. mergeState'[Target'].step = "absent"
    BY <1>1, <1>12 DEF Inv, AtWork
  <2> QED BY <1>1, <2>1, <2>2, <2>3, <2>4 DEF AtWork
<1>27. Books'
  <2>1. \A i \in Listed' : i \in Present' \/ i = Target'
    <3>1. p \in Listed => p = Target
      BY <1>1, <1>2, <1>5, WorkFacts
    <3> QED BY <1>1, <1>9, <1>12, <3>1 DEF Inv, Books
  <2> QED BY <1>1, <1>12, <2>1 DEF Inv, Books
<1>28. LinearChain'
  <2> SUFFICES ASSUME NEW q \in Present', NEW r \in Present', entry'[q] # entry'[r],
                      disk(q)'.parent # None, disk(q)'.parent = disk(r)'.parent
               PROVE  FALSE
    BY DEF LinearChain
  <2>1. q # p /\ r # p
    BY <1>10, NoDataType
  <2>2. disk(q)' = disk(q) /\ disk(r)' = disk(r) /\ q \in Present /\ r \in Present /\ entry[q] # entry[r]
    BY <1>9, <1>10, <2>1
  <2> QED BY <2>2 DEF Inv, LinearChain
<1> QED BY <1>12, <1>17, <1>18, <1>19, <1>20, <1>21, <1>25, <1>26, <1>27, <1>28 DEF Inv

(* The parent takes the path of the target.                                *)
LEMMA RenameStep ==
  ASSUME Inv, Rename
  PROVE  Inv'
<1>1. /\ pc = "unlink" /\ (chain \ {Parent}) \cap Present = {}
      /\ UNCHANGED <<data, mergeState, metadata, planVars, backupVars, next, todo, chain, faults>>
      /\ entry' = [entry EXCEPT ![Target] = entry[Parent], ![Parent] = IF UseAlias THEN @ ELSE None]
      /\ pc' = IF UseAlias THEN "link" ELSE "drop"
  BY DEF Rename
<1>2. pc \in Working \ {"drop"} /\ pc' \in Working /\ pc # "delete"
  BY <1>1 DEF Working
<1>3. PICK h, t : h = Parent /\ t = Target
  OBVIOUS
<1>4. /\ chain \in SUBSET Disks /\ h \in chain /\ h \in Present /\ h \in Disks
      /\ t \in chain /\ t \in Disks /\ h # t /\ Half = {h} /\ mergeState[h].chain = chain
      /\ IsChain(chain) /\ Inner(chain) = chain \ {t} /\ Inner(chain) \cap Listed = {}
      /\ \A q \in Present \ chain : disk(q).parent \notin chain \ {t}
      /\ \A x \in Disks : x \in need[t] <=>
              \/ \E q \in chain \cap Present : x \in disk(q).holds
              \/ x \in Needed(disk(h).parent)
      /\ h <= t /\ disk(h).parent \notin chain
  BY <1>1, <1>2, <1>3, WorkFacts
<1>5. chain \cap Present = {h} /\ t \notin Present
  BY <1>1, <1>3, <1>4
<1>6. /\ entry \in [Disks -> Disks \cup {None}] /\ entry[h] \in Disks /\ entry[h] # None
  BY <1>4, Order DEF Inv, Typed, Present
<1>7. /\ entry' \in [Disks -> Disks \cup {None}]
      /\ entry'[t] = entry[h]
      /\ entry'[h] = IF UseAlias THEN entry[h] ELSE None
      /\ \A q \in Disks : q # h /\ q # t => entry'[q] = entry[q]
  BY <1>1, <1>3, <1>4, <1>6
<1>8. Present' = IF UseAlias THEN Present \cup {t} ELSE (Present \ {h}) \cup {t}
  BY <1>4, <1>6, <1>7 DEF Present
<1>9. /\ \A q \in Present' : q # t => q \in Present /\ entry'[q] = entry[q] /\ disk(q)' = disk(q)
      /\ entry'[t] = entry[h] /\ disk(t)' = disk(h) /\ t \in Present'
  <2>1. \A q \in Present' : q # t => q \in Present /\ entry'[q] = entry[q]
    BY <1>7, <1>8, PresentDisks
  <2> QED BY <1>1, <1>7, <1>8, <2>1 DEF disk
<1>10. Merges
  <2>1. Present' \ chain = Present \ chain
    BY <1>4, <1>5, <1>8
  <2>2. \A q \in Present \ chain : entry'[q] = entry[q] /\ disk(q)' = disk(q)
    BY <1>4, <1>9, <2>1
  <2> QED BY <1>1, <1>2, <2>1, <2>2 DEF Merges
<1>11. /\ Memory' /\ History' /\ Draft' /\ Plan' /\ Present' \subseteq registered'
       /\ Going = {} /\ Going' = {} /\ Listed' = Listed /\ Parent' = h /\ Target' = t
       /\ UNCHANGED <<metadata, format, base, written, need, recorded, expired, lost, chain, faults>>
  BY <1>3, <1>10, MergeStep
<1>12. Alive = Present /\ Alive' = Present'
  <2>1. Fading = chain \ {h} /\ Fading' = {}
    BY <1>1, <1>3 DEF Fading
  <2> QED BY <1>5, <1>11, <2>1 DEF Alive
<1>13. /\ Interrupted' = Interrupted /\ t \notin Interrupted
       /\ UseAlias => Half' = {h}
       /\ ~ UseAlias => Half' = {}
  <2>1. Interrupted' = Interrupted
    BY <1>1 DEF Interrupted
  <2>2. t \notin Interrupted
    BY <1>1, <1>3 DEF Inv, AtWork, Interrupted
  <2> QED BY <1>4, <1>8, <2>1, <2>2 DEF Half
<1>14. \A q \in Present' \ {t} : q \in Present /\ entry'[q] = entry[q] /\ disk(q)' = disk(q) /\ (q = h => UseAlias) /\ (q # h => q \notin chain)
  BY <1>4, <1>5, <1>8, <1>9
<1>15. Typed'
  BY <1>1, <1>7, <1>11 DEF Inv, Typed
<1>16. Claims'
  <2>1. \A q \in Present' : entry'[q] <= q
    <3>1. entry[h] <= t
      <4>1. entry[h] <= h
        BY <1>4 DEF Inv, Claims
      <4>2. entry[h] \in Nat /\ h \in Nat /\ t \in Nat
        BY <1>4, <1>6, PresentDisks
      <4> QED BY <1>4, <4>1, <4>2
    <3> QED BY <1>9, <3>1 DEF Inv, Claims
  <2>2. ASSUME NEW q \in Present', NEW r \in Present', entry'[q] = entry'[r], q # r
        PROVE  pc' = "link" /\ q \in {Parent', Target'} /\ r \in {Parent', Target'}
    <3>1. \A x, y \in Present : entry[x] = entry[y] => x = y
      BY <1>1 DEF Inv, Claims
    <3>2. (q = t /\ r = h) \/ (q = h /\ r = t)
      BY <1>4, <1>9, <2>2, <3>1
    <3>3. UseAlias
      BY <1>4, <1>14, <3>2
    <3> QED BY <1>1, <1>11, <3>2, <3>3
  <2> QED BY <1>11, <2>1, <2>2 DEF Claims
<1>17. Readable'
  <2> SUFFICES ASSUME NEW q \in Present'
               PROVE  disk(q)'.exists /\ disk(q)'.uuid = IF pc' \in {"state", "unlink", "link"} /\ q = h THEN t ELSE q
    BY <1>11 DEF Readable
  <2>1. CASE q = t
    BY <1>1, <1>3, <1>4, <1>9, <1>12, <2>1 DEF Inv, Readable
  <2>2. CASE q # t
    BY <1>1, <1>3, <1>12, <1>14, <2>2 DEF Inv, Readable
  <2> QED BY <2>1, <2>2
<1>18. Ancestry'
  <2> SUFFICES ASSUME NEW q \in Present'
               PROVE  disk(q)'.parent = None \/ disk(q)'.parent \in Present'
    BY <1>12 DEF Ancestry
  <2>1. CASE q = t \/ q = h
    <3>1. disk(q)' = disk(h)
      BY <1>4, <1>9, <2>1
    <3>2. disk(h).parent = None \/ disk(h).parent \in Present \/ disk(h).parent = t
      BY <1>1, <1>3, <1>4, <1>12 DEF Inv, Ancestry
    <3> QED BY <1>4, <1>8, <3>1, <3>2
  <2>2. CASE q # t /\ q # h
    <3>1. disk(q)' = disk(q) /\ q \in Present \ chain
      BY <1>14, <2>2
    <3>2. disk(q).parent = None \/ disk(q).parent \in Present \/ disk(q).parent = t
      BY <1>1, <1>3, <1>12, <3>1 DEF Inv, Ancestry
    <3>3. disk(q).parent # h
      BY <1>4, <3>1
    <3> QED BY <1>8, <3>1, <3>2, <3>3
  <2> QED BY <2>1, <2>2
<1>19. disk(h).holds \in SUBSET Disks /\ need[t] \in SUBSET Disks /\ Needed(disk(h).parent) \in SUBSET Disks
  <2>1. disk(h).parent \in 0 .. (h - 1) /\ disk(h).holds \in SUBSET Disks
    BY <1>4, Order DEF Inv
  <2>2. need \in [Disks -> SUBSET Disks]
    BY DEF Inv, Typed
  <2>3. disk(h).parent # None => disk(h).parent \in Disks
    <3>1. h \in 1 .. NDisks /\ NDisks \in Nat
      BY <1>4, ConstantsAssumption DEF Disks
    <3> QED BY <2>1, <3>1 DEF Disks, None
  <2> QED BY <1>4, <2>1, <2>2, <2>3 DEF Needed
<1>20. need[t] = disk(h).holds \cup Needed(disk(h).parent)
  <2>1. \A x \in Disks : x \in need[t] <=> x \in disk(h).holds \/ x \in Needed(disk(h).parent)
    BY <1>4, <1>5
  <2> QED BY <1>19, <2>1
<1>21. Sound'
  <2> SUFFICES ASSUME NEW q \in Present'
               PROVE  \/ need'[q] = disk(q)'.holds \cup Needed(disk(q).parent)'
                      \/ \E k \in Half' : q \in mergeState'[k].chain
    BY <1>12 DEF Sound
  <2>1. CASE q = t
    <3>1. Needed(disk(q).parent)' = Needed(disk(h).parent)
      BY <1>9, <1>11, <2>1 DEF Needed
    <3> QED BY <1>9, <1>11, <1>20, <2>1, <3>1
  <2>2. CASE q = h
    BY <1>1, <1>4, <1>13, <1>14, <2>2
  <2>3. CASE q # t /\ q # h
    <3>1. disk(q)' = disk(q) /\ q \in Present /\ q \notin chain
      BY <1>14, <2>3
    <3>2. need[q] = disk(q).holds \cup Needed(disk(q).parent)
      BY <1>4, <1>12, <3>1 DEF Inv, Sound
    <3> QED BY <1>11, <3>1, <3>2 DEF Needed
  <2> QED BY <2>1, <2>2, <2>3
<1>22. ASSUME NEW k \in Half' PROVE MergeSound(k)'
  <2>1. k = h /\ mergeState'[k].chain = chain /\ UseAlias /\ h \in Present'
    BY <1>1, <1>4, <1>8, <1>13
  <2>2. PICK c : c = chain
    OBVIOUS
  <2>3. /\ IsChain(c) /\ Min(c) = h /\ Max(c) = t
    BY <1>3, <1>4, <2>2 DEF Parent, Target
  <2>4. \A x \in Disks : x \in need'[Max(c)] <=>
              \/ \E q \in c \cap Present' : x \in disk(q)'.holds
              \/ x \in Needed(disk(k).parent)'
    <3>1. disk(h)' = disk(h)
      BY <1>4, <1>9, <2>1
    <3>2. Needed(disk(k).parent)' = Needed(disk(h).parent)
      BY <1>11, <2>1, <3>1 DEF Needed
    <3>3. \A q \in c \cap Present' : disk(q)' = disk(h)
      BY <1>9, <1>14, <2>2, <3>1
    <3>4. h \in c \cap Present'
      BY <1>4, <2>1, <2>2
    <3> QED BY <1>11, <1>20, <2>3, <3>2, <3>3, <3>4
  <2>5. IsChain(c)'
    BY <1>11, <2>3 DEF IsChain
  <2>6. \A q \in Present' \ c : disk(q)'.parent \notin Inner(c)
    BY <1>4, <1>14, <2>2
  <2>7. Inner(c) \cap Listed' = {}
    BY <1>4, <1>11, <2>2
  <2> QED BY <1>1, <2>1, <2>2, <2>3, <2>4, <2>5, <2>6, <2>7 DEF MergeSound, Inner
<1>23. Merging'
  <2>1. \A j, k \in Half' : j = k
    BY <1>13
  <2> QED BY <1>1, <1>11, <1>13, <1>22, <2>1 DEF Inv, Merging
<1>24. AtWork'
  <2>1. IsChain(chain)' /\ chain' \subseteq registered' /\ chain' \subseteq 1 .. base'
    BY <1>1, <1>2, <1>4, <1>11 DEF Inv, AtWork, IsChain, planVars
  <2>2. CASE UseAlias
    <3>1. Parent' \in Half' /\ mergeState'[Parent'].chain = chain'
      BY <1>1, <1>4, <1>11, <1>13, <2>2
    <3>2. chain' \cap Present' = {Parent', Target'} /\ entry'[Target'] = entry'[Parent']
      BY <1>4, <1>5, <1>7, <1>8, <1>11, <2>2
    <3>3. \A k, q \in chain' \cap Present' : k = Parent' => disk(q)'.holds \subseteq disk(k)'.holds
      <4>1. \A q \in chain' \cap Present' : disk(q)' = disk(h)
        BY <1>4, <1>9, <1>11, <3>2
      <4> QED BY <4>1
    <3> QED BY <1>1, <2>1, <2>2, <3>1, <3>2, <3>3 DEF AtWork
  <2>3. CASE ~ UseAlias
    <3>1. Half' = {} /\ chain' \cap Present' = {Target'}
      BY <1>4, <1>5, <1>8, <1>11, <1>13, <2>3
    <3> QED BY <1>1, <2>1, <2>3, <3>1 DEF AtWork
  <2> QED BY <2>2, <2>3
<1>25. Books'
  <2>1. h \notin Listed
    BY <1>4
  <2>2. \A i \in Listed' : i \in Present'
    BY <1>1, <1>3, <1>8, <1>11, <2>1 DEF Inv, Books
  <2> QED BY <1>1, <1>11, <2>2 DEF Inv, Books
<1>26. LinearChain'
  <2> SUFFICES ASSUME NEW q \in Present', NEW r \in Present', entry'[q] # entry'[r],
                      disk(q)'.parent # None, disk(q)'.parent = disk(r)'.parent
               PROVE  FALSE
    BY DEF LinearChain
  <2> DEFINE o(x) == IF x = t THEN h ELSE x
  <2>1. \A x \in Present' : o(x) \in Present /\ entry'[x] = entry[o(x)] /\ disk(x)' = disk(o(x))
    BY <1>4, <1>9
  <2>2. /\ o(q) \in Present /\ o(r) \in Present /\ entry[o(q)] # entry[o(r)]
        /\ disk(o(q)).parent # None /\ disk(o(q)).parent = disk(o(r)).parent
    BY <2>1
  <2> HIDE DEF o
  <2> QED BY <2>2 DEF Inv, LinearChain
<1> QED BY <1>11, <1>15, <1>16, <1>17, <1>18, <1>21, <1>23, <1>24, <1>25, <1>26 DEF Inv

LEMMA UnlinkParentStep ==
  ASSUME Inv, UnlinkParent
  PROVE  Inv'
<1>1. /\ pc = "link" /\ pc' = "drop"
      /\ UNCHANGED <<data, mergeState, metadata, planVars, backupVars, next, todo, chain, faults>>
      /\ entry' = [entry EXCEPT ![Parent] = None]
  BY DEF UnlinkParent
<1>2. pc \in Working \ {"drop"} /\ pc' \in Working /\ pc # "delete"
  BY <1>1 DEF Working
<1>3. PICK h, t : h = Parent /\ t = Target
  OBVIOUS
<1>4. /\ chain \in SUBSET Disks /\ h \in chain /\ h \in Present /\ h \in Disks
      /\ t \in chain /\ t \in Disks /\ h # t /\ Half = {h} /\ mergeState[h].chain = chain
      /\ IsChain(chain) /\ Inner(chain) = chain \ {t} /\ Inner(chain) \cap Listed = {}
      /\ \A q \in Present \ chain : disk(q).parent \notin chain \ {t}
      /\ \A x \in Disks : x \in need[t] <=>
              \/ \E q \in chain \cap Present : x \in disk(q).holds
              \/ x \in Needed(disk(h).parent)
      /\ disk(h).parent \notin chain
  BY <1>1, <1>2, <1>3, WorkFacts
<1>5. chain \cap Present = {h, t} /\ entry[t] = entry[h] /\ t \in Present /\ disk(t) = disk(h)
  BY <1>1, <1>3 DEF Inv, AtWork, disk
<1>6. entry \in [Disks -> Disks \cup {None}]
  BY DEF Inv, Typed
<1>7. /\ entry' \in [Disks -> Disks \cup {None}] /\ entry'[h] = None
      /\ \A q \in Disks : q # h => entry'[q] = entry[q]
  BY <1>1, <1>3, <1>4, <1>6
<1>8. Present' = Present \ {h}
  BY <1>7 DEF Present
<1>9. \A q \in Present' : q \in Present /\ q # h /\ entry'[q] = entry[q] /\ disk(q)' = disk(q)
  BY <1>1, <1>7, <1>8, PresentDisks DEF disk
<1>10. Merges
  <2>1. Present' \ chain = Present \ chain
    BY <1>4, <1>8
  <2>2. \A q \in Present \ chain : entry'[q] = entry[q] /\ disk(q)' = disk(q)
    BY <1>9, <2>1
  <2> QED BY <1>1, <1>2, <2>1, <2>2 DEF Merges
<1>11. /\ Memory' /\ History' /\ Draft' /\ Plan' /\ Present' \subseteq registered'
       /\ Going = {} /\ Going' = {} /\ Listed' = Listed /\ Parent' = h /\ Target' = t
       /\ UNCHANGED <<metadata, format, base, written, need, recorded, expired, lost, chain, faults>>
  BY <1>3, <1>10, MergeStep
<1>12. Alive = Present /\ Alive' = Present'
  BY <1>1, <1>11 DEF Alive, Fading
<1>13. Interrupted' = Interrupted /\ Half' = {}
  <2>1. Interrupted' = Interrupted
    BY <1>1 DEF Interrupted
  <2> QED BY <1>4, <1>8, <2>1 DEF Half
<1>14. Typed'
  BY <1>1, <1>7, <1>11 DEF Inv, Typed
<1>15. Claims'
  <2>1. ASSUME NEW q \in Present', NEW r \in Present', entry'[q] = entry'[r] PROVE q = r
    <3>1. q # h /\ r # h /\ entry[q] = entry[r] /\ q \in Present /\ r \in Present
      BY <1>9, <2>1
    <3> QED BY <1>3, <3>1 DEF Inv, Claims
  <2> QED BY <1>9, <1>11, <2>1 DEF Inv, Claims
<1>16. Readable'
  BY <1>1, <1>3, <1>9, <1>12 DEF Inv, Readable
<1>17. Ancestry'
  <2> SUFFICES ASSUME NEW q \in Present'
               PROVE  disk(q).parent = None \/ (disk(q).parent \in Present /\ disk(q).parent # h)
    BY <1>8, <1>9, <1>12 DEF Ancestry
  <2>1. disk(q).parent = None \/ disk(q).parent \in Present
    BY <1>1, <1>9, <1>12 DEF Inv, Ancestry
  <2>2. disk(q).parent # h
    <3>1. q = t \/ q \notin chain
      BY <1>5, <1>9
    <3> QED BY <1>4, <1>5, <1>9, <3>1
  <2> QED BY <2>1, <2>2
<1>18. disk(h).holds \in SUBSET Disks /\ need[t] \in SUBSET Disks /\ Needed(disk(h).parent) \in SUBSET Disks
  <2>1. disk(h).parent \in 0 .. (h - 1) /\ disk(h).holds \in SUBSET Disks
    BY <1>4, Order DEF Inv
  <2>2. need \in [Disks -> SUBSET Disks]
    BY DEF Inv, Typed
  <2>3. disk(h).parent # None => disk(h).parent \in Disks
    <3>1. h \in 1 .. NDisks /\ NDisks \in Nat
      BY <1>4, ConstantsAssumption DEF Disks
    <3> QED BY <2>1, <3>1 DEF Disks, None
  <2> QED BY <1>4, <2>1, <2>2, <2>3 DEF Needed
<1>19. need[t] = disk(t).holds \cup Needed(disk(t).parent)
  <2>1. \A x \in Disks : x \in need[t] <=> x \in disk(h).holds \/ x \in Needed(disk(h).parent)
    BY <1>4, <1>5
  <2> QED BY <1>5, <1>18, <2>1
<1>20. Sound'
  <2> SUFFICES ASSUME NEW q \in Present'
               PROVE  need[q] = disk(q).holds \cup Needed(disk(q).parent)
    BY <1>9, <1>11, <1>12 DEF Sound, Needed
  <2>1. CASE q = t
    BY <1>19, <2>1
  <2>2. CASE q # t
    <3>1. q \in Present /\ q \notin chain
      BY <1>5, <1>9, <2>2
    <3> QED BY <1>4, <1>12, <3>1 DEF Inv, Sound
  <2> QED BY <2>1, <2>2
<1>21. Merging'
  BY <1>1, <1>11, <1>13 DEF Inv, Merging
<1>22. AtWork'
  <2>1. IsChain(chain)' /\ chain' \subseteq registered' /\ chain' \subseteq 1 .. base'
    BY <1>1, <1>2, <1>4, <1>11 DEF Inv, AtWork, IsChain, planVars
  <2>2. chain' \cap Present' = {Target'}
    BY <1>4, <1>5, <1>8, <1>11
  <2> QED BY <1>1, <1>13, <2>1, <2>2 DEF AtWork
<1>23. Books'
  <2>1. h \notin Listed
    BY <1>4
  <2>2. \A i \in Listed' : i \in Present'
    BY <1>1, <1>8, <1>11, <2>1 DEF Inv, Books
  <2> QED BY <1>1, <1>11, <2>2 DEF Inv, Books
<1>24. LinearChain'
  BY <1>9 DEF Inv, LinearChain
<1> QED BY <1>11, <1>14, <1>15, <1>16, <1>17, <1>20, <1>21, <1>22, <1>23, <1>24 DEF Inv

(* The end of a merge.                                                     *)
LEMMA DropStateStep ==
  ASSUME Inv, DropState
  PROVE  Inv'
<1>1. /\ pc = "drop" /\ pc' = "merge" /\ chain' = {}
      /\ registered' = registered \ (chain \ {Target})
      /\ merged' = merged \cup {Target}
      /\ resumes' = resumes \ {chain}
      /\ merges' = IF resumes = {} THEN merges \ {chain} ELSE merges
      /\ UNCHANGED <<entry, data, metadata, archives, complete, junk, backupVars, next, todo>>
      /\ UNCHANGED <<format, base, written, need, recorded, expired, lost>>
  BY DEF DropState, backupVars
<1>2. /\ (mergeState' = [mergeState EXCEPT ![Parent] = NoMerge] /\ faults' = faults)
         \/ (mergeState' = mergeState /\ faults' = faults + 1 /\ faults < MaxFaults)
  BY DEF DropState
<1>3. PICK h, t : h = Parent /\ t = Target
  OBVIOUS
<1>4. /\ Half = {} /\ chain \cap Present = {t} /\ IsChain(chain) /\ chain \subseteq registered
      /\ chain \in SUBSET Disks /\ h \in chain /\ t \in chain /\ h # t /\ h \in Disks /\ t \in Disks
  <2>1. Half = {} /\ chain \cap Present = {t} /\ IsChain(chain) /\ chain \subseteq registered
    BY <1>1, <1>3 DEF Inv, AtWork, Working
  <2>2. written \in 0 .. NDisks
    BY DEF Inv, History
  <2>3. chain \in SUBSET Disks /\ h \in chain /\ t \in chain /\ h # t /\ h \in Disks /\ t \in Disks
    BY <1>3, <2>1, <2>2, ChainFacts DEF IsChain, Parent, Target
  <2> QED BY <2>1, <2>3
<1>5. Present' = Present /\ \A p : disk(p)' = disk(p)
  BY <1>1 DEF Present, disk
<1>6. /\ Going = {} /\ Going' = {} /\ Fading = {} /\ Fading' = {} /\ Alive = Present /\ Alive' = Present /\ Listed' = Listed
  BY <1>1, <1>5 DEF Going, Fading, Alive, Listed
<1>7. mergeState \in [Disks -> [step : {"absent", "mergeBlocks", "cleanup"}, chain : SUBSET Disks]]
  BY DEF Inv, Typed
<1>8. /\ mergeState' \in [Disks -> [step : {"absent", "mergeBlocks", "cleanup"}, chain : SUBSET Disks]]
      /\ \A k \in Disks : mergeState'[k] = mergeState[k] \/ mergeState'[k] = NoMerge
  <2>1. NoMerge \in [step : {"absent", "mergeBlocks", "cleanup"}, chain : SUBSET Disks]
    BY DEF NoMerge
  <2> QED BY <1>2, <1>7, <2>1
<1>9. Interrupted' \subseteq Interrupted /\ Half' = {}
  <2>1. Interrupted' \subseteq Interrupted
    BY <1>8 DEF Interrupted, NoMerge
  <2> QED BY <1>4, <1>5, <2>1 DEF Half
<1>10. Typed'
  <2>1. faults \in 0 .. MaxFaults /\ MaxFaults \in Nat
    BY ConstantsAssumption DEF Inv, Typed
  <2>2. faults' \in 0 .. MaxFaults
    BY <1>2, <2>1
  <2> QED BY <1>1, <1>8, <2>2 DEF Inv, Typed
<1>11. Memory'
  BY <1>1, <1>3, <1>4 DEF Inv, Memory, Backing, Writing, Steps
<1>12. History'
  BY <1>1, <1>5 DEF Inv, History, Writing
<1>13. Claims'
  <2>1. Present' \subseteq registered'
    BY <1>1, <1>3, <1>4, <1>5 DEF Inv, Claims, Working
  <2> QED BY <1>1, <1>5, <1>6, <2>1 DEF Inv, Claims
<1>14. Readable'
  BY <1>1, <1>5, <1>6 DEF Inv, Readable
<1>15. Ancestry'
  BY <1>1, <1>5, <1>6 DEF Inv, Ancestry
<1>16. Draft'
  BY <1>1 DEF Draft
<1>17. Sound'
  BY <1>1, <1>4, <1>5, <1>6 DEF Inv, Sound, Needed
<1>18. Merging'
  BY <1>1, <1>9 DEF Inv, Merging
<1>19. AtWork'
  BY <1>1 DEF AtWork, Working
<1>20. Plan'
  <2>1. resumes \subseteq {chain} /\ (resumes = {} => chain \in merges) /\ resumes \cap merges = {}
    BY <1>1 DEF Inv, Plan, Working
  <2>2. /\ Planned = (resumes \cup merges) \ {chain} /\ Planned' = resumes' \cup merges' /\ pc' \notin Working
    BY <1>1 DEF Planned, Working
  <2>3. Planned' = Planned
    BY <1>1, <2>1, <2>2
  <2>4. \A c : (Linked(c)' <=> Linked(c)) /\ (IsChain(c)' <=> IsChain(c))
    BY <1>1, <1>5 DEF Linked, IsChain
  <2>5. \A c \in Planned' : IsChain(c)' /\ Linked(c)' /\ c \cap Going' = {} /\ Inner(c) \cap Listed' = {}
    BY <1>6, <2>3, <2>4 DEF Inv, Plan
  <2>6. resumes' = {} /\ merges' \subseteq merges
    BY <1>1, <2>1
  <2>7. \A c, d \in resumes' \cup merges' : c # d => c \cap d = {}
    BY <2>6 DEF Inv, Plan
  <2> QED BY <1>9, <2>2, <2>5, <2>6, <2>7 DEF Plan, Inner
<1>21. Books'
  BY <1>1, <1>5, <1>6 DEF Inv, Books
<1>22. LinearChain'
  BY <1>1, <1>5 DEF Inv, LinearChain
<1> QED BY <1>10, <1>11, <1>12, <1>13, <1>14, <1>15, <1>16, <1>17, <1>18, <1>19, <1>20, <1>21, <1>22 DEF Inv

(* The data nothing leads to goes: nothing else does.                      *)
LEMMA CollectStep ==
  ASSUME Inv, CleanOrphanDataFiles
  PROVE  Inv'
<1> DEFINE live    == {p \in registered : Openable(p)}
           claimed == {entry[p] : p \in live}
<1>1. /\ pc = "collect" /\ pc' = "archives" /\ todo' = archives
      /\ UNCHANGED <<mergeState, metadata, registered, archives, complete, junk, resumes, merges, merged,
                     format, base, written, need, recorded, expired, lost, next, chain, faults>>
      /\ entry' = [p \in Disks |-> IF UseAlias /\ p \in registered \ live THEN None ELSE entry[p]]
      /\ data' = IF UseAlias /\ claimed # {}
                 THEN [d \in Disks |-> IF d \in claimed THEN data[d] ELSE NoData]
                 ELSE data
  BY DEF CleanOrphanDataFiles, planVars, backupVars
<1>2. Going = {} /\ Fading = {} /\ pc \notin {"state", "unlink", "link", "torn"} \cup Writing
  BY <1>1 DEF Going, Fading, Writing
<1>3. Settled /\ Alive = Present
  BY <1>2, AtRest
<1>4. Present \subseteq registered /\ \A p \in Present : Openable(p)
  BY <1>1, <1>3 DEF Inv, Claims, Settled, Openable
<1>5. Present \subseteq live
  BY <1>4
<1>6. /\ entry \in [Disks -> Disks \cup {None}]
      /\ data \in [Disks -> [exists : BOOLEAN, uuid : Disks \cup {None},
                          parent : Disks \cup {None}, bat : SUBSET Disks, holds : SUBSET Disks]]
      /\ \A d \in Disks : data[d].parent < d
  BY DEF Inv, Typed
<1>7. \A p \in Present : entry[p] \in claimed /\ entry[p] \in Disks
  BY <1>5, Order DEF Inv
<1> HIDE DEF live, claimed
<1>8. entry' = entry
  <2>1. \A p \in Disks : p \notin Present => entry[p] = None
    BY DEF Present
  <2>2. \A p \in Disks : (IF UseAlias /\ p \in registered \ live THEN None ELSE entry[p]) = entry[p]
    BY <1>5, <2>1
  <2> QED BY <1>1, <1>6, <2>2
<1>9. \A p \in Present : data'[entry[p]] = data[entry[p]]
  BY <1>1, <1>7
<1>10. \A p \in Present : disk(p)' = disk(p)
  BY <1>8, <1>9 DEF disk
<1>11. Typed'
  <2>1. \A d \in Disks : data'[d] = data[d] \/ data'[d] = NoData
    BY <1>1, <1>6
  <2>2. \A d \in Disks : data'[d].parent < d
    BY <1>6, <2>1, NoDataType
  <2>3. data' \in [Disks -> [exists : BOOLEAN, uuid : Disks \cup {None},
                          parent : Disks \cup {None}, bat : SUBSET Disks, holds : SUBSET Disks]]
    BY <1>1, <1>6, NoDataType
  <2> QED BY <1>1, <1>6, <1>8, <2>2, <2>3 DEF Inv, Typed
<1>12. Listed' = Listed
  BY <1>1 DEF Listed
<1>13. Quietly
  BY <1>1, <1>2, <1>8, <1>10, <1>12 DEF Quietly, Working
<1>14. /\ Present' = Present /\ Going' = {}
       /\ Claims' /\ Readable' /\ Ancestry' /\ Sound' /\ Merging' /\ AtWork' /\ LinearChain'
  BY <1>1, <1>11, <1>13, QuietStep
<1>15. Memory'
  BY <1>1 DEF Inv, Memory, Backing, Writing, Steps
<1>16. History'
  BY <1>1, <1>14 DEF Inv, History, Writing
<1>17. Draft'
  BY <1>1 DEF Draft
<1>18. Plan'
  <2>1. resumes' = {} /\ merges' = {} /\ pc' \notin Working
    BY <1>1 DEF Inv, Memory, Working
  <2> QED BY <2>1, QuietPlan
<1>19. Books'
  BY <1>1, <1>12, <1>14 DEF Inv, Books
<1> QED BY <1>11, <1>14, <1>15, <1>16, <1>17, <1>18, <1>19 DEF Inv

(* A new disk: its data, then, behind an alias, its path.                  *)
LEMMA GrowStep ==
  ASSUME Inv, pc \in {"transfer", "alias"}, pc' \in {"alias", "record"},
         NEW n \in Disks, NEW N \in {{}, {n}}, pc' = "record" <=> N = {n},
         base < n, written' = n, written <= n, n \notin Present, n \notin Interrupted,
         UNCHANGED <<mergeState, metadata, registered, archives, complete, junk, resumes, merges, merged,
                     format, base, recorded, expired, lost, next, todo, chain, faults>>,
         Typed',
         Present' = Present \cup N,
         \A q \in Present : entry'[q] = entry[q] /\ disk(q)' = disk(q),
         N = {n} => entry'[n] = n,
         data'[n].exists, data'[n].uuid = n,
         data'[n].parent = None \/ (data'[n].parent = base /\ base \in Present),
         need'[n] = data'[n].holds \cup (IF data'[n].parent = None THEN {} ELSE need'[data'[n].parent]),
         \A r \in Disks \ {n} : need'[r] = need[r]
  PROVE  Inv'
<1>1. Going = {} /\ Fading = {} /\ pc \notin {"state", "unlink", "link", "torn"} \cup Writing \cup Working
  BY DEF Going, Fading, Writing, Working
<1>2. Settled /\ Alive = Present
  BY <1>1, AtRest
<1>3. /\ written \in 0 .. NDisks /\ base \in 0 .. written /\ recorded \subseteq 1 .. written
      /\ expired \subseteq recorded /\ lost = {} /\ \A q \in Present : q <= base
  BY <1>1 DEF Inv, History
<1>4. n \in 1 .. NDisks /\ NDisks \in Nat /\ base \in Nat /\ n \in Nat
  BY <1>3, ConstantsAssumption DEF Disks
<1>5. /\ Going' = {} /\ Fading' = {} /\ Alive' = Present'
      /\ pc' \notin {"state", "unlink", "link", "torn", "mark", "delete", "merge", "collect", "archives"} \cup Working
  BY DEF Going, Fading, Alive, Working
<1>6. N = {n} => disk(n)' = data'[n]
  BY DEF disk
<1>7. \A q \in Present' : q \in Present \/ (q = n /\ N = {n} /\ pc' = "record")
  OBVIOUS
<1>8. \A q \in Present : /\ q \in Disks /\ q \in Nat /\ q <= base /\ q # n /\ entry[q] # n
                         /\ disk(q).parent \in Nat /\ disk(q).parent < base
                         /\ disk(q).parent # n
                         /\ (disk(q).parent # None => disk(q).parent \in Disks)
  <2> SUFFICES ASSUME NEW q \in Present
               PROVE  /\ q \in Disks /\ q \in Nat /\ q <= base /\ q # n /\ entry[q] # n
                      /\ disk(q).parent \in Nat /\ disk(q).parent < base
                      /\ disk(q).parent # n
                      /\ (disk(q).parent # None => disk(q).parent \in Disks)
    OBVIOUS
  <2>1. q \in Disks /\ q \in Nat /\ q <= base
    BY <1>3, PresentDisks
  <2>2. disk(q).parent \in 0 .. (q - 1)
    BY Order DEF Inv
  <2>3. entry[q] \in Nat /\ entry[q] <= q
    BY Order, PresentDisks DEF Inv, Claims
  <2>4. disk(q).parent # None => disk(q).parent \in Disks
    BY <1>2, PresentDisks DEF Settled
  <2> QED BY <1>4, <2>1, <2>2, <2>3, <2>4
<1>9. Interrupted' = Interrupted /\ Half' = Half /\ Listed' = Listed
  <2>1. Interrupted' = Interrupted /\ Listed' = Listed
    BY DEF Interrupted, Listed
  <2> QED BY <2>1 DEF Half
<1>10. Memory'
  BY <1>5 DEF Inv, Memory, Backing, Writing, Steps
<1>11. History'
  <2>1. /\ written' \in 0 .. NDisks /\ base' \in 0 .. written' /\ base' < written'
        /\ recorded' \subseteq 1 .. written' /\ expired' \subseteq recorded' /\ lost' = {}
    BY <1>3, <1>4
  <2>2. \A q \in Present' : q <= base' \/ (q = written' /\ pc' \in Writing)
    BY <1>7, <1>8 DEF Writing
  <2>3. pc' \in Writing => written' \in Present'
    BY DEF Writing
  <2> QED BY <2>1, <2>2, <2>3 DEF History
<1>12. Claims'
  <2>1. \A q \in Present' : entry'[q] <= q
    BY <1>4, <1>7 DEF Inv, Claims
  <2>2. ASSUME NEW q \in Present', NEW r \in Present', entry'[q] = entry'[r] PROVE q = r
    <3>1. CASE q \in Present /\ r \in Present
      BY <1>1, <2>2, <3>1 DEF Inv, Claims
    <3>2. CASE q = n /\ r = n
      BY <3>2
    <3>3. CASE q \in Present /\ r = n /\ N = {n}
      BY <1>8, <2>2, <3>3
    <3>4. CASE r \in Present /\ q = n /\ N = {n}
      BY <1>8, <2>2, <3>4
    <3> QED BY <1>7, <3>1, <3>2, <3>3, <3>4
  <2> QED BY <1>5, <2>1, <2>2 DEF Claims
<1>13. Readable'
  <2> SUFFICES ASSUME NEW q \in Present' PROVE disk(q)'.exists /\ disk(q)'.uuid = q
    BY <1>5 DEF Readable
  <2>1. CASE q \in Present
    BY <1>2, <2>1 DEF Settled
  <2>2. CASE q = n /\ N = {n}
    BY <1>6, <2>2
  <2> QED BY <1>7, <2>1, <2>2
<1>14. Ancestry'
  <2> SUFFICES ASSUME NEW q \in Present' PROVE disk(q)'.parent = None \/ disk(q)'.parent \in Present
    BY <1>5 DEF Ancestry
  <2>1. CASE q \in Present
    BY <1>2, <2>1 DEF Settled
  <2>2. CASE q = n /\ N = {n}
    BY <1>6, <2>2
  <2> QED BY <1>7, <2>1, <2>2
<1>15. Draft'
  <2>1. base \in Present => base \in Present'
    OBVIOUS
  <2> QED BY <2>1 DEF Draft, Needed
<1>16. \A q \in Present : need'[q] = need[q] /\ Needed(disk(q).parent)' = Needed(disk(q).parent)
  BY <1>8 DEF Needed
<1>17. Sound'
  <2> SUFFICES ASSUME NEW q \in Present'
               PROVE  \/ need'[q] = disk(q)'.holds \cup Needed(disk(q).parent)'
                      \/ \E h \in Half : q \in mergeState[h].chain
    BY <1>5, <1>9 DEF Sound
  <2>1. CASE q \in Present
    BY <1>2, <1>16, <2>1 DEF Inv, Sound
  <2>2. CASE q = n /\ N = {n}
    BY <1>6, <2>2 DEF Needed
  <2> QED BY <1>7, <2>1, <2>2
<1>18. ASSUME NEW h \in Half' PROVE MergeSound(h)'
  <2>1. PICK c : c = mergeState[h].chain
    OBVIOUS
  <2>2. h \in Half /\ h \in Present
    BY <1>9 DEF Half
  <2>3. /\ IsChain(c) /\ Min(c) = h
        /\ Inner(c) \cap Listed = {}
        /\ mergeState[h].step = "mergeBlocks" /\ Linked(c)
        /\ \A q \in Present \ c : disk(q).parent \notin Inner(c)
        /\ \A x \in Disks : x \in need[Max(c)] <=>
              \/ \E q \in c \cap Present : x \in disk(q).holds
              \/ x \in Needed(disk(h).parent)
    BY <1>1, <2>1, <2>2 DEF Inv, Merging, MergeSound
  <2>4. /\ c \subseteq Present /\ n \notin c /\ c \cap Present' = c /\ c \cap Present = c
    BY <1>8, <2>3 DEF Linked
  <2>5. Linked(c)'
    BY <2>3, <2>4 DEF Linked
  <2>6. IsChain(c)'
    <3>1. 1 .. written \subseteq 1 .. n
      BY <1>3, <1>4
    <3> QED BY <2>3, <3>1 DEF IsChain
  <2>7. Max(c) \in c /\ Inner(c) \subseteq c /\ \A q \in Inner(c) : q < Max(c)
    BY <1>3, <2>3, ChainFacts DEF IsChain
  <2>8. \A x \in Disks : x \in need'[Max(c)] <=>
              \/ \E q \in c \cap Present' : x \in disk(q)'.holds
              \/ x \in Needed(disk(h).parent)'
    <3>1. need'[Max(c)] = need[Max(c)] /\ \A q \in c : disk(q)' = disk(q)
      BY <1>16, <2>4, <2>7
    <3>2. Needed(disk(h).parent)' = Needed(disk(h).parent)
      BY <1>16, <2>2
    <3> QED BY <2>3, <2>4, <3>1, <3>2
  <2>9. ASSUME NEW q \in Present' \ c PROVE disk(q)'.parent \notin Inner(c)
    <3>1. CASE q \in Present
      BY <2>3, <3>1
    <3>2. CASE q = n /\ N = {n}
      <4>1. base \notin Inner(c)
        <5>1. Max(c) \in Nat /\ Max(c) <= base
          BY <1>8, <2>4, <2>7
        <5> QED BY <1>4, <2>7, <5>1
      <4>2. None \notin Inner(c)
        BY <2>4, <2>7, PresentDisks
      <4> QED BY <1>6, <3>2, <4>1, <4>2
    <3> QED BY <1>7, <3>1, <3>2
  <2> QED BY <1>5, <1>9, <2>1, <2>3, <2>5, <2>6, <2>8, <2>9 DEF MergeSound, Inner
<1>19. Merging'
  <2>1. Interrupted' \subseteq 1 .. n
    <3>1. 1 .. written \subseteq 1 .. n
      BY <1>3, <1>4
    <3> QED BY <1>9, <3>1 DEF Inv, Merging
  <2> QED BY <1>9, <1>18, <2>1 DEF Inv, Merging
<1>20. AtWork'
  BY <1>5 DEF AtWork, Working
<1>21. Plan'
  <2>1. resumes' = {} /\ merges' = {}
    BY DEF Inv, Memory, Backing
  <2> QED BY <1>5, <2>1, QuietPlan
<1>22. Books'
  <2>1. \A i \in Listed' : i \in Present'
    BY <1>1, <1>9 DEF Inv, Books
  <2>2. \A i \in Disks : metadata[i] # "torn"
    BY NotTorn
  <2> QED BY <1>5, <2>1, <2>2 DEF Inv, Books
<1>23. LinearChain'
  <2> SUFFICES ASSUME NEW q \in Present', NEW r \in Present', entry'[q] # entry'[r],
                      disk(q)'.parent # None, disk(q)'.parent = disk(r)'.parent
               PROVE  FALSE
    BY DEF LinearChain
  <2>1. CASE q \in Present /\ r \in Present
    BY <2>1 DEF Inv, LinearChain
  <2>2. CASE q \in Present /\ r = n /\ N = {n}
    <3>1. disk(q).parent = base \/ disk(q).parent = None
      BY <1>6, <2>2
    <3> QED BY <1>4, <1>8, <2>2, <3>1
  <2>3. CASE r \in Present /\ q = n /\ N = {n}
    <3>1. disk(r).parent = base
      BY <1>6, <2>3
    <3> QED BY <1>4, <1>8, <2>3, <3>1
  <2> QED BY <1>7, <2>1, <2>2, <2>3
<1> QED BY <1>10, <1>11, <1>12, <1>13, <1>14, <1>15, <1>17, <1>19, <1>20, <1>21, <1>22, <1>23 DEF Inv

LEMMA WriteDiskStep ==
  ASSUME Inv, WriteDisk
  PROVE  Inv'
<1>1. PICK n : n = written + 1
  OBVIOUS
<1>2. PICK parent \in Bases \cup {None} :
         /\ data' = [data EXCEPT ![n] = [exists |-> TRUE, uuid |-> n, parent |-> parent, bat |-> {n}, holds |-> {n}]]
         /\ need' = [need EXCEPT ![n] = {n} \cup (IF parent = None THEN {} ELSE need[base])]
  BY <1>1 DEF WriteDisk
<1>3. /\ pc = "transfer" /\ written' = n
      /\ entry' = IF UseAlias THEN entry ELSE [entry EXCEPT ![n] = n]
      /\ pc' = IF UseAlias THEN "alias" ELSE "record"
      /\ UNCHANGED <<mergeState, metadata, registered, archives, complete, junk, resumes, merges, merged,
                     format, base, recorded, expired, lost, next, todo, chain, faults>>
  BY <1>1 DEF WriteDisk, planVars
<1>4. written \in 0 .. NDisks /\ base \in 0 .. written /\ written < NDisks /\ NDisks \in Nat
      /\ \A q \in Present : q <= base
  BY <1>3, ConstantsAssumption DEF Inv, History, Memory, Writing
<1>5. n \in Disks /\ n \in Nat /\ base < n /\ written < n /\ written <= n /\ base \in Nat
  BY <1>1, <1>4 DEF Disks
<1>6. n \notin Present /\ n \notin Interrupted
  <2>1. n \notin Present
    BY <1>4, <1>5
  <2>2. Interrupted \subseteq 1 .. written
    BY DEF Inv, Merging
  <2> QED BY <1>4, <1>5, <2>1, <2>2
<1>7. Going = {} /\ pc \notin {"state", "unlink", "link"}
  BY <1>3 DEF Going
<1>8. Settled
  BY <1>7, AtRest
<1>9. parent = None \/ (parent = base /\ base \in Present)
  BY <1>8 DEF Bases, Settled
<1>10. /\ entry \in [Disks -> Disks \cup {None}]
       /\ data \in [Disks -> [exists : BOOLEAN, uuid : Disks \cup {None},
                          parent : Disks \cup {None}, bat : SUBSET Disks, holds : SUBSET Disks]]
       /\ \A d \in Disks : data[d].parent < d
       /\ need \in [Disks -> SUBSET Disks]
  BY DEF Inv, Typed
<1>11. parent \in Disks \cup {None} /\ parent < n /\ (parent # None => parent \in Disks)
  <2>1. base \in Present => base \in Disks
    BY PresentDisks
  <2> QED BY <1>5, <1>9, <2>1 DEF None
<1>12. /\ data'[n] = [exists |-> TRUE, uuid |-> n, parent |-> parent, bat |-> {n}, holds |-> {n}]
       /\ \A d \in Disks \ {n} : data'[d] = data[d]
       /\ data' \in [Disks -> [exists : BOOLEAN, uuid : Disks \cup {None},
                          parent : Disks \cup {None}, bat : SUBSET Disks, holds : SUBSET Disks]]
  <2>1. [exists |-> TRUE, uuid |-> n, parent |-> parent, bat |-> {n}, holds |-> {n}] \in
           [exists : BOOLEAN, uuid : Disks \cup {None},
            parent : Disks \cup {None}, bat : SUBSET Disks, holds : SUBSET Disks]
    BY <1>5, <1>11
  <2> QED BY <1>2, <1>5, <1>10, <2>1
<1>13. /\ need'[n] = {n} \cup (IF parent = None THEN {} ELSE need[base])
       /\ \A r \in Disks \ {n} : need'[r] = need[r]
       /\ need' \in [Disks -> SUBSET Disks]
  <2>1. parent # None => need[base] \in SUBSET Disks
    BY <1>9, <1>10, PresentDisks
  <2>2. {n} \cup (IF parent = None THEN {} ELSE need[base]) \in SUBSET Disks
    BY <1>5, <2>1
  <2> QED BY <1>2, <1>5, <1>10, <2>2
<1>14. need'[n] = data'[n].holds \cup (IF data'[n].parent = None THEN {} ELSE need'[data'[n].parent])
  <2>1. parent # None => parent = base /\ need'[parent] = need[base]
    BY <1>5, <1>9, <1>11, <1>13
  <2> QED BY <1>12, <1>13, <2>1
<1>15. \A q \in Present : entry[q] \in Disks /\ entry[q] # n /\ q # n
  <2> SUFFICES ASSUME NEW q \in Present PROVE entry[q] \in Disks /\ entry[q] # n /\ q # n
    OBVIOUS
  <2>1. entry[q] \in Disks /\ entry[q] <= q /\ q <= base
    BY <1>4, Order DEF Inv, Claims
  <2>2. entry[q] \in Nat /\ q \in Nat
    BY <2>1, PresentDisks
  <2> QED BY <1>5, <2>1, <2>2
<1>16. PICK N : N = IF UseAlias THEN {} ELSE {n}
  OBVIOUS
<1>17. N \in {{}, {n}} /\ (pc' = "record" <=> N = {n}) /\ pc' \in {"alias", "record"}
  BY <1>3, <1>16
<1>18. Present' = Present \cup N /\ (N = {n} => entry'[n] = n) /\ entry' \in [Disks -> Disks \cup {None}]
       /\ \A q \in Present : entry'[q] = entry[q]
  <2>1. n # None
    BY <1>5, PresentDisks
  <2>2. CASE UseAlias
    BY <1>3, <1>10, <1>16, <2>2 DEF Present
  <2>3. CASE ~ UseAlias
    <3>1. entry' = [entry EXCEPT ![n] = n] /\ N = {n}
      BY <1>3, <1>16, <2>3
    <3>2. entry'[n] = n /\ entry' \in [Disks -> Disks \cup {None}] /\ \A q \in Disks : q # n => entry'[q] = entry[q]
      BY <1>5, <1>10, <3>1
    <3>3. Present' = Present \cup {n}
      BY <1>5, <2>1, <3>2 DEF Present
    <3>4. \A q \in Present : entry'[q] = entry[q]
      BY <1>15, <3>2, PresentDisks
    <3> QED BY <3>1, <3>2, <3>3, <3>4
  <2> QED BY <2>2, <2>3
<1>19. \A q \in Present : disk(q)' = disk(q)
  BY <1>12, <1>15, <1>18 DEF disk
<1>20. Typed'
  <2>1. \A d \in Disks : data'[d].parent < d
    BY <1>10, <1>11, <1>12
  <2> QED BY <1>3, <1>12, <1>13, <1>18, <2>1 DEF Inv, Typed
<1>21. data'[n].exists /\ data'[n].uuid = n /\ (data'[n].parent = None \/ (data'[n].parent = base /\ base \in Present))
  BY <1>9, <1>12
<1> QED BY <1>3, <1>5, <1>6, <1>13, <1>14, <1>17, <1>18, <1>19, <1>20, <1>21, GrowStep

LEMMA CreateAliasStep ==
  ASSUME Inv, CreateAlias
  PROVE  Inv'
<1>1. /\ pc = "alias" /\ pc' = "record" /\ entry' = [entry EXCEPT ![written] = written]
      /\ UNCHANGED <<data, mergeState, metadata, registered, archives, complete, junk, resumes, merges, merged,
                     format, base, written, need, recorded, expired, lost, next, todo, chain, faults>>
  BY DEF CreateAlias, planVars, backupVars
<1>2. PICK n : n = written
  OBVIOUS
<1>3. /\ written \in 0 .. NDisks /\ base \in 0 .. written /\ base < written /\ NDisks \in Nat
      /\ \A q \in Present : q <= base
  BY <1>1, ConstantsAssumption DEF Inv, History, Writing
<1>4. n \in Disks /\ n \in Nat /\ base < n /\ written <= n /\ base \in Nat /\ n # None
  BY <1>2, <1>3 DEF Disks, None
<1>5. n \notin Present /\ n \notin Interrupted
  <2>1. n \notin Present
    BY <1>3, <1>4
  <2> QED BY <1>1, <1>2, <2>1 DEF Inv, Merging
<1>6. /\ data[n].exists /\ data[n].uuid = n
      /\ data[n].parent = None \/ (data[n].parent = base /\ base \in Present)
      /\ need[n] = data[n].holds \cup (IF data[n].parent = None THEN {} ELSE need[data[n].parent])
  BY <1>1, <1>2 DEF Inv, Draft, Needed
<1>7. entry \in [Disks -> Disks \cup {None}]
  BY DEF Inv, Typed
<1>8. /\ entry'[n] = n /\ entry' \in [Disks -> Disks \cup {None}]
      /\ \A q \in Disks : q # n => entry'[q] = entry[q]
  BY <1>1, <1>2, <1>4, <1>7
<1>9. Present' = Present \cup {n}
  BY <1>4, <1>8 DEF Present
<1>10. \A q \in Present : entry'[q] = entry[q]
  BY <1>5, <1>8, PresentDisks
<1>11. \A q \in Present : disk(q)' = disk(q)
  BY <1>1, <1>10 DEF disk
<1>12. Typed'
  BY <1>1, <1>8 DEF Inv, Typed
<1>13. PICK N : N = {n}
  OBVIOUS
<1>14. N \in {{}, {n}} /\ (pc' = "record" <=> N = {n}) /\ Present' = Present \cup N
  BY <1>1, <1>9, <1>13
<1> QED BY <1>1, <1>2, <1>4, <1>5, <1>6, <1>8, <1>10, <1>11, <1>12, <1>14, GrowStep

(***************************************************************************)
(* The invariant holds.                                                    *)
(***************************************************************************)

LEMMA CleanInv ==
  ASSUME Inv, CleanStep
  PROVE  Inv'
<1>1. CASE \E byName, merge \in BOOLEAN : Scan(byName, merge)
  BY <1>1, ScanStep
<1>2. CASE \E p \in Disks : DeleteData(p) \/ DeletePath(p)
  BY <1>2, DeleteStep
<1>3. CASE EndDelete
  BY <1>3, EndDeleteStep
<1>4. CASE \E c \in resumes \cup merges : StartMerge(c)
  BY <1>4, StartMergeStep
<1>5. CASE MergeBlocks
  BY <1>5, MergeBlocksStep
<1>6. CASE MergeMetadata
  BY <1>6, MergeMetadataStep
<1>7. CASE BeginCleanup
  BY <1>7, BeginCleanupStep
<1>8. CASE \E p \in Disks : UnlinkData(p) \/ UnlinkPath(p)
  BY <1>8, UnlinkStep
<1>9. CASE Rename
  BY <1>9, RenameStep
<1>10. CASE UnlinkParent
  BY <1>10, UnlinkParentStep
<1>11. CASE DropState
  BY <1>11, DropStateStep
<1>12. CASE EndMerge
  BY <1>12, EndMergeStep
<1>13. CASE CleanOrphanDataFiles
  BY <1>13, CollectStep
<1>14. CASE \E i \in Disks : RemoveMetadata(i) \/ KeepMetadata(i) \/ BeginUpdate(i) \/ EndUpdate(i)
  <2>1. PICK i \in Disks : RemoveMetadata(i) \/ KeepMetadata(i) \/ BeginUpdate(i) \/ EndUpdate(i)
    BY <1>14
  <2>2. CASE RemoveMetadata(i)
    BY <2>2, RemoveMetadataNever
  <2>3. CASE KeepMetadata(i) \/ BeginUpdate(i) \/ EndUpdate(i)
    BY <2>3, ArchiveStep
  <2> QED BY <2>1, <2>2, <2>3
<1>15. CASE EndClean
  BY <1>15, EndCleanStep
<1> QED
  BY <1>1, <1>2, <1>3, <1>4, <1>5, <1>6, <1>7, <1>8, <1>9, <1>10, <1>11, <1>12, <1>13,
     <1>14, <1>15 DEF CleanStep

LEMMA InvStep ==
  ASSUME Inv, Calm, [Next]_vars
  PROVE  Inv'
<1>1. CASE Begin
  BY <1>1, BeginStep
<1>2. CASE CleanStep
  BY <1>2, CleanInv
<1>3. CASE BackupStep
  <2>1. CASE WriteDisk
    BY <2>1, WriteDiskStep
  <2>2. CASE CreateAlias
    BY <2>2, CreateAliasStep
  <2>3. CASE BeginRecord \/ EndRecord \/ MarkExported
    BY <2>3, RecordStep
  <2> QED BY <1>3, <2>1, <2>2, <2>3 DEF BackupStep
<1>4. CASE \E i \in Disks : Expire(i)
  BY <1>4, ExpireStep
<1>5. CASE \E p \in Disks : SkipDelete(p) \/ Lose(p)
  <2>1. "delete" \notin FaultPoints /\ "lose" \notin FaultPoints
    BY DEF Calm
  <2> QED BY <1>5, <2>1 DEF SkipDelete, Lose
<1>6. CASE Fault
  BY <1>6, FaultStep
<1>7. CASE UNCHANGED vars
  BY <1>7, StutterStep
<1> QED BY <1>1, <1>2, <1>3, <1>4, <1>5, <1>6, <1>7 DEF Next

(* The inductive invariant: what the disks, the metadata and merge state   *)
(* files of a VDI directory, and the memory of the process that works on   *)
(* it, have in common after every file operation of backups, deletions and *)
(* cleanVm, with faults at the points Calm allows.                         *)
THEOREM Invariant == ASSUME Calm PROVE Spec => []Inv
<1>1. Init => Inv
  BY InitInv
<1>2. Inv /\ [Next]_vars => Inv'
  BY InvStep
<1> QED BY <1>1, <1>2, PTL DEF Spec

(***************************************************************************)
(* What the invariant says of the backups.                                 *)
(***************************************************************************)

(* The disks a backup may use.                                             *)
Useful(p) == /\ p \in Alive \/ (pc = "unlink" /\ p = Target)
             /\ \A h \in Half : p \notin Inner(mergeState[h].chain)
Stored == UNION {disk(p).holds : p \in {q \in Present : Openable(q)}}

LEMMA AliveFacts ==
  ASSUME Inv, NEW p \in Alive
  PROVE  /\ p \in Present /\ p \in Disks /\ p \in Nat /\ disk(p).exists /\ disk(p).parent \in 0 .. (p - 1)
         /\ disk(p).holds \subseteq Stored
         /\ \/ disk(p).parent = None \/ disk(p).parent \in Alive
            \/ (pc = "unlink" /\ disk(p).parent = Target)
<1>1. p \in Present /\ p \in Disks /\ p \in Nat
  BY PresentDisks DEF Alive
<1>2. disk(p).exists
  BY <1>1 DEF Inv, Readable
<1>3. disk(p).parent \in 0 .. (p - 1)
  BY <1>1, Order DEF Inv
<1>4. disk(p).holds \subseteq Stored
  BY <1>1, <1>2 DEF Stored, Openable
<1>5. \/ disk(p).parent = None \/ disk(p).parent \in Alive
      \/ (pc = "unlink" /\ disk(p).parent = Target)
  BY DEF Inv, Ancestry
<1> QED BY <1>1, <1>2, <1>3, <1>4, <1>5

(* The disks of a merge under way or interrupted.                          *)
LEMMA HalfFacts ==
  ASSUME Inv, NEW h \in Half, NEW c, c = mergeState[h].chain
  PROVE  /\ c \in SUBSET Disks /\ h \in c /\ Max(c) \in c /\ Max(c) \in Disks /\ h \in Alive
         /\ Inner(c) = c \ {Max(c)}
         /\ \A q \in c : h <= q /\ q <= Max(c)
         /\ Inner(c) \cap Listed = {}
         /\ pc = "unlink" => Target = Max(c)
         /\ \A q \in Present \ c : disk(q).parent \notin Inner(c)
         /\ \A q \in c \cap Present : disk(q).holds \subseteq Stored
         /\ \A x \in Disks : x \in need[Max(c)] =>
              \/ \E q \in c \cap Present : x \in disk(q).holds
              \/ x \in Needed(disk(h).parent)
<1>1. /\ IsChain(c) /\ Min(c) = h /\ Inner(c) \cap Listed = {}
      /\ pc \notin {"unlink", "link"} => c \cap Going = {}
      /\ \A q \in Present \ c : disk(q).parent \notin Inner(c)
      /\ \A x \in Disks : x \in need[Max(c)] <=>
              \/ \E q \in c \cap Present : x \in disk(q).holds
              \/ x \in Needed(disk(h).parent)
  BY DEF Inv, Merging, MergeSound
<1>2. written \in 0 .. NDisks
  BY DEF Inv, History
<1>3. /\ c \in SUBSET Disks /\ h \in c /\ Max(c) \in c /\ Max(c) \in Disks
      /\ \A q \in c : h <= q /\ q <= Max(c)
  BY <1>1, <1>2, ChainFacts DEF IsChain
<1>4. h \in Present
  BY DEF Half
<1>5. pc \in {"unlink", "link"} =>
        /\ h = Parent /\ chain = c /\ Going = {}
        /\ \A q \in c \cap Present : disk(q).holds \subseteq disk(h).holds
  <2> SUFFICES ASSUME pc \in {"unlink", "link"}
               PROVE  /\ h = Parent /\ chain = c /\ Going = {}
                      /\ \A q \in c \cap Present : disk(q).holds \subseteq disk(h).holds
    OBVIOUS
  <2>1. pc \in Working \ {"drop"}
    BY DEF Working
  <2>2. h = Parent /\ chain = c
    BY <2>1, WorkFacts
  <2>3. \A k, q \in chain \cap Present : k = Parent => disk(q).holds \subseteq disk(k).holds
    BY DEF Inv, AtWork
  <2> QED BY <1>3, <1>4, <2>2, <2>3 DEF Going
<1>6. h \in Alive
  <2>1. h \notin Going
    BY <1>1, <1>3, <1>5
  <2>2. h \notin Fading
    BY <1>5 DEF Fading
  <2> QED BY <1>4, <2>1, <2>2 DEF Alive
<1>7. ASSUME NEW q \in c \cap Present PROVE disk(q).holds \subseteq Stored
  <2>1. CASE pc \in {"unlink", "link"}
    BY <1>5, <1>6, <2>1, AliveFacts
  <2>2. CASE pc \notin {"unlink", "link"}
    <3>1. q \in Alive
      BY <1>1, <2>2 DEF Alive, Fading
    <3> QED BY <3>1, AliveFacts
  <2> QED BY <2>1, <2>2
<1>8. pc = "unlink" => Target = Max(c)
  BY <1>5 DEF Target
<1> QED BY <1>1, <1>3, <1>6, <1>7, <1>8 DEF Inner

(* Every change a useful disk needs is stored.                             *)
LEMMA AllStored ==
  ASSUME Inv, NEW d, Useful(d)
  PROVE  need[d] \subseteq Stored
<1>1. \A p : Useful(p) => p \in Disks /\ p \in Nat
  <2>1. pc = "unlink" => Target \in Disks
    BY WorkFacts DEF Working
  <2> QED BY <2>1, PresentDisks DEF Useful, Alive
<1> DEFINE Bad == {p \in Disks : Useful(p) /\ ~ (need[p] \subseteq Stored)}
<1> SUFFICES ASSUME Bad # {} PROVE FALSE
  BY <1>1
<1>2. PICK p \in Bad : \A x \in Bad : p <= x
  <2>1. Bad \in SUBSET Nat
    BY PresentDisks
  <2> HIDE DEF Bad
  <2> QED BY <2>1, Least
<1>3. p \in Disks /\ p \in Nat /\ Useful(p)
  BY <1>1, <1>2
<1>4. PICK x \in need[p] : x \notin Stored
  BY <1>2
<1>5. ASSUME NEW q, Useful(q), q < p PROVE x \notin need[q]
  <2>1. q \in Disks /\ q \in Nat
    BY <1>1, <1>5
  <2>2. q \notin Bad
    <3> HIDE DEF Bad
    <3> QED BY <1>2, <1>3, <1>5, <2>1
  <2>3. need[q] \subseteq Stored
    BY <1>5, <2>1, <2>2
  <2> QED BY <1>4, <2>3
<1> HIDE DEF Bad
<1>6. x \in Disks
  <2>1. need[p] \in SUBSET Disks
    BY <1>3 DEF Inv, Typed
  <2> QED BY <1>4, <2>1
(* The last disk of a merge.                                               *)
<1>7. ASSUME NEW h \in Half, p \in mergeState[h].chain PROVE FALSE
  <2>1. PICK c : c = mergeState[h].chain
    OBVIOUS
  <2>2. /\ h \in Alive /\ h \in c /\ Inner(c) = c \ {Max(c)} /\ c \in SUBSET Disks
        /\ \A q \in c : h <= q /\ q <= Max(c)
        /\ \A q \in c \cap Present : disk(q).holds \subseteq Stored
        /\ \A y \in Disks : y \in need[Max(c)] =>
              \/ \E q \in c \cap Present : y \in disk(q).holds
              \/ y \in Needed(disk(h).parent)
    BY <2>1, HalfFacts
  <2>3. p = Max(c)
    BY <1>3, <1>7, <2>1, <2>2 DEF Useful
  <2>4. x \in Needed(disk(h).parent)
    BY <1>4, <1>6, <2>2, <2>3
  <2>5. PICK r : r = disk(h).parent
    OBVIOUS
  <2>6. /\ h \in Nat /\ r \in 0 .. (h - 1) /\ (r = None \/ r \in Alive \/ (pc = "unlink" /\ r = Target))
    BY <2>2, <2>5, AliveFacts
  <2>7. r # None /\ x \in need[r]
    BY <2>4, <2>5 DEF Needed
  <2>8. r < h /\ h <= p /\ r < p
    <3>1. h <= p
      BY <2>2, <2>3
    <3> QED BY <1>3, <2>6, <3>1
  <2>9. r \notin c
    <3>1. \A q \in c : h <= q
      BY <2>2
    <3> QED BY <2>6, <2>8, <3>1
  <2>10. \A k \in Half : k = h
    BY DEF Inv, Merging
  <2>11. Useful(r)
    BY <2>1, <2>2, <2>6, <2>7, <2>9, <2>10 DEF Useful
  <2> QED BY <1>5, <2>7, <2>8, <2>11
<1>8. p \in Alive
  <2> SUFFICES ASSUME pc = "unlink", p = Target PROVE FALSE
    BY <1>3 DEF Useful
  <2>1. Half = {Parent} /\ mergeState[Parent].chain = chain /\ Target \in chain
    BY WorkFacts DEF Working
  <2> QED BY <1>7, <2>1
<1>9. need[p] = disk(p).holds \cup Needed(disk(p).parent)
  BY <1>7, <1>8 DEF Inv, Sound
<1>10. PICK r : r = disk(p).parent
  OBVIOUS
<1>11. /\ r \in 0 .. (p - 1) /\ disk(p).holds \subseteq Stored /\ p \in Present
       /\ r = None \/ r \in Alive \/ (pc = "unlink" /\ r = Target)
  BY <1>8, <1>10, AliveFacts
<1>12. r # None /\ x \in need[r]
  BY <1>4, <1>9, <1>10, <1>11 DEF Needed
<1>13. ASSUME NEW h \in Half PROVE r \notin Inner(mergeState[h].chain)
  <2>1. p \notin mergeState[h].chain
    BY <1>7
  <2>2. \A q \in Present \ mergeState[h].chain : disk(q).parent \notin Inner(mergeState[h].chain)
    BY HalfFacts
  <2> QED BY <1>10, <1>11, <2>1, <2>2
<1>14. Useful(r)
  BY <1>11, <1>12, <1>13 DEF Useful
<1>15. r < p
  BY <1>3, <1>11
<1> QED BY <1>5, <1>12, <1>14, <1>15

(* A backup that a metadata file names uses a useful disk.                 *)
LEMMA ListedUseful ==
  ASSUME Inv, NEW i \in Listed
  PROVE  Useful(i)
<1>1. ASSUME NEW h \in Half PROVE i \notin Inner(mergeState[h].chain)
  BY HalfFacts
<1>2. i \notin Going /\ (i \in Present \/ (pc = "unlink" /\ i = Target))
  BY DEF Inv, Books
<1>3. i \in Fading => pc = "unlink" /\ i = Target
  <2> SUFFICES ASSUME i \in Fading PROVE pc = "unlink" /\ i = Target
    OBVIOUS
  <2>1. pc = "unlink" /\ i \in chain
    BY DEF Fading
  <2>2. Half = {Parent} /\ mergeState[Parent].chain = chain /\ Inner(chain) = chain \ {Target}
    BY <2>1, WorkFacts DEF Working
  <2>3. i \notin Inner(chain)
    BY <1>1, <2>2
  <2> QED BY <2>1, <2>2, <2>3
<1> QED BY <1>1, <1>2, <1>3 DEF Useful, Alive

LEMMA BackupListed ==
  ASSUME Inv, NEW i \in Backups
  PROVE  i \in Disks /\ metadata[i] # "absent" /\ i \in Listed
<1>1. i \in recorded \ expired /\ i \in Disks
  BY ConstantsAssumption DEF Backups, Inv, History, Disks
<1>2. metadata[i] # "absent"
  BY <1>1 DEF Inv, Books
<1> QED BY <1>1, <1>2 DEF Listed

(* What a restore reads, when nobody works on the directory.               *)
LEMMA ContentFacts ==
  ASSUME Inv, Settled, NEW p \in Present
  PROVE  ChainContent[p] = disk(p).holds \cup (IF disk(p).parent = None THEN {}
                                               ELSE ChainContent[disk(p).parent])
<1> DEFINE Body(f, q) == IF ~ Openable(q) THEN {}
                         ELSE disk(q).holds \cup (IF disk(q).parent = None THEN {}
                                                  ELSE f[disk(q).parent])
           content == CHOOSE f : f = [q \in Disks |-> Body(f, q)]
           down == [q \in 1 .. NDisks |-> par(q)]
           V == SUBSET Disks
           g == [q \in 1 .. NDisks |-> [v \in V |-> IF q \in Present THEN disk(q).holds \cup v ELSE {}]]
<1>0. NDisks \in Nat /\ Disks = 1 .. NDisks /\ {} \in V
  BY ConstantsAssumption DEF Disks
<1>1. \A q \in Disks : /\ par(q) \in 0 .. NDisks /\ par(q) < q
                       /\ par(q) # None => par(q) \in Disks
  BY ParFacts, PresentDisks
<1>2. Descends(NDisks, down)
  BY <1>0, <1>1 DEF Descends
<1>3. g \in [1 .. NDisks -> [V -> V]]
  <2>1. \A q \in Present : disk(q).holds \in V
    BY Order DEF Inv
  <2> QED BY <1>0, <2>1
<1>4. PICK f : Follows(NDisks, V, {}, down, g, f)
  <2> HIDE DEF g, down, V
  <2> QED BY <1>0, <1>2, <1>3, RecursionDown, Zenon
<1>5. f \in [Disks -> V] /\ \A q \in Disks : f[q] = g[q][IF down[q] = 0 THEN {} ELSE f[down[q]]]
  <2> HIDE DEF g, down, V
  <2> QED BY <1>0, <1>4 DEF Follows
<1>6. \A q \in Disks : (Openable(q) <=> q \in Present) /\ (q \in Present => par(q) = disk(q).parent)
  BY DEF Openable, Settled, par
<1>7. ASSUME NEW q \in Disks PROVE f[q] = Body(f, q)
  <2>1. down[q] = par(q)
    BY <1>0
  <2> DEFINE v == IF down[q] = 0 THEN {} ELSE f[down[q]]
  <2>2. v \in V
    BY <1>0, <1>1, <1>5, <2>1 DEF None
  <2>3. g[q][v] = IF q \in Present THEN disk(q).holds \cup v ELSE {}
    <3> HIDE DEF v, V
    <3> QED BY <1>0, <2>2
  <2>4. f[q] = g[q][v]
    BY <1>5
  <2> QED BY <1>6, <2>1, <2>3, <2>4 DEF None
<1>8. f = [q \in Disks |-> Body(f, q)]
  <2> HIDE DEF Body
  <2> QED BY <1>5, <1>7
<1>9. content = [q \in Disks |-> Body(content, q)]
  <2> HIDE DEF Body
  <2> QED BY <1>8
<1>10. ChainContent = content
  BY DEF ChainContent
<1> HIDE DEF content
<1>11. p \in Disks
  BY PresentDisks
<1> QED BY <1>6, <1>9, <1>10, <1>11

(* A backup is chained onto what it needs, even through a merge that was   *)
(* interrupted: a restore reads the disks of the merge one after another.  *)
LEMMA AllRead ==
  ASSUME Inv, Going = {}, pc \notin {"state", "unlink", "link"}, NEW d \in Present, Useful(d)
  PROVE  need[d] \subseteq ChainContent[d]
<1> DEFINE C(p) == ChainContent[p]
<1>1. Settled /\ Alive = Present
  BY AtRest
<1>2. \A p \in Present : C(p) = disk(p).holds \cup (IF disk(p).parent = None THEN {} ELSE C(disk(p).parent))
  BY <1>1, ContentFacts
<1> HIDE DEF C
<1>3. \A p \in Present : /\ p \in Disks /\ p \in Nat /\ disk(p).parent \in 0 .. (p - 1)
                         /\ disk(p).parent = None \/ disk(p).parent \in Present
                         /\ disk(p).holds \subseteq C(p)
                         /\ disk(p).parent # None => C(disk(p).parent) \subseteq C(p)
  BY <1>1, <1>2, PresentDisks DEF Settled
<1> DEFINE Bad == {p \in Present : Useful(p) /\ ~ (need[p] \subseteq C(p))}
<1> SUFFICES ASSUME Bad # {} PROVE FALSE
  BY DEF C
<1>4. PICK p \in Bad : \A x \in Bad : p <= x
  <2>1. Bad \in SUBSET Nat
    BY <1>3
  <2> HIDE DEF Bad
  <2> QED BY <2>1, Least
<1>5. p \in Present /\ p \in Nat /\ p \in Disks /\ Useful(p)
  BY <1>3, <1>4
<1>6. PICK x \in need[p] : x \notin C(p)
  BY <1>4
<1>7. ASSUME NEW q \in Present, Useful(q), q < p PROVE need[q] \subseteq C(q)
  <2>1. q \notin Bad
    <3>1. q \in Nat
      BY <1>3
    <3> HIDE DEF Bad
    <3> QED BY <1>4, <1>5, <1>7, <3>1
  <2> QED BY <1>7, <2>1
<1> HIDE DEF Bad
<1>8. x \in Disks
  <2>1. need[p] \in SUBSET Disks
    BY <1>5 DEF Inv, Typed
  <2> QED BY <1>6, <2>1
<1>9. ASSUME NEW h \in Half, p \in mergeState[h].chain PROVE FALSE
  <2>1. PICK c : c = mergeState[h].chain
    OBVIOUS
  <2>2. /\ h \in Alive /\ h \in c /\ Inner(c) = c \ {Max(c)} /\ c \in SUBSET Disks
        /\ \A q \in c : h <= q /\ q <= Max(c)
        /\ \A y \in Disks : y \in need[Max(c)] =>
              \/ \E q \in c \cap Present : y \in disk(q).holds
              \/ y \in Needed(disk(h).parent)
    BY <2>1, HalfFacts
  <2>3. p = Max(c)
    BY <1>5, <1>9, <2>1, <2>2 DEF Useful
  <2>4. c \subseteq Present /\ \A q \in c \ {p} : \E r \in c : disk(r).parent = q
    BY <2>1, <2>3 DEF Inv, Merging, MergeSound, Linked
  <2>5. \A q \in c : C(q) \subseteq C(p)
    <3> DEFINE Low == {q \in c : ~ (C(q) \subseteq C(p))}
    <3> SUFFICES ASSUME Low # {} PROVE FALSE
      OBVIOUS
    <3>1. NDisks \in Nat /\ Low \in SUBSET (0 .. NDisks)
      <4>1. c \subseteq 0 .. NDisks /\ NDisks \in Nat
        BY <2>2, ConstantsAssumption DEF Disks
      <4>2. Low \subseteq c
        OBVIOUS
      <4> HIDE DEF Low
      <4> QED BY <4>1, <4>2
    <3>2. PICK m \in Low : \A y \in Low : y <= m
      <4> HIDE DEF Low
      <4> QED BY <3>1, Greatest
    <3>3. m \in c /\ m # p /\ m \in Nat
      BY <1>3, <2>4, <3>2
    <3>4. PICK r \in c : disk(r).parent = m
      BY <2>4, <3>3
    <3>5. r \in Nat /\ m < r /\ C(m) \subseteq C(r)
      <4>1. r \in Present /\ r \in Nat /\ disk(r).parent \in 0 .. (r - 1) /\ disk(r).parent # None
        BY <1>3, <2>2, <2>4, <3>3, <3>4, PresentDisks
      <4>2. m < r
        BY <3>3, <3>4, <4>1
      <4> QED BY <1>3, <3>4, <4>1, <4>2
    <3>6. r \notin Low
      <4> HIDE DEF Low
      <4> QED BY <3>2, <3>3, <3>5
    <3> QED BY <3>2, <3>4, <3>5, <3>6
  <2>6. x \in Needed(disk(h).parent)
    BY <1>3, <1>6, <1>8, <2>2, <2>3, <2>4, <2>5
  <2>7. PICK r : r = disk(h).parent
    OBVIOUS
  <2>8. /\ h \in Present /\ h \in Nat /\ r \in 0 .. (h - 1) /\ (r = None \/ r \in Present)
        /\ r # None => C(r) \subseteq C(h)
    BY <1>1, <1>3, <2>2, <2>7
  <2>9. r # None /\ x \in need[r]
    BY <2>6, <2>7 DEF Needed
  <2>10. r < h /\ h <= p /\ r < p
    <3>1. h <= p
      BY <2>2, <2>3
    <3> QED BY <1>5, <2>8, <3>1
  <2>11. r \notin c
    <3>1. \A q \in c : h <= q
      BY <2>2
    <3> QED BY <2>8, <2>10, <3>1
  <2>12. \A k \in Half : k = h
    BY DEF Inv, Merging
  <2>13. Useful(r)
    BY <1>1, <2>1, <2>2, <2>8, <2>9, <2>11, <2>12 DEF Useful
  <2>14. x \in C(r) /\ C(r) \subseteq C(h) /\ C(h) \subseteq C(p)
    BY <1>7, <2>2, <2>5, <2>8, <2>9, <2>10, <2>13
  <2> QED BY <1>6, <2>14
<1>10. need[p] = disk(p).holds \cup Needed(disk(p).parent)
  BY <1>1, <1>5, <1>9 DEF Inv, Sound
<1>11. PICK r : r = disk(p).parent
  OBVIOUS
<1>12. r # None /\ r \in Present /\ r \in 0 .. (p - 1) /\ x \in need[r] /\ C(r) \subseteq C(p)
  BY <1>3, <1>5, <1>6, <1>10, <1>11 DEF Needed
<1>13. ASSUME NEW h \in Half PROVE r \notin Inner(mergeState[h].chain)
  <2>1. p \notin mergeState[h].chain
    BY <1>9
  <2>2. \A q \in Present \ mergeState[h].chain : disk(q).parent \notin Inner(mergeState[h].chain)
    BY HalfFacts
  <2> QED BY <1>5, <1>11, <2>1, <2>2
<1>14. Useful(r)
  BY <1>1, <1>12, <1>13 DEF Useful
<1>15. r < p
  BY <1>5, <1>12
<1> QED BY <1>6, <1>7, <1>12, <1>14, <1>15

(* Without an interrupted merge, a restore reads nothing more.             *)
LEMMA OnlyNeeded ==
  ASSUME Inv, Going = {}, pc \notin {"state", "unlink", "link"}, Half = {}, NEW d \in Present
  PROVE  ChainContent[d] \subseteq need[d]
<1> DEFINE C(p) == ChainContent[p]
<1>1. Settled /\ Alive = Present
  BY AtRest
<1>2. \A p \in Present : C(p) = disk(p).holds \cup (IF disk(p).parent = None THEN {} ELSE C(disk(p).parent))
  BY <1>1, ContentFacts
<1> HIDE DEF C
<1>3. \A p \in Present : /\ p \in Nat /\ disk(p).parent \in 0 .. (p - 1)
                         /\ disk(p).parent = None \/ disk(p).parent \in Present
                         /\ need[p] = disk(p).holds \cup Needed(disk(p).parent)
  BY <1>1, PresentDisks DEF Settled, Inv, Sound
<1> DEFINE Bad == {p \in Present : ~ (C(p) \subseteq need[p])}
<1> SUFFICES ASSUME Bad # {} PROVE FALSE
  BY DEF C
<1>4. PICK p \in Bad : \A x \in Bad : p <= x
  <2>1. Bad \in SUBSET Nat
    BY <1>3
  <2> HIDE DEF Bad
  <2> QED BY <2>1, Least
<1>5. p \in Present /\ p \in Nat
  BY <1>3, <1>4
<1>6. disk(p).parent # None => C(disk(p).parent) \subseteq need[disk(p).parent]
  <2> SUFFICES ASSUME disk(p).parent # None, disk(p).parent \in Bad PROVE FALSE
    BY <1>3, <1>5
  <2>1. p <= disk(p).parent
    <3> HIDE DEF Bad
    <3> QED BY <1>4
  <2>2. disk(p).parent \in 0 .. (p - 1)
    BY <1>3, <1>5
  <2> QED BY <1>5, <2>1, <2>2
<1>7. C(p) \subseteq need[p]
  <2> HIDE DEF Bad
  <2> QED BY <1>2, <1>3, <1>5, <1>6 DEF Needed
<1> QED BY <1>4, <1>7

-----------------------------------------------------------------------------
(* Types, and the order of the disks: a disk is always written after its   *)
(* parent, through merges and renames, which VmBackupDirectory relies on   *)
(* ("vhd must be sorted to be chained").                                   *)
THEOREM TypeCorrect == ASSUME Calm PROVE Spec => []TypeOK
<1>1. Inv => TypeOK
  <2> SUFFICES ASSUME Inv PROVE TypeOK
    OBVIOUS
  <2>1. base \in Disks \cup {None}
    BY ConstantsAssumption DEF Inv, History, Disks, None
  <2> QED BY <2>1 DEF Inv, Typed, Memory, History, TypeOK
<1> QED BY <1>1, Invariant, PTL

(* Neither the deletions and merges of cleanVm, at whatever file operation *)
(* the lock is held and wherever a fault stops them, nor a backup deleted  *)
(* meanwhile, take from another backup its metadata or a change it         *)
(* consists of.                                                            *)
THEOREM Lossless == ASSUME Calm PROVE Spec => []NoBackupLost
<1>1. Inv => NoBackupLost
  <2> SUFFICES ASSUME Inv, NEW i \in Backups
               PROVE  metadata[i] # "absent" /\ need[i] \subseteq Stored
    BY DEF NoBackupLost, Stored
  <2> QED BY BackupListed, ListedUseful, AllStored
<1> QED BY <1>1, Invariant, PTL

(* Between two runs, and once no merge is interrupted, a restore of any    *)
(* backup reads exactly what was backed up, whatever merges shortened its  *)
(* chain.                                                                  *)
THEOREM Restores == ASSUME Calm PROVE Spec => []Restorable
<1>1. Inv => Restorable
  <2> SUFFICES ASSUME Inv, pc = "idle", Interrupted = {}, NEW i \in Backups
               PROVE  metadata[i] = "ok" /\ ChainContent[i] = need[i]
    BY DEF Restorable
  <2>1. Going = {} /\ Half = {} /\ pc \notin {"state", "unlink", "link", "torn", "archives"}
    BY DEF Going, Half
  <2>2. i \in Disks /\ metadata[i] # "absent" /\ i \in Listed
    BY BackupListed
  <2>3. metadata[i] = "ok"
    <3>1. metadata[i] # "torn" /\ metadata[i] \in {"absent", "torn", "ok"}
      BY <2>1, <2>2, NotTorn DEF Inv, Typed
    <3> QED BY <2>2, <3>1
  <2>4. Useful(i) /\ i \in Present
    BY <2>1, <2>2, ListedUseful DEF Useful, Alive
  <2>5. need[i] \subseteq ChainContent[i]
    BY <2>1, <2>4, AllRead
  <2>6. ChainContent[i] \subseteq need[i]
    BY <2>1, <2>4, OnlyNeeded
  <2> QED BY <2>3, <2>5, <2>6
<1> QED BY <1>1, Invariant, PTL

(* A merge that fails is resumed by the next cleanup before another merge  *)
(* starts: no two merges of a lineage are ever half done.                  *)
THEOREM OneMerge == ASSUME Calm PROVE Spec => []OneMergeInterrupted
<1>1. Inv => OneMergeInterrupted
  <2> SUFFICES ASSUME Inv PROVE Cardinality(Half) <= 1
    BY DEF OneMergeInterrupted, Half
  <2>1. \A h, k \in Half : h = k
    BY DEF Inv, Merging
  <2>2. CASE Half = {}
    BY <2>2, FS_EmptySet
  <2>3. CASE Half # {}
    <3>1. PICK h : Half = {h}
      BY <2>1, <2>3
    <3>2. Cardinality({h}) = 1
      BY FS_Singleton
    <3> QED BY <3>1, <3>2
  <2> QED BY <2>2, <2>3
<1> QED BY <1>1, Invariant, PTL

(* No disk ever has two children: backups, merges and renames keep the     *)
(* lineage a linear chain, as the README of the backups says.              *)
THEOREM Linear == ASSUME Calm PROVE Spec => []LinearChain
<1>1. Inv => LinearChain
  BY DEF Inv
<1> QED BY <1>1, Invariant, PTL

(* checkBaseVdis opens the base alone, and still a new backup is chained   *)
(* onto a disk from which all it needs can be read, even when the merge of *)
(* that lineage was interrupted.                                           *)
THEOREM Usable == ASSUME Calm PROVE Spec => []ChainedOnUsable
<1>1. Inv => ChainedOnUsable
  <2> SUFFICES ASSUME Inv, pc = "mark", written \in Backups
               PROVE  need[written] \subseteq ChainContent[written]
    BY DEF ChainedOnUsable
  <2>1. Going = {} /\ pc \notin {"state", "unlink", "link"}
    BY DEF Going
  <2>2. Useful(written) /\ written \in Present
    BY <2>1, BackupListed, ListedUseful DEF Useful, Alive
  <2> QED BY <2>1, <2>2, AllRead
<1> QED BY <1>1, Invariant, PTL
=============================================================================
