--------------------- MODULE CachedDiskBlockDeviceProofs ---------------------
(***************************************************************************)
(* For every disk, block size, set of requests and hydration concurrency:  *)
(* the cached device implements BlockDevice, whoever awaits a block is     *)
(* served, and a hydration that resolves has materialised the disk.        *)
(*                                                                         *)
(* The argument: a fetch in flight is of a block that is neither cached    *)
(* nor a hole (FetchSound), so that what it writes never shows, and what a *)
(* request reads or writes is never what a fetch writes: the request has   *)
(* all its blocks cached by then (ProgressSound).  What a fetch wrote is   *)
(* still the source's content when the block is marked (LandedSound).  A   *)
(* restart only forgets blocks whose byte was not saved (SavedSound).      *)
(***************************************************************************)
EXTENDS CachedDiskBlockDevice, FiniteSetTheorems, TLAPS

ReqType == [op : {"none", "read", "write"}, first : Sectors, last : Sectors, val : Values,
            at : 0 .. BlockCount, pc : Steps, data : {<<>>} \cup UNION {[S -> Values] : S \in SUBSET Sectors}]
HydrationType == [pc : {"idle", "running", "done", "rejected"}, next : 0 .. BlockCount,
                  running : 0 .. HydrateConcurrency, waiting : SUBSET Blocks]

Typed ==
  /\ open \in BOOLEAN
  /\ store \in [Sectors -> Values]
  /\ bitmap \in [Blocks -> BOOLEAN]
  /\ saved \in [Blocks -> BOOLEAN]
  /\ inFlight \in [Blocks -> Phases]
  /\ req \in [Requests -> ReqType]
  /\ hydration \in HydrationType

(* A block in flight is not served from the store. *)
FetchSound == \A b \in Blocks : inFlight[b] # "none" => ~bitmap[b] /\ b \notin Holes

(* The blocks a request has gone past are cached. *)
Active(q) == q.pc \in {"ensure", "wait", "landed"}
Past(q, map) ==
  /\ q.first <= q.last
  /\ BlockOf(q.first) <= q.at /\ q.at <= LastBlock(q) + 1
  /\ q.pc = "wait" => q.at <= LastBlock(q)
  /\ \A b \in Blocks : BlockOf(q.first) <= b /\ b < q.at => map[b]
ProgressSound == \A r \in Requests : Active(req[r]) => Past(req[r], bitmap)

(* What a fetch wrote is there when the block is marked. *)
LandedSound == \A s \in Sectors : inFlight[BlockOf(s)] = "landed" => store[s] = Source[s]

SavedSound == \A b \in Blocks : saved[b] => bitmap[b]

(* A block a running hydration has asked for is cached or awaited, and its
   slots are those of the awaited blocks.                                  *)
HydrationSound ==
  /\ \A b \in hydration.waiting : b < hydration.next
  /\ hydration.pc = "running" =>
       /\ hydration.running = Cardinality(hydration.waiting)
       /\ \A b \in Blocks : b < hydration.next => bitmap[b] \/ b \in hydration.waiting
  /\ hydration.pc = "done" => \A b \in Blocks : bitmap[b]

Cached == {b \in Blocks : bitmap[b]}
CountSound == cachedCount = Cardinality(Cached)

IndInv ==
  /\ Typed
  /\ FetchSound
  /\ WaitersServed
  /\ ProgressSound
  /\ LandedSound
  /\ SavedSound
  /\ HydrationSound
  /\ CountSound

-----------------------------------------------------------------------------
(***************************************************************************)
(* Blocks and sectors.                                                     *)
(***************************************************************************)

(* The quotient and the remainder. *)
LEMMA DivDef ==
  ASSUME NEW a \in Nat, NEW d \in Nat \ {0}
  PROVE  a \div d \in Nat /\ d * (a \div d) <= a /\ a < d * (a \div d) + d
BY Z3

(* Multiplication by a positive number is strictly monotone. *)
LEMMA TimesMono ==
  ASSUME NEW x \in Int, NEW y \in Int, NEW d \in Nat \ {0}, x < y
  PROVE  d * x + d <= d * y
BY Z3

(* A later sector is in the same block or in a later one. *)
LEMMA BlockOfMono ==
  ASSUME NEW a \in Sectors, NEW z \in Sectors, a <= z
  PROVE  BlockOf(a) <= BlockOf(z)
<1> DEFINE d == DiskBlockSize
<1> DEFINE p == a \div d
<1> DEFINE q == z \div d
<1>0. a \in Nat /\ z \in Nat /\ d \in Nat \ {0} BY SizeAssumption DEF Sectors
<1>1. p \in Nat /\ d * p <= a /\ a < d * p + d BY <1>0, DivDef
<1>2. q \in Nat /\ d * q <= z /\ z < d * q + d BY <1>0, DivDef
<1> HIDE DEF p, q, d
<1>3. SUFFICES ASSUME q < p PROVE FALSE BY <1>1, <1>2 DEF p, q, d, BlockOf
<1>4. d * q + d <= d * p BY <1>0, <1>1, <1>2, <1>3, TimesMono
<1> QED BY <1>0, <1>1, <1>2, <1>4

(* The block of a sector is one of the blocks: the last block is not full. *)
LEMMA BlockOfType ==
  /\ BlockCount \in Nat
  /\ IsFiniteSet(Blocks)
  /\ \A s \in Sectors : BlockOf(s) \in Blocks
<1> DEFINE d == DiskBlockSize
<1> DEFINE n == Size + d - 1
<1> DEFINE q == n \div d
<1>0. Size \in Nat \ {0} /\ d \in Nat \ {0} /\ n \in Nat BY SizeAssumption
<1>1. q \in Nat /\ d * q <= n /\ n < d * q + d BY <1>0, DivDef
<1>2. BlockCount = q BY DEF BlockCount
<1>3. BlockCount \in Nat BY <1>1, <1>2
<1>4. IsFiniteSet(Blocks)
  BY <1>3, FS_Interval DEF Blocks
<1>5. ASSUME NEW s \in Sectors PROVE BlockOf(s) \in Blocks
  <2> DEFINE p == s \div d
  <2>0. s \in Nat /\ s < Size BY <1>0 DEF Sectors
  <2>1. p \in Nat /\ d * p <= s /\ s < d * p + d BY <1>0, <2>0, DivDef
  <2>2. n = Size + d - 1 OBVIOUS
  <2> HIDE DEF p, q, n, d
  <2>3. p < q
    <3> SUFFICES ASSUME ~(p < q) PROVE FALSE OBVIOUS
    <3>1. q = p \/ d * q + d <= d * p BY <1>0, <1>1, <2>1, TimesMono
    <3>2. CASE q = p BY <1>0, <1>1, <2>0, <2>1, <2>2, <3>2
    <3>3. CASE d * q + d <= d * p BY <1>0, <1>1, <2>0, <2>1, <2>2, <3>3
    <3> QED BY <3>1, <3>2, <3>3
  <2> QED BY <1>1, <1>2, <2>1, <2>3 DEF Blocks, BlockOf, p, q, d
<1> QED BY <1>3, <1>4, <1>5

(* No block is cached at first. *)
LEMMA NoneCached == ASSUME NEW f, f = [b \in Blocks |-> FALSE] PROVE Cardinality({b \in Blocks : f[b]}) = 0
<1>1. {b \in Blocks : f[b]} = {} OBVIOUS
<1> QED BY <1>1, FS_EmptySet

(* Marking a block that is not marked counts one more. *)
LEMMA OneMoreCached ==
  ASSUME IndInv, NEW b \in Blocks, SetCached(b)
  PROVE  CountSound' /\ bitmap' \in [Blocks -> BOOLEAN] /\ \A c \in Blocks : bitmap'[c] = (bitmap[c] \/ c = b)
<1> USE DEF IndInv, Typed
<1>1. bitmap' \in [Blocks -> BOOLEAN] /\ \A c \in Blocks : bitmap'[c] = (bitmap[c] \/ c = b)
  BY DEF SetCached
<1>2. IsFiniteSet(Cached) BY BlockOfType, FS_Subset DEF Cached
<1>3. CASE bitmap[b]
  <2>1. Cached' = Cached BY <1>1, <1>3 DEF Cached
  <2> QED BY <1>1, <1>3, <2>1 DEF CountSound, SetCached
<1>4. CASE ~bitmap[b]
  <2>1. Cached' = Cached \cup {b} BY <1>1, <1>4 DEF Cached
  <2>2. b \notin Cached BY <1>4 DEF Cached
  <2>3. Cardinality(Cached \cup {b}) = Cardinality(Cached) + 1 BY <1>2, <2>2, FS_AddElement
  <2> QED BY <1>1, <1>4, <2>1, <2>3 DEF CountSound, SetCached
<1> QED BY <1>3, <1>4

(* A new device, or one opened again, has nothing under way. *)
LEMMA NewRequest == NoRequest \in ReqType /\ NoRequest.pc = "idle"
<1>1. 0 \in Sectors /\ 0 \in 0 .. BlockCount BY SizeAssumption, BlockOfType DEF Sectors
<1> QED BY <1>1, SourceAssumption DEF NoRequest, ReqType, Steps

LEMMA NewRequests ==
  ASSUME NEW q, q = [r \in Requests |-> NoRequest]
  PROVE  q \in [Requests -> ReqType] /\ \A r \in Requests : q[r].pc = "idle"
BY NewRequest

LEMMA NewHydration ==
  /\ NoHydration \in HydrationType
  /\ NoHydration.pc = "idle" /\ NoHydration.waiting = {}
BY BlockOfType, ConcurrencyAssumption DEF NoHydration, HydrationType

(* The invariant holds of a new device. *)
LEMMA InitInv == Init => IndInv
<1> SUFFICES ASSUME Init PROVE IndInv OBVIOUS
<1>1. req \in [Requests -> ReqType] /\ \A r \in Requests : req[r].pc = "idle"
  BY NewRequests DEF Init
<1>2. Typed BY <1>1, NewHydration, SourceAssumption DEF Init, Typed, Phases
<1>3. FetchSound BY DEF Init, FetchSound
<1>4. WaitersServed BY <1>1, NewHydration DEF Init, WaitersServed
<1>5. ProgressSound BY <1>1 DEF ProgressSound, Active
<1>6. LandedSound BY BlockOfType DEF Init, LandedSound
<1>7. SavedSound BY DEF Init, SavedSound
<1>8. HydrationSound BY NewHydration DEF Init, HydrationSound
<1>9. CountSound BY NoneCached DEF Init, CountSound, Cached
<1> QED BY <1>2, <1>3, <1>4, <1>5, <1>6, <1>7, <1>8, <1>9 DEF IndInv

-----------------------------------------------------------------------------
(***************************************************************************)
(* Steps of a request.                                                     *)
(***************************************************************************)

(* A step of request r only, that does not make it wait. *)
LEMMA RequestStep ==
  ASSUME IndInv, NEW r \in Requests, NEW q \in ReqType, req' = [req EXCEPT ![r] = q],
         q.pc # "wait", Active(q) => Past(q, bitmap),
         UNCHANGED <<open, bitmap, cachedCount, inFlight, saved, hydration>>,
         store' \in [Sectors -> Values], LandedSound'
  PROVE  IndInv'
<1> USE DEF IndInv
<1>0. \A x \in Requests : req'[x] = IF x = r THEN q ELSE req[x] BY DEF Typed
<1>1. Typed' BY DEF Typed
<1>2. FetchSound' BY DEF FetchSound
<1>3. WaitersServed' BY <1>0 DEF WaitersServed
<1>4. ProgressSound'
  <2> SUFFICES ASSUME NEW x \in Requests, Active(req[x])' PROVE Past(req[x], bitmap)'
    BY DEF ProgressSound
  <2>1. Past(req'[x], bitmap) BY <1>0 DEF ProgressSound, Active
  <2> QED BY <2>1 DEF Past, LastBlock
<1>5. SavedSound' BY DEF SavedSound
<1>6. HydrationSound' BY DEF HydrationSound
<1>7. CountSound' BY DEF CountSound, Cached
<1> QED BY <1>1, <1>2, <1>3, <1>4, <1>5, <1>6, <1>7

LEMMA SameStore == ASSUME IndInv, UNCHANGED <<store, inFlight>> PROVE LandedSound' /\ store' \in [Sectors -> Values]
BY DEF IndInv, Typed, LandedSound

(* Fields of a request that a step changes. *)
LEMMA Fields ==
  ASSUME NEW q \in ReqType
  PROVE  /\ \A pc \in Steps : /\ [q EXCEPT !.pc = pc] \in ReqType
                               /\ [q EXCEPT !.pc = pc].pc = pc
                               /\ [q EXCEPT !.pc = pc].op = q.op /\ [q EXCEPT !.pc = pc].val = q.val
                               /\ [q EXCEPT !.pc = pc].data = q.data
                               /\ [q EXCEPT !.pc = pc].first = q.first
                               /\ [q EXCEPT !.pc = pc].last = q.last
                               /\ [q EXCEPT !.pc = pc].at = q.at
         /\ \A at \in 0 .. BlockCount : /\ [q EXCEPT !.at = at] \in ReqType
                                         /\ [q EXCEPT !.at = at].at = at
                                         /\ [q EXCEPT !.at = at].pc = q.pc
                                         /\ [q EXCEPT !.at = at].op = q.op /\ [q EXCEPT !.at = at].val = q.val
                                         /\ [q EXCEPT !.at = at].data = q.data
                                         /\ [q EXCEPT !.at = at].first = q.first
                                         /\ [q EXCEPT !.at = at].last = q.last
BY DEF ReqType

(* What the invariant says of a request on its way. *)
LEMMA Covered ==
  ASSUME IndInv, NEW r \in Requests, Active(req[r])
  PROVE  /\ req[r] \in ReqType /\ Past(req[r], bitmap)
         /\ req[r].first \in Sectors /\ req[r].last \in Sectors
         /\ req[r].at \in 0 .. BlockCount
         /\ BlockOf(req[r].first) \in Blocks /\ LastBlock(req[r]) \in Blocks
         /\ req[r].at <= LastBlock(req[r]) => req[r].at \in Blocks /\ req[r].at + 1 \in 0 .. BlockCount
         /\ Span(req[r]) \subseteq Sectors
<1>1. req[r] \in ReqType /\ Past(req[r], bitmap) BY DEF IndInv, Typed, ProgressSound
<1>2. req[r].first \in Sectors /\ req[r].last \in Sectors /\ req[r].at \in 0 .. BlockCount
  BY <1>1 DEF ReqType
<1>3. BlockOf(req[r].first) \in Blocks /\ LastBlock(req[r]) \in Blocks
  BY <1>2, BlockOfType DEF LastBlock
<1>4. req[r].at <= LastBlock(req[r]) => req[r].at \in Blocks /\ req[r].at + 1 \in 0 .. BlockCount
  BY <1>2, <1>3, BlockOfType DEF Blocks
<1>5. Span(req[r]) \subseteq Sectors BY <1>2, SizeAssumption DEF Span, Sectors
<1> QED BY <1>1, <1>2, <1>3, <1>4, <1>5

(* Once a request has all its blocks, they are cached. *)
LEMMA CoveredCached ==
  ASSUME IndInv, NEW r \in Requests, Ensured(req[r])
  PROVE  Active(req[r]) /\ \A s \in Span(req[r]) : s \in Sectors /\ bitmap[BlockOf(s)]
<1>1. Active(req[r]) BY DEF Ensured, Active
<1>2. ASSUME NEW s \in Span(req[r]) PROVE s \in Sectors /\ bitmap[BlockOf(s)]
  <2>1. s \in Sectors /\ req[r].first <= s /\ s <= req[r].last
    BY <1>1, Covered DEF Span, Sectors
  <2>2. BlockOf(req[r].first) <= BlockOf(s) /\ BlockOf(s) <= LastBlock(req[r]) /\ BlockOf(s) \in Blocks
    BY <1>1, <2>1, Covered, BlockOfMono, BlockOfType DEF LastBlock
  <2>3. BlockOf(s) < req[r].at
    BY <1>1, <2>2, Covered DEF Ensured, Blocks
  <2> QED BY <1>1, <2>1, <2>2, <2>3, Covered DEF Past
<1> QED BY <1>1, <1>2

LEMMA CallInv ==
  ASSUME IndInv, NEW r \in Requests, NEW op \in {"read", "write"}, NEW span \in Spans, NEW v \in Values,
         Call(r, op, span, v)
  PROVE  IndInv'
<1> DEFINE q == [NoRequest EXCEPT !.op = op, !.first = span[1], !.last = span[2],
                                  !.val = v, !.at = BlockOf(span[1]), !.pc = "ensure"]
<1>1. span[1] \in Sectors /\ span[2] \in Sectors /\ span[1] <= span[2] BY RequestsAssumption
<1>2. BlockOf(span[1]) \in Blocks /\ BlockOf(span[2]) \in Blocks /\ BlockOf(span[1]) <= BlockOf(span[2])
  BY <1>1, BlockOfType, BlockOfMono
<1>3. BlockOf(span[1]) \in 0 .. BlockCount /\ BlockOf(span[1]) <= BlockOf(span[2]) + 1
  BY <1>2, BlockOfType DEF Blocks
<1>4. /\ q \in ReqType
      /\ q.first = span[1] /\ q.last = span[2] /\ q.at = BlockOf(span[1]) /\ q.pc = "ensure"
  BY <1>1, <1>3, NewRequest DEF ReqType, Steps
<1>5. q \in ReqType BY <1>4
<1>6. Past(q, bitmap)
  <2> HIDE DEF q
  <2> QED BY <1>1, <1>2, <1>3, <1>4 DEF Past, LastBlock, Blocks
<1>7. q.pc # "wait" BY <1>4
<1>8. req' = [req EXCEPT ![r] = q] /\ UNCHANGED <<open, store, bitmap, cachedCount, inFlight, saved, hydration>>
  BY DEF Call
<1> HIDE DEF q
<1> QED BY <1>5, <1>6, <1>7, <1>8, RequestStep, SameStore

LEMMA SkipCachedInv ==
  ASSUME IndInv, NEW r \in Requests, SkipCached(r)
  PROVE  IndInv'
<1> DEFINE q == [req[r] EXCEPT !.at = req[r].at + 1]
<1>1. Active(req[r]) /\ req[r].pc = "ensure" /\ req[r].at <= LastBlock(req[r])
  BY DEF SkipCached, Ensuring, Active
<1>2. /\ q \in ReqType /\ q.at = req[r].at + 1 /\ q.pc = "ensure"
      /\ q.first = req[r].first /\ q.last = req[r].last
  BY <1>1, Covered, Fields
<1>3. Past(q, bitmap)
  BY <1>1, <1>2, Covered DEF Past, LastBlock, SkipCached, Blocks
<1>4. req' = [req EXCEPT ![r] = q] /\ UNCHANGED <<open, store, bitmap, cachedCount, inFlight, saved, hydration>>
  BY DEF SkipCached
<1> HIDE DEF q
<1> QED BY <1>2, <1>3, <1>4, RequestStep, SameStore

LEMMA ReadStoreInv ==
  ASSUME IndInv, NEW r \in Requests, ReadStore(r)
  PROVE  IndInv'
<1> DEFINE d == [s \in Span(req[r]) |-> store[s]]
<1> DEFINE q == [req[r] EXCEPT !.pc = "done", !.data = d]
<1>1. Active(req[r]) BY DEF ReadStore, Ensured, Active
<1>2. d \in [Span(req[r]) -> Values] /\ Span(req[r]) \in SUBSET Sectors
  BY <1>1, Covered DEF IndInv, Typed
<1>3. d \in UNION {[S -> Values] : S \in SUBSET Sectors} BY <1>2
<1>4. req[r] \in ReqType BY <1>1, Covered
<1> HIDE DEF d
<1>5. q \in ReqType /\ q.pc = "done" BY <1>3, <1>4 DEF ReqType, Steps
<1>6. req' = [req EXCEPT ![r] = q] /\ UNCHANGED <<open, store, bitmap, cachedCount, inFlight, saved, hydration>>
  BY DEF ReadStore, d
<1> HIDE DEF q
<1> QED BY <1>5, <1>6, RequestStep, SameStore DEF Active

LEMMA WriteStoreInv ==
  ASSUME IndInv, NEW r \in Requests, WriteStore(r)
  PROVE  IndInv'
<1> DEFINE q == [req[r] EXCEPT !.pc = "landed"]
<1>1. Ensured(req[r]) /\ Active(req[r]) BY DEF WriteStore, Ensured, Active
<1>2. req[r] \in ReqType /\ req[r].val \in Values BY <1>1, Covered DEF ReqType
<1>3. q \in ReqType /\ q.pc = "landed" /\ q.at = req[r].at /\ q.first = req[r].first /\ q.last = req[r].last
  BY <1>2, Fields DEF Steps
<1>4. Past(q, bitmap) BY <1>1, <1>3, Covered DEF Past, LastBlock
<1>5. store' \in [Sectors -> Values] BY <1>2 DEF WriteStore, IndInv, Typed
<1>6. LandedSound'
  <2> SUFFICES ASSUME NEW s \in Sectors, inFlight[BlockOf(s)] = "landed" PROVE store'[s] = Source[s]
    BY DEF LandedSound, WriteStore
  <2>1. s \notin Span(req[r]) BY <1>1, CoveredCached, BlockOfType DEF IndInv, FetchSound
  <2>2. store[s] = Source[s] BY DEF IndInv, LandedSound
  <2> QED BY <2>1, <2>2 DEF WriteStore
<1>7. req' = [req EXCEPT ![r] = q] /\ UNCHANGED <<open, bitmap, cachedCount, inFlight, saved, hydration>>
  BY DEF WriteStore
<1> HIDE DEF q
<1> QED BY <1>3, <1>4, <1>5, <1>6, <1>7, RequestStep

(* The ends of a request. *)
LEMMA SettleInv ==
  ASSUME IndInv, NEW r \in Requests, WriteDone(r) \/ RequestFail(r) \/ Return(r)
  PROVE  IndInv'
<1>1. req[r] \in ReqType BY DEF IndInv, Typed
<1>2. PICK q \in {[req[r] EXCEPT !.pc = "done"], [req[r] EXCEPT !.pc = "failed"], NoRequest} :
        req' = [req EXCEPT ![r] = q]
  BY DEF WriteDone, RequestFail, Return
<1>3. q \in ReqType /\ q.pc \in {"done", "failed", "idle"}
  <2>1. CASE q = [req[r] EXCEPT !.pc = "done"] BY <1>1, <2>1, Fields DEF Steps
  <2>2. CASE q = [req[r] EXCEPT !.pc = "failed"] BY <1>1, <2>2, Fields DEF Steps
  <2>3. CASE q = NoRequest BY <2>3, NewRequest
  <2> QED BY <1>2, <2>1, <2>2, <2>3
<1>4. UNCHANGED <<open, store, bitmap, cachedCount, inFlight, saved, hydration>>
  BY DEF WriteDone, RequestFail, Return
<1> QED BY <1>2, <1>3, <1>4, RequestStep, SameStore DEF Active

-----------------------------------------------------------------------------
(***************************************************************************)
(* Blocks that get cached.                                                 *)
(***************************************************************************)

(* A block that is cached stays cached for who has gone past it. *)
LEMMA PastGrows ==
  ASSUME NEW q, NEW f, NEW g, Past(q, f), \A b \in Blocks : f[b] => g[b]
  PROVE  Past(q, g)
BY DEF Past

(* A request goes past its block once it is cached. *)
LEMMA PastNext ==
  ASSUME NEW q \in ReqType, NEW p \in ReqType, NEW f, NEW g, Past(q, f), \A b \in Blocks : f[b] => g[b],
         q.at \in Blocks, g[q.at], q.at <= LastBlock(q),
         p.at = q.at + 1, p.first = q.first, p.last = q.last, p.pc # "wait"
  PROVE  Past(p, g)
<1>1. p.first \in Sectors /\ p.last \in Sectors BY DEF ReqType
<1>2. BlockOf(p.first) \in Blocks /\ BlockOf(p.last) \in Blocks BY <1>1, BlockOfType
<1> QED BY <1>2 DEF Past, LastBlock, Blocks

(* What a step that only marks blocks, and lets requests go on, preserves. *)
LEMMA Marked ==
  ASSUME IndInv, \A b \in Blocks : bitmap[b] => bitmap'[b],
         UNCHANGED saved
  PROVE  SavedSound' /\ (UNCHANGED hydration => HydrationSound')
BY DEF IndInv, SavedSound, HydrationSound, Typed, HydrationType

LEMMA EnsureBlockInv ==
  ASSUME IndInv, NEW r \in Requests, EnsureBlock(r)
  PROVE  IndInv'
<1> DEFINE b == req[r].at
<1>1. Active(req[r]) /\ req[r].pc = "ensure" /\ b <= LastBlock(req[r]) /\ ~bitmap[b]
  BY DEF EnsureBlock, Ensuring, Active
<1>2. /\ req[r] \in ReqType /\ Past(req[r], bitmap)
      /\ b \in Blocks /\ b + 1 \in 0 .. BlockCount
  BY <1>1, Covered
<1>3. UNCHANGED <<open, store, saved, hydration>> /\ StartFetch(b) BY DEF EnsureBlock
<1>4. CASE b \in Holes
  <2> DEFINE q == [req[r] EXCEPT !.at = b + 1]
  <2>1. SetCached(b) /\ UNCHANGED inFlight BY <1>3, <1>4 DEF StartFetch
  <2>2. CountSound' /\ bitmap' \in [Blocks -> BOOLEAN] /\ \A c \in Blocks : bitmap'[c] = (bitmap[c] \/ c = b)
    BY <1>2, <2>1, OneMoreCached
  <2>3. /\ q \in ReqType /\ q.at = req[r].at + 1 /\ q.pc = "ensure"
        /\ q.first = req[r].first /\ q.last = req[r].last
    BY <1>1, <1>2, Fields
  <2>4. req' = [req EXCEPT ![r] = q] BY <1>4 DEF EnsureBlock
  <2> HIDE DEF q
  <2>5. Past(q, bitmap')
    <3>1. bitmap'[req[r].at] /\ q.pc # "wait" BY <1>2, <2>2, <2>3
    <3> QED BY <1>1, <1>2, <2>2, <2>3, <3>1, PastNext
  <2>6. Typed' BY <1>3, <2>1, <2>2, <2>3, <2>4 DEF IndInv, Typed
  <2>7. \A x \in Requests : req'[x] = IF x = r THEN q ELSE req[x] BY <2>4 DEF IndInv, Typed
  <2>8. FetchSound' BY <1>4, <2>1, <2>2 DEF IndInv, FetchSound
  <2>9. WaitersServed' BY <1>3, <2>1, <2>3, <2>7 DEF IndInv, WaitersServed
  <2>10. ProgressSound'
    <3> SUFFICES ASSUME NEW x \in Requests, Active(req'[x]) PROVE Past(req'[x], bitmap')
      BY DEF ProgressSound, Active
    <3>1. CASE x = r BY <2>5, <2>7, <3>1
    <3>2. CASE x # r BY <2>2, <2>7, <3>2, PastGrows DEF IndInv, ProgressSound
    <3> QED BY <3>1, <3>2
  <2>11. LandedSound' BY <1>3, <2>1, SameStore
  <2>12. SavedSound' /\ HydrationSound' BY <1>3, <2>2, Marked
  <2> QED BY <2>2, <2>6, <2>8, <2>9, <2>10, <2>11, <2>12 DEF IndInv
<1>5. CASE b \notin Holes
  <2> DEFINE q == [req[r] EXCEPT !.pc = "wait"]
  <2>1. /\ inFlight' = [inFlight EXCEPT ![b] = IF @ = "none" THEN "reading" ELSE @]
        /\ UNCHANGED <<bitmap, cachedCount>>
    BY <1>3, <1>5 DEF StartFetch
  <2>2. /\ q \in ReqType /\ q.at = b /\ q.pc = "wait"
        /\ q.first = req[r].first /\ q.last = req[r].last
    BY <1>2, Fields DEF Steps
  <2>3. req' = [req EXCEPT ![r] = q] BY <1>5 DEF EnsureBlock
  <2>4. Past(q, bitmap) BY <1>1, <1>2, <2>2 DEF Past, LastBlock
  <2> HIDE DEF q
  <2>5. /\ inFlight' \in [Blocks -> Phases]
        /\ \A c \in Blocks : inFlight'[c] = IF c = b /\ inFlight[c] = "none" THEN "reading" ELSE inFlight[c]
    BY <1>2, <2>1 DEF IndInv, Typed, Phases
  <2>6. Typed' BY <1>3, <2>1, <2>2, <2>3, <2>5 DEF IndInv, Typed
  <2>7. \A x \in Requests : req'[x] = IF x = r THEN q ELSE req[x] BY <2>3 DEF IndInv, Typed
  <2>8. FetchSound' BY <1>1, <1>5, <2>1, <2>5 DEF IndInv, FetchSound
  <2>9. WaitersServed'
    <3>1. ASSUME NEW x \in Requests, req'[x].pc = "wait" PROVE inFlight'[req'[x].at] # "none"
      <4>1. CASE x = r BY <1>2, <2>2, <2>5, <2>7, <4>1
      <4>2. CASE x # r
        <5>1. req'[x] = req[x] /\ req[x].pc = "wait" /\ Active(req[x]) BY <2>7, <3>1, <4>2 DEF Active
        <5>2. req[x].at \in Blocks BY <5>1, Covered DEF Past
        <5>3. inFlight[req[x].at] # "none" BY <5>1 DEF IndInv, WaitersServed
        <5> QED BY <2>5, <5>1, <5>2, <5>3
      <4> QED BY <4>1, <4>2
    <3>2. \A c \in hydration'.waiting : inFlight'[c] # "none"
      <4>1. hydration' = hydration /\ hydration.waiting \subseteq Blocks BY <1>3 DEF IndInv, Typed, HydrationType
      <4>2. \A c \in hydration.waiting : inFlight[c] # "none" BY DEF IndInv, WaitersServed
      <4> QED BY <2>5, <4>1, <4>2
    <3> QED BY <3>1, <3>2 DEF WaitersServed
  <2>10. ProgressSound'
    <3> SUFFICES ASSUME NEW x \in Requests, Active(req'[x]) PROVE Past(req'[x], bitmap)
      BY <2>1 DEF ProgressSound, Active
    <3> QED BY <2>4, <2>7 DEF IndInv, ProgressSound
  <2>11. LandedSound'
    <3> SUFFICES ASSUME NEW x \in Sectors, inFlight'[BlockOf(x)] = "landed" PROVE store[x] = Source[x]
      BY <1>3 DEF LandedSound
    <3>1. inFlight[BlockOf(x)] = "landed" BY <2>5, BlockOfType
    <3> QED BY <3>1 DEF IndInv, LandedSound
  <2>12. SavedSound' /\ HydrationSound' BY <1>3, <2>1 DEF IndInv, SavedSound, HydrationSound
  <2>13. CountSound' BY <2>1 DEF IndInv, CountSound, Cached
  <2> QED BY <2>6, <2>8, <2>9, <2>10, <2>11, <2>12, <2>13 DEF IndInv
<1> QED BY <1>4, <1>5

-----------------------------------------------------------------------------
(***************************************************************************)
(* Steps of a fetch.                                                       *)
(***************************************************************************)

LEMMA FetchReadInv ==
  ASSUME IndInv, NEW b \in Blocks, FetchRead(b)
  PROVE  IndInv'
<1> USE DEF FetchRead, IndInv
<1>1. /\ inFlight' \in [Blocks -> Phases]
      /\ \A c \in Blocks : inFlight'[c] = IF c = b THEN "writing" ELSE inFlight[c]
  BY DEF Typed, Phases
<1>2. Typed' BY <1>1 DEF Typed
<1>3. FetchSound' BY <1>1 DEF FetchSound
<1>4. WaitersServed'
  <2>1. \A r \in Requests : req[r].pc = "wait" => req[r].at \in Blocks BY Covered DEF Active, Past
  <2> QED BY <1>1, <2>1 DEF WaitersServed, Typed, HydrationType
<1>5. ProgressSound' BY DEF ProgressSound, Active, Past, LastBlock
<1>6. LandedSound' BY <1>1, BlockOfType DEF LandedSound
<1>7. SavedSound' /\ HydrationSound' BY DEF SavedSound, HydrationSound
<1>8. CountSound' BY DEF CountSound, Cached
<1> QED BY <1>2, <1>3, <1>4, <1>5, <1>6, <1>7, <1>8

LEMMA FetchLandInv ==
  ASSUME IndInv, NEW b \in Blocks, FetchLand(b)
  PROVE  IndInv'
<1> USE DEF FetchLand, IndInv
<1>1. /\ inFlight' \in [Blocks -> Phases]
      /\ \A c \in Blocks : inFlight'[c] = IF c = b THEN "landed" ELSE inFlight[c]
  BY DEF Typed, Phases
<1>2. /\ store' \in [Sectors -> Values]
      /\ \A s \in Sectors : store'[s] = IF BlockOf(s) = b THEN Source[s] ELSE store[s]
  BY SourceAssumption DEF Typed, SectorsOf
<1>3. Typed' BY <1>1, <1>2 DEF Typed
<1>4. FetchSound' BY <1>1 DEF FetchSound
<1>5. WaitersServed'
  <2>1. \A r \in Requests : req[r].pc = "wait" => req[r].at \in Blocks BY Covered DEF Active, Past
  <2> QED BY <1>1, <2>1 DEF WaitersServed, Typed, HydrationType
<1>6. ProgressSound' BY DEF ProgressSound, Active, Past, LastBlock
<1>7. LandedSound' BY <1>1, <1>2, BlockOfType DEF LandedSound
<1>8. SavedSound' /\ HydrationSound' BY DEF SavedSound, HydrationSound
<1>9. CountSound' BY DEF CountSound, Cached
<1> QED BY <1>3, <1>4, <1>5, <1>6, <1>7, <1>8, <1>9

(* The fetch of b is over, and who awaited it is told. *)
LEMMA FetchEnds ==
  ASSUME IndInv, NEW b \in Blocks, inFlight[b] # "none", inFlight' = [inFlight EXCEPT ![b] = "none"]
  PROVE  /\ inFlight' \in [Blocks -> Phases]
         /\ \A c \in Blocks : inFlight'[c] = IF c = b THEN "none" ELSE inFlight[c]
         /\ b \notin Holes /\ ~bitmap[b]
         /\ UNCHANGED store => LandedSound'
<1>1. /\ inFlight' \in [Blocks -> Phases]
      /\ \A c \in Blocks : inFlight'[c] = IF c = b THEN "none" ELSE inFlight[c]
  BY DEF IndInv, Typed, Phases
<1>2. b \notin Holes /\ ~bitmap[b] BY DEF IndInv, FetchSound
<1>3. ASSUME UNCHANGED store PROVE LandedSound'
  BY <1>1, <1>3, BlockOfType DEF IndInv, LandedSound
<1> QED BY <1>1, <1>2, <1>3

(* A slot that is given back. *)
LEMMA OneLessAwaited ==
  ASSUME IndInv, NEW b \in hydration.waiting
  PROVE  /\ IsFiniteSet(hydration.waiting)
         /\ Cardinality(hydration.waiting \ {b}) = Cardinality(hydration.waiting) - 1
         /\ Cardinality(hydration.waiting) \in Nat \ {0}
<1>1. hydration.waiting \subseteq Blocks BY DEF IndInv, Typed, HydrationType
<1>2. IsFiniteSet(hydration.waiting) BY <1>1, BlockOfType, FS_Subset
<1>3. Cardinality(hydration.waiting \ {b}) = Cardinality(hydration.waiting) - 1 BY <1>2, FS_RemoveElement
<1>4. Cardinality(hydration.waiting) \in Nat BY <1>2, FS_CardinalityType
<1>5. Cardinality(hydration.waiting) # 0 BY <1>2, FS_EmptySet
<1> QED BY <1>2, <1>3, <1>4, <1>5

LEMMA FetchDoneInv ==
  ASSUME IndInv, NEW b \in Blocks, FetchDone(b)
  PROVE  IndInv'
<1>1. /\ inFlight[b] = "landed" /\ SetCached(b)
      /\ inFlight' = [inFlight EXCEPT ![b] = "none"]
      /\ req' = [r \in Requests |-> IF r \in Waiters(b)
                                    THEN [req[r] EXCEPT !.pc = "ensure", !.at = b + 1]
                                    ELSE req[r]]
      /\ hydration' = HydrationSettles(b)
      /\ UNCHANGED <<open, store, saved>>
  BY DEF FetchDone
<1>2. /\ inFlight' \in [Blocks -> Phases]
      /\ \A c \in Blocks : inFlight'[c] = IF c = b THEN "none" ELSE inFlight[c]
      /\ LandedSound'
  BY <1>1, FetchEnds
<1>3. CountSound' /\ bitmap' \in [Blocks -> BOOLEAN] /\ \A c \in Blocks : bitmap'[c] = (bitmap[c] \/ c = b)
  BY <1>1, OneMoreCached
<1>4. b + 1 \in 0 .. BlockCount BY BlockOfType DEF Blocks
<1>5. ASSUME NEW r \in Requests
      PROVE  /\ req'[r] \in ReqType
             /\ req'[r].pc = "wait" => req[r].pc = "wait" /\ req'[r] = req[r] /\ req[r].at # b
             /\ Active(req'[r]) => Past(req'[r], bitmap')
  <2>0. req[r] \in ReqType BY DEF IndInv, Typed
  <2>1. CASE r \in Waiters(b)
    <3> DEFINE q == [req[r] EXCEPT !.pc = "ensure", !.at = b + 1]
    <3>1. req'[r] = q BY <1>1, <2>1
    <3>2. q \in ReqType /\ q.pc = "ensure" /\ q.at = b + 1 /\ q.first = req[r].first /\ q.last = req[r].last
      BY <1>4, <2>0 DEF ReqType, Steps
    <3>3. Active(req[r]) /\ req[r].at = b /\ req[r].pc = "wait" BY <2>1 DEF Waiters, Active
    <3>4. Past(req[r], bitmap) /\ b <= LastBlock(req[r]) BY <3>3, Covered DEF Past
    <3> HIDE DEF q
    <3>5. Past(q, bitmap') BY <1>3, <2>0, <3>2, <3>3, <3>4, PastNext
    <3> QED BY <3>1, <3>2, <3>5
  <2>2. CASE r \notin Waiters(b)
    <3>1. req'[r] = req[r] BY <1>1, <2>2
    <3>2. req[r].pc = "wait" => req[r].at # b BY <2>2 DEF Waiters
    <3>3. Active(req[r]) => Past(req[r], bitmap') BY <1>3, PastGrows DEF IndInv, ProgressSound
    <3> QED BY <2>0, <3>1, <3>2, <3>3
  <2> QED BY <2>1, <2>2
<1>6. hydration' \in HydrationType /\ HydrationSound' /\ hydration'.waiting = hydration.waiting \ {b}
  <2>0. hydration \in HydrationType BY DEF IndInv, Typed
  <2>1. CASE b \in hydration.waiting
    <3> DEFINE n == IF hydration.pc = "running" THEN hydration.running - 1 ELSE hydration.running
    <3>1. hydration' = [hydration EXCEPT !.waiting = hydration.waiting \ {b}, !.running = n]
      BY <1>1, <2>1 DEF HydrationSettles
    <3>2. n \in 0 .. HydrateConcurrency /\ (hydration.pc = "running" => n = Cardinality(hydration.waiting \ {b}))
      BY <2>0, <2>1, OneLessAwaited, ConcurrencyAssumption DEF IndInv, HydrationSound, HydrationType
    <3> HIDE DEF n
    <3>3. /\ hydration' \in HydrationType /\ hydration'.waiting = hydration.waiting \ {b}
          /\ hydration'.pc = hydration.pc /\ hydration'.next = hydration.next /\ hydration'.running = n
      BY <2>0, <3>1, <3>2 DEF HydrationType
    <3>4. HydrationSound' BY <1>3, <3>2, <3>3 DEF IndInv, HydrationSound
    <3> QED BY <3>3, <3>4
  <2>2. CASE b \notin hydration.waiting
    <3>1. hydration' = hydration BY <1>1, <2>2 DEF HydrationSettles
    <3>2. hydration.waiting \ {b} = hydration.waiting BY <2>2
    <3> QED BY <1>1, <1>3, <2>0, <3>1, <3>2, Marked
  <2> QED BY <2>1, <2>2
<1>7. Typed'
  <2>1. req' \in [Requests -> ReqType] BY <1>1, <1>5
  <2> QED BY <1>1, <1>2, <1>3, <1>6, <2>1 DEF IndInv, Typed
<1>8. FetchSound' BY <1>2, <1>3 DEF IndInv, FetchSound
<1>9. WaitersServed'
  <2>1. ASSUME NEW r \in Requests, req'[r].pc = "wait" PROVE inFlight'[req'[r].at] # "none"
    <3>1. req[r].pc = "wait" /\ req'[r] = req[r] /\ req[r].at # b /\ Active(req[r]) BY <1>5, <2>1 DEF Active
    <3>2. req[r].at \in Blocks BY <3>1, Covered DEF Past
    <3>3. inFlight[req[r].at] # "none" BY <3>1 DEF IndInv, WaitersServed
    <3> QED BY <1>2, <3>1, <3>2, <3>3
  <2>2. \A c \in hydration'.waiting : inFlight'[c] # "none"
    <3>1. \A c \in hydration.waiting : c \in Blocks /\ inFlight[c] # "none"
      BY DEF IndInv, WaitersServed, Typed, HydrationType
    <3> QED BY <1>2, <1>6, <3>1
  <2> QED BY <2>1, <2>2 DEF WaitersServed
<1>10. ProgressSound' BY <1>5 DEF ProgressSound, Active
<1>11. SavedSound' BY <1>1, <1>3, Marked
<1> QED BY <1>2, <1>3, <1>6, <1>7, <1>8, <1>9, <1>10, <1>11 DEF IndInv

LEMMA FetchFailInv ==
  ASSUME IndInv, NEW b \in Blocks, FetchFail(b)
  PROVE  IndInv'
<1>1. /\ inFlight[b] # "none"
      /\ inFlight' = [inFlight EXCEPT ![b] = "none"]
      /\ req' = [r \in Requests |-> IF r \in Waiters(b) THEN [req[r] EXCEPT !.pc = "failed"] ELSE req[r]]
      /\ UNCHANGED <<open, store, bitmap, cachedCount, saved>>
  BY DEF FetchFail
<1>2. /\ inFlight' \in [Blocks -> Phases]
      /\ \A c \in Blocks : inFlight'[c] = IF c = b THEN "none" ELSE inFlight[c]
      /\ LandedSound'
  BY <1>1, FetchEnds
<1>3. ASSUME NEW r \in Requests
      PROVE  /\ req'[r] \in ReqType
             /\ req'[r].pc = "wait" => req[r].pc = "wait" /\ req'[r] = req[r] /\ req[r].at # b
             /\ Active(req'[r]) => Past(req'[r], bitmap)
  <2>0. req[r] \in ReqType BY DEF IndInv, Typed
  <2>1. CASE r \in Waiters(b)
    <3>1. req'[r] = [req[r] EXCEPT !.pc = "failed"] BY <1>1, <2>1
    <3>2. [req[r] EXCEPT !.pc = "failed"] \in ReqType /\ [req[r] EXCEPT !.pc = "failed"].pc = "failed"
      BY <2>0, Fields DEF Steps
    <3> QED BY <3>1, <3>2 DEF Active
  <2>2. CASE r \notin Waiters(b)
    <3>1. req'[r] = req[r] BY <1>1, <2>2
    <3>2. req[r].pc = "wait" => req[r].at # b BY <2>2 DEF Waiters
    <3> QED BY <2>0, <3>1, <3>2 DEF IndInv, ProgressSound
  <2> QED BY <2>1, <2>2
<1>4. hydration' \in HydrationType /\ HydrationSound' /\ hydration'.waiting = hydration.waiting \ {b}
  <2>0. hydration \in HydrationType BY DEF IndInv, Typed
  <2>1. CASE b \in hydration.waiting
    <3> DEFINE p == IF hydration.pc = "running" THEN "rejected" ELSE hydration.pc
    <3>1. hydration' = [hydration EXCEPT !.waiting = hydration.waiting \ {b}, !.pc = p]
      BY <2>1 DEF FetchFail
    <3>2. /\ hydration' \in HydrationType /\ hydration'.waiting = hydration.waiting \ {b}
          /\ hydration'.pc = p /\ hydration'.next = hydration.next
      BY <2>0, <3>1 DEF HydrationType
    <3>3. p # "running" /\ (p = "done" => hydration.pc = "done") OBVIOUS
    <3> HIDE DEF p
    <3>4. HydrationSound' BY <1>1, <3>2, <3>3 DEF IndInv, HydrationSound
    <3> QED BY <3>2, <3>4
  <2>2. CASE b \notin hydration.waiting
    <3>1. hydration' = hydration BY <2>2 DEF FetchFail
    <3>2. hydration.waiting \ {b} = hydration.waiting BY <2>2
    <3> QED BY <1>1, <2>0, <3>1, <3>2, Marked
  <2> QED BY <2>1, <2>2
<1>5. Typed'
  <2>1. req' \in [Requests -> ReqType] BY <1>1, <1>3
  <2> QED BY <1>1, <1>2, <1>4, <2>1 DEF IndInv, Typed
<1>6. FetchSound' BY <1>1, <1>2 DEF IndInv, FetchSound
<1>7. WaitersServed'
  <2>1. ASSUME NEW r \in Requests, req'[r].pc = "wait" PROVE inFlight'[req'[r].at] # "none"
    <3>1. req[r].pc = "wait" /\ req'[r] = req[r] /\ req[r].at # b /\ Active(req[r]) BY <1>3, <2>1 DEF Active
    <3>2. req[r].at \in Blocks BY <3>1, Covered DEF Past
    <3>3. inFlight[req[r].at] # "none" BY <3>1 DEF IndInv, WaitersServed
    <3> QED BY <1>2, <3>1, <3>2, <3>3
  <2>2. \A c \in hydration'.waiting : inFlight'[c] # "none"
    <3>1. \A c \in hydration.waiting : c \in Blocks /\ inFlight[c] # "none"
      BY DEF IndInv, WaitersServed, Typed, HydrationType
    <3> QED BY <1>2, <1>4, <3>1
  <2> QED BY <2>1, <2>2 DEF WaitersServed
<1>8. ProgressSound' BY <1>1, <1>3 DEF ProgressSound, Active
<1>9. SavedSound' /\ CountSound' BY <1>1 DEF IndInv, SavedSound, CountSound, Cached
<1> QED BY <1>2, <1>4, <1>5, <1>6, <1>7, <1>8, <1>9 DEF IndInv

-----------------------------------------------------------------------------
(***************************************************************************)
(* Steps of a hydration.                                                   *)
(***************************************************************************)

(* A step of the hydration only. *)
LEMMA HydrationStep ==
  ASSUME IndInv, UNCHANGED <<open, store, bitmap, cachedCount, inFlight, saved, req>>,
         hydration' \in HydrationType, HydrationSound', hydration'.waiting \subseteq hydration.waiting
  PROVE  IndInv'
<1> USE DEF IndInv
<1>1. Typed' BY DEF Typed
<1>2. FetchSound' /\ SavedSound' BY DEF FetchSound, SavedSound
<1>3. WaitersServed' BY DEF WaitersServed
<1>4. ProgressSound' BY DEF ProgressSound, Active, Past, LastBlock
<1>5. LandedSound' BY DEF LandedSound
<1>6. CountSound' BY DEF CountSound, Cached
<1> QED BY <1>1, <1>2, <1>3, <1>4, <1>5, <1>6

LEMMA HydrateInv == ASSUME IndInv, Hydrate PROVE IndInv'
<1>1. /\ hydration' \in HydrationType /\ hydration'.pc = "running" /\ hydration'.next = 0
      /\ hydration'.running = 0 /\ hydration'.waiting = {}
  BY BlockOfType, ConcurrencyAssumption DEF Hydrate, NoHydration, HydrationType
<1>2. HydrationSound' BY <1>1, FS_EmptySet DEF HydrationSound, Blocks
<1> QED BY <1>1, <1>2, HydrationStep DEF Hydrate

LEMMA HydrateEndInv == ASSUME IndInv, HydrateDone \/ HydrateAbort PROVE IndInv'
<1>0. hydration \in HydrationType BY DEF IndInv, Typed
<1>1. CASE HydrateDone
  <2>1. /\ hydration' \in HydrationType /\ hydration'.pc = "done"
        /\ hydration'.waiting = hydration.waiting /\ hydration'.next = hydration.next
    BY <1>0, <1>1 DEF HydrateDone, HydrationType
  <2>2. /\ hydration.pc = "running" /\ hydration.next = BlockCount
        /\ Cardinality(hydration.waiting) = 0
    BY <1>1 DEF HydrateDone, IndInv, HydrationSound
  <2>3. hydration.waiting = {}
    <3>1. hydration.waiting \subseteq Blocks BY <1>0 DEF HydrationType
    <3>2. IsFiniteSet(hydration.waiting) BY <3>1, BlockOfType, FS_Subset
    <3> QED BY <2>2, <3>2, FS_EmptySet
  <2>4. \A b \in Blocks : bitmap[b]
    BY <2>2, <2>3, BlockOfType DEF IndInv, HydrationSound, Blocks
  <2>5. HydrationSound' BY <1>1, <2>1, <2>3, <2>4 DEF HydrationSound, HydrateDone
  <2> QED BY <1>1, <2>1, <2>5, HydrationStep DEF HydrateDone
<1>2. CASE HydrateAbort
  <2>1. /\ hydration' \in HydrationType /\ hydration'.pc = "rejected"
        /\ hydration'.waiting = hydration.waiting /\ hydration'.next = hydration.next
    BY <1>0, <1>2 DEF HydrateAbort, HydrationType
  <2>2. HydrationSound' BY <2>1 DEF IndInv, HydrationSound
  <2> QED BY <1>2, <2>1, <2>2, HydrationStep DEF HydrateAbort
<1> QED BY <1>1, <1>2

LEMMA HydrateNextInv == ASSUME IndInv, HydrateNext PROVE IndInv'
<1> DEFINE b == hydration.next
<1>0. hydration \in HydrationType BY DEF IndInv, Typed
<1>1. /\ hydration.pc # "idle" /\ b < BlockCount /\ hydration.running < HydrateConcurrency
      /\ UNCHANGED <<open, store, saved, req>>
  BY DEF HydrateNext
<1>2. b \in Blocks /\ b + 1 \in 0 .. BlockCount /\ hydration.running + 1 \in 0 .. HydrateConcurrency
  BY <1>0, <1>1, BlockOfType, ConcurrencyAssumption DEF HydrationType, Blocks
<1>3. CASE bitmap[b] \/ b \in Holes
  <2> DEFINE n == IF hydration.pc = "running" THEN hydration.running ELSE hydration.running + 1
  <2>1. UNCHANGED inFlight BY <1>3 DEF HydrateNext, StartFetch
  <2>2. /\ CountSound' /\ bitmap' \in [Blocks -> BOOLEAN]
        /\ \A c \in Blocks : bitmap'[c] = (bitmap[c] \/ c = b)
    <3>1. CASE bitmap[b]
      <4>1. UNCHANGED <<bitmap, cachedCount>> BY <3>1 DEF HydrateNext
      <4> QED BY <1>2, <3>1, <4>1 DEF IndInv, Typed, CountSound, Cached
    <3>2. CASE ~bitmap[b]
      <4>1. SetCached(b) BY <1>3, <3>2 DEF HydrateNext, StartFetch
      <4> QED BY <1>2, <4>1, OneMoreCached
    <3> QED BY <3>1, <3>2
  <2>3. hydration' = [hydration EXCEPT !.next = b + 1, !.running = n] BY <1>3 DEF HydrateNext
  <2>4. n \in 0 .. HydrateConcurrency /\ (hydration.pc = "running" => n = hydration.running)
    BY <1>0, <1>2 DEF HydrationType
  <2> HIDE DEF n
  <2>5. /\ hydration' \in HydrationType /\ hydration'.pc = hydration.pc /\ hydration'.next = b + 1
        /\ hydration'.running = n /\ hydration'.waiting = hydration.waiting
    BY <1>0, <1>2, <2>3, <2>4 DEF HydrationType
  <2>6. HydrationSound'
    <3>1. \A c \in hydration.waiting : c \in Blocks /\ c < b BY <1>0 DEF IndInv, HydrationSound, HydrationType
    <3>2. \A c \in hydration'.waiting : c < hydration'.next BY <1>2, <2>5, <3>1 DEF Blocks
    <3>3. hydration'.pc = "running" =>
            /\ hydration'.running = Cardinality(hydration'.waiting)
            /\ \A c \in Blocks : c < hydration'.next => bitmap'[c] \/ c \in hydration'.waiting
      BY <1>2, <2>2, <2>4, <2>5 DEF IndInv, HydrationSound, Blocks
    <3>4. hydration'.pc = "done" => \A c \in Blocks : bitmap'[c]
      BY <2>2, <2>5 DEF IndInv, HydrationSound
    <3> QED BY <3>2, <3>3, <3>4 DEF HydrationSound
  <2>7. Typed' BY <1>1, <2>1, <2>2, <2>5 DEF IndInv, Typed
  <2>8. FetchSound' BY <1>3, <2>1, <2>2 DEF IndInv, FetchSound
  <2>9. WaitersServed' BY <1>1, <2>1, <2>5 DEF IndInv, WaitersServed
  <2>10. ProgressSound'
    <3> SUFFICES ASSUME NEW x \in Requests, Active(req[x]) PROVE Past(req[x], bitmap')
      BY <1>1 DEF ProgressSound, Active
    <3> QED BY <2>2, PastGrows DEF IndInv, ProgressSound
  <2>11. LandedSound' BY <1>1, <2>1, SameStore
  <2>12. SavedSound' BY <1>1, <2>2, Marked
  <2> QED BY <2>2, <2>6, <2>7, <2>8, <2>9, <2>10, <2>11, <2>12 DEF IndInv
<1>4. CASE ~bitmap[b] /\ b \notin Holes
  <2>1. /\ inFlight' = [inFlight EXCEPT ![b] = IF @ = "none" THEN "reading" ELSE @]
        /\ UNCHANGED <<bitmap, cachedCount>>
        /\ hydration' = [hydration EXCEPT !.next = b + 1, !.running = hydration.running + 1,
                                          !.waiting = hydration.waiting \cup {b}]
    BY <1>4 DEF HydrateNext, StartFetch
  <2>2. /\ inFlight' \in [Blocks -> Phases]
        /\ \A c \in Blocks : inFlight'[c] = IF c = b /\ inFlight[c] = "none" THEN "reading" ELSE inFlight[c]
    BY <1>2, <2>1 DEF IndInv, Typed, Phases
  <2>3. /\ hydration' \in HydrationType /\ hydration'.pc = hydration.pc /\ hydration'.next = b + 1
        /\ hydration'.running = hydration.running + 1 /\ hydration'.waiting = hydration.waiting \cup {b}
    BY <1>0, <1>2, <2>1 DEF HydrationType
  <2>4. \A c \in hydration.waiting : c \in Blocks /\ c < b BY <1>0 DEF IndInv, HydrationSound, HydrationType
  <2>5. Cardinality(hydration.waiting \cup {b}) = Cardinality(hydration.waiting) + 1
    <3>1. IsFiniteSet(hydration.waiting) BY <2>4, BlockOfType, FS_Subset
    <3>2. b \notin hydration.waiting BY <1>2, <2>4 DEF Blocks
    <3> QED BY <3>1, <3>2, FS_AddElement
  <2>6. HydrationSound'
    <3>1. \A c \in hydration'.waiting : c < hydration'.next BY <1>2, <2>3, <2>4 DEF Blocks
    <3>2. hydration'.pc = "running" =>
            /\ hydration'.running = Cardinality(hydration'.waiting)
            /\ \A c \in Blocks : c < hydration'.next => bitmap'[c] \/ c \in hydration'.waiting
      BY <1>2, <2>1, <2>3, <2>5 DEF IndInv, HydrationSound, Blocks
    <3>3. hydration'.pc = "done" => \A c \in Blocks : bitmap'[c]
      BY <2>1, <2>3 DEF IndInv, HydrationSound
    <3> QED BY <3>1, <3>2, <3>3 DEF HydrationSound
  <2>7. Typed' BY <1>1, <2>1, <2>2, <2>3 DEF IndInv, Typed
  <2>8. FetchSound' BY <1>4, <2>1, <2>2 DEF IndInv, FetchSound
  <2>9. WaitersServed'
    <3>1. \A x \in Requests : req[x].pc = "wait" => req[x].at \in Blocks BY Covered DEF Active, Past
    <3>2. \A x \in Requests : req'[x].pc = "wait" => inFlight'[req'[x].at] # "none"
      BY <1>1, <2>2, <3>1 DEF IndInv, WaitersServed
    <3>3. \A c \in hydration'.waiting : inFlight'[c] # "none"
      <4>1. \A c \in hydration.waiting : inFlight[c] # "none" BY DEF IndInv, WaitersServed
      <4> QED BY <1>2, <2>2, <2>3, <2>4, <4>1
    <3> QED BY <3>2, <3>3 DEF WaitersServed
  <2>10. ProgressSound' BY <1>1, <2>1 DEF IndInv, ProgressSound, Active, Past, LastBlock
  <2>11. LandedSound'
    <3> SUFFICES ASSUME NEW x \in Sectors, inFlight'[BlockOf(x)] = "landed" PROVE store[x] = Source[x]
      BY <1>1 DEF LandedSound
    <3>1. inFlight[BlockOf(x)] = "landed" BY <2>2, BlockOfType
    <3> QED BY <3>1 DEF IndInv, LandedSound
  <2>12. SavedSound' /\ CountSound' BY <1>1, <2>1 DEF IndInv, SavedSound, CountSound, Cached
  <2> QED BY <2>6, <2>7, <2>8, <2>9, <2>10, <2>11, <2>12 DEF IndInv
<1> QED BY <1>3, <1>4

-----------------------------------------------------------------------------
(***************************************************************************)
(* The life of the device, and the invariant.                              *)
(***************************************************************************)

LEMMA SaveByteInv == ASSUME IndInv, NEW b \in Blocks, SaveByte(b) PROVE IndInv'
<1> USE DEF IndInv, SaveByte
<1>1. saved' \in [Blocks -> BOOLEAN] /\ \A c \in Blocks : saved'[c] = (saved[c] \/ c = b) BY DEF Typed
<1>2. Typed' BY <1>1 DEF Typed
<1>3. FetchSound' BY DEF FetchSound
<1>4. WaitersServed' BY DEF WaitersServed
<1>5. ProgressSound' BY DEF ProgressSound, Active, Past, LastBlock
<1>6. LandedSound' BY DEF LandedSound
<1>7. SavedSound' BY <1>1 DEF SavedSound
<1>8. HydrationSound' BY DEF HydrationSound
<1>9. CountSound' BY DEF CountSound, Cached
<1> QED BY <1>2, <1>3, <1>4, <1>5, <1>6, <1>7, <1>8, <1>9

LEMMA CloseInv == ASSUME IndInv, Close \/ UNCHANGED vars PROVE IndInv'
<1> USE DEF IndInv, Close, vars
<1>1. Typed' BY DEF Typed
<1>2. FetchSound' /\ SavedSound' /\ LandedSound' BY DEF FetchSound, SavedSound, LandedSound
<1>3. WaitersServed' BY DEF WaitersServed
<1>4. ProgressSound' BY DEF ProgressSound, Active, Past, LastBlock
<1>5. HydrationSound' BY DEF HydrationSound
<1>6. CountSound' BY DEF CountSound, Cached
<1> QED BY <1>1, <1>2, <1>3, <1>4, <1>5, <1>6

(* Nothing is under way, in memory, and the bitmap is what it was or less. *)
LEMMA RestartInv ==
  ASSUME IndInv, open' \in BOOLEAN, UNCHANGED store,
         \A b \in Blocks : inFlight'[b] = "none", inFlight' \in [Blocks -> Phases],
         req' \in [Requests -> ReqType], \A r \in Requests : req'[r].pc = "idle",
         hydration' = NoHydration,
         bitmap' \in [Blocks -> BOOLEAN], saved' \in [Blocks -> BOOLEAN], SavedSound', CountSound'
  PROVE  IndInv'
<1>1. Typed' BY NewHydration DEF IndInv, Typed
<1>2. FetchSound' BY DEF FetchSound
<1>3. WaitersServed' BY NewHydration DEF WaitersServed
<1>4. ProgressSound' BY DEF ProgressSound, Active
<1>5. LandedSound' BY BlockOfType DEF LandedSound
<1>6. HydrationSound' BY NewHydration DEF HydrationSound
<1> QED BY <1>1, <1>2, <1>3, <1>4, <1>5, <1>6 DEF IndInv

LEMMA CrashInv == ASSUME IndInv, Crash PROVE IndInv'
<1>1. req' \in [Requests -> ReqType] /\ \A r \in Requests : req'[r].pc = "idle"
  BY NewRequests DEF Crash
<1>2. inFlight' \in [Blocks -> Phases] /\ \A b \in Blocks : inFlight'[b] = "none" BY DEF Crash, Phases
<1>3. /\ open' \in BOOLEAN /\ hydration' = NoHydration
      /\ UNCHANGED <<store, bitmap, cachedCount, saved>>
  BY DEF Crash
<1>4. SavedSound' /\ CountSound' BY <1>3 DEF IndInv, SavedSound, CountSound, Cached
<1>5. bitmap' \in [Blocks -> BOOLEAN] /\ saved' \in [Blocks -> BOOLEAN] BY <1>3 DEF IndInv, Typed
<1> QED BY <1>1, <1>2, <1>3, <1>4, <1>5, RestartInv

LEMMA OpenInv == ASSUME IndInv, OpenResumed \/ OpenCold PROVE IndInv'
<1>1. /\ open' = TRUE /\ hydration' = NoHydration /\ UNCHANGED <<store, inFlight, req>> /\ Quiet
  BY DEF OpenResumed, OpenCold
<1>2. /\ \A b \in Blocks : inFlight'[b] = "none"
      /\ \A r \in Requests : req'[r].pc = "idle"
  BY <1>1 DEF Quiet
<1>3. inFlight' \in [Blocks -> Phases] /\ req' \in [Requests -> ReqType] BY <1>1 DEF IndInv, Typed
<1>4. bitmap' \in [Blocks -> BOOLEAN] /\ saved' \in [Blocks -> BOOLEAN] /\ SavedSound'
  BY DEF OpenResumed, OpenCold, IndInv, Typed, SavedSound
<1>5. CountSound'
  <2>1. CASE OpenResumed BY <2>1 DEF OpenResumed, CountSound, Cached
  <2>2. CASE OpenCold BY <2>2, NoneCached DEF OpenCold, CountSound, Cached
  <2> QED BY <2>1, <2>2
<1> QED BY <1>1, <1>2, <1>3, <1>4, <1>5, RestartInv

(* Every step preserves the invariant. *)
LEMMA NextInv == IndInv /\ [Next]_vars => IndInv'
<1> SUFFICES ASSUME IndInv, [Next]_vars PROVE IndInv' OBVIOUS
<1>1. ASSUME NEW b \in Blocks, FetchRead(b) PROVE IndInv' BY <1>1, FetchReadInv
<1>2. ASSUME NEW b \in Blocks, FetchLand(b) PROVE IndInv' BY <1>2, FetchLandInv
<1>3. ASSUME NEW b \in Blocks, FetchDone(b) PROVE IndInv' BY <1>3, FetchDoneInv
<1>4. ASSUME NEW b \in Blocks, FetchFail(b) PROVE IndInv' BY <1>4, FetchFailInv
<1>5. ASSUME NEW b \in Blocks, SaveByte(b) PROVE IndInv' BY <1>5, SaveByteInv
<1>6. ASSUME NEW r \in Requests, NEW span \in Spans,
             Call(r, "read", span, Zero) \/ \E v \in Payloads : Call(r, "write", span, v)
      PROVE  IndInv'
  BY <1>6, CallInv, SourceAssumption, RequestsAssumption
<1>7. ASSUME NEW r \in Requests, SkipCached(r) PROVE IndInv' BY <1>7, SkipCachedInv
<1>8. ASSUME NEW r \in Requests, EnsureBlock(r) PROVE IndInv' BY <1>8, EnsureBlockInv
<1>9. ASSUME NEW r \in Requests, ReadStore(r) PROVE IndInv' BY <1>9, ReadStoreInv
<1>10. ASSUME NEW r \in Requests, WriteStore(r) PROVE IndInv' BY <1>10, WriteStoreInv
<1>11. ASSUME NEW r \in Requests, WriteDone(r) \/ RequestFail(r) \/ Return(r) PROVE IndInv' BY <1>11, SettleInv
<1>12. CASE Hydrate BY <1>12, HydrateInv
<1>13. CASE HydrateNext BY <1>13, HydrateNextInv
<1>14. CASE HydrateDone \/ HydrateAbort BY <1>14, HydrateEndInv
<1>15. CASE Close \/ UNCHANGED vars BY <1>15, CloseInv
<1>16. CASE Crash BY <1>16, CrashInv
<1>17. CASE OpenResumed \/ OpenCold BY <1>17, OpenInv
<1> QED
  BY <1>1, <1>2, <1>3, <1>4, <1>5, <1>6, <1>7, <1>8, <1>9, <1>10, <1>11, <1>12, <1>13, <1>14, <1>15,
     <1>16, <1>17 DEF Next

(* The invariant holds of every behaviour of the device. *)
THEOREM Invariant == Spec => []IndInv
<1>1. Init => IndInv BY InitInv
<1>2. IndInv /\ [Next]_vars => IndInv' BY NextInv
<1> QED BY <1>1, <1>2, PTL DEF Spec

(* TypeOK: the types of the variables, and the slots of hydrate() that are
   never more than its concurrency.                                        *)
THEOREM TypeCorrect == Spec => []TypeOK
<1>1. IndInv => TypeOK BY DEF IndInv, Typed, TypeOK, ReqType, HydrationType
<1> QED BY <1>1, Invariant, PTL

(* Whoever awaits a block awaits a fetch that is in flight. *)
THEOREM WaitersAreServed == Spec => []WaitersServed
<1>1. IndInv => WaitersServed BY DEF IndInv
<1> QED BY <1>1, Invariant, PTL

(* A hydration that resolved has materialised the disk, and the count of
   materialised blocks is exact.                                           *)
THEOREM HydrationComplete == Spec => []HydratedMeansCached
<1>1. IndInv => HydratedMeansCached
  BY DEF IndInv, HydrationSound, CountSound, Cached, HydratedMeansCached
<1> QED BY <1>1, Invariant, PTL

-----------------------------------------------------------------------------
(***************************************************************************)
(* The refinement.                                                         *)
(***************************************************************************)

Calls == [r \in Requests |-> CallOf(req[r])]

(* A step that changes neither what is read, nor what is stable, nor the
   calls is a stutter of the abstract device.                              *)
LEMMA Stutter == ASSUME Content' = Content, Stable' = Stable, Calls' = Calls PROVE UNCHANGED Device!vars
BY DEF Device!vars, Calls

LEMMA SameContent == ASSUME UNCHANGED <<store, bitmap>> PROVE Content' = Content BY DEF Content
LEMMA SameStable == ASSUME UNCHANGED saved PROVE Stable' = Stable BY DEF Stable
LEMMA SameCalls == ASSUME UNCHANGED req PROVE Calls' = Calls BY DEF Calls

(* A step of one request changes one call. *)
LEMMA OneCall ==
  ASSUME IndInv, NEW r \in Requests, NEW q, req' = [req EXCEPT ![r] = q]
  PROVE  Calls' = [Calls EXCEPT ![r] = CallOf(q)] /\ Calls[r] = CallOf(req[r])
BY DEF Calls, IndInv, Typed

LEMMA InitRefines == Init => Device!Init
<1> SUFFICES ASSUME Init PROVE Device!Init OBVIOUS
<1>1. Content = Source
  <2>1. \A x \in Sectors : Content[x] = Source[x]
    BY BlockOfType, SourceAssumption DEF Content, Init
  <2> QED BY <2>1, SourceAssumption DEF Content
<1>2. Stable \in SUBSET Sectors BY DEF Stable
<1>3. [r \in Requests |-> CallOf(req[r])] = [r \in Requests |-> Device!Idle]
  BY DEF Init, CallOf, NoRequest, Device!Idle
<1> QED BY <1>1, <1>2, <1>3 DEF Device!Init, Device!Sectors, Sectors

(* How the steps of a request change its call. *)
LEMMA CallFields ==
  ASSUME NEW q \in ReqType
  PROVE  /\ \A pc \in {"landed", "done", "failed"} :
              CallOf([q EXCEPT !.pc = pc]) = [CallOf(q) EXCEPT !.phase = pc]
         /\ q.pc \in {"ensure", "wait"} =>
              /\ CallOf(q).phase = "called"
              /\ CallOf([q EXCEPT !.pc = "wait"]) = CallOf(q)
              /\ \A at \in 0 .. BlockCount : /\ CallOf([q EXCEPT !.at = at]) = CallOf(q)
                                              /\ CallOf([q EXCEPT !.pc = "ensure", !.at = at]) = CallOf(q)
         /\ q.pc \notin {"ensure", "wait"} => CallOf(q).phase = q.pc
         /\ CallOf(q).op = q.op /\ CallOf(q).val = q.val /\ CallOf(q).data = q.data
         /\ Device!Span(CallOf(q)) = Span(q)
<1>1. \A pc \in {"landed", "done", "failed"} : CallOf([q EXCEPT !.pc = pc]) = [CallOf(q) EXCEPT !.phase = pc]
  BY DEF ReqType, CallOf
<1>2. q.pc \in {"ensure", "wait"} =>
              /\ CallOf(q).phase = "called"
              /\ CallOf([q EXCEPT !.pc = "wait"]) = CallOf(q)
              /\ \A at \in 0 .. BlockCount : /\ CallOf([q EXCEPT !.at = at]) = CallOf(q)
                                              /\ CallOf([q EXCEPT !.pc = "ensure", !.at = at]) = CallOf(q)
  BY DEF ReqType, CallOf
<1>3. q.pc \notin {"ensure", "wait"} => CallOf(q).phase = q.pc BY DEF CallOf
<1>4. CallOf(q).op = q.op /\ CallOf(q).val = q.val /\ CallOf(q).data = q.data BY DEF CallOf
<1>5. Device!Span(CallOf(q)) = Span(q) BY DEF CallOf, Device!Span, Span
<1> QED BY <1>1, <1>2, <1>3, <1>4, <1>5

(* A read that took effect. *)
LEMMA ReadCall ==
  ASSUME NEW q \in ReqType, NEW d
  PROVE  CallOf([q EXCEPT !.pc = "done", !.data = d]) = [CallOf(q) EXCEPT !.phase = "done", !.data = d]
<1> DEFINE p == [q EXCEPT !.pc = "done", !.data = d]
<1> DEFINE rec(ph, e) == [op |-> q.op, first |-> q.first, last |-> q.last, val |-> q.val, data |-> e, phase |-> ph]
<1>1. p.op = q.op /\ p.first = q.first /\ p.last = q.last /\ p.val = q.val /\ p.pc = "done" /\ p.data = d
  BY DEF ReqType
<1> HIDE DEF p
<1>2. CallOf(p) = rec("done", d) BY <1>1 DEF CallOf
<1>3. [CallOf(q) EXCEPT !.phase = "done"] = rec("done", q.data) BY DEF CallOf
<1>4. [rec("done", q.data) EXCEPT !.data = d] = rec("done", d) OBVIOUS
<1> HIDE DEF rec
<1>5. [CallOf(q) EXCEPT !.phase = "done", !.data = d] = rec("done", d) BY <1>3, <1>4
<1> QED BY <1>2, <1>5 DEF p

LEMMA ReadRefines == ASSUME IndInv, NEW r \in Requests, ReadStore(r) PROVE Device!Read(r)
<1> DEFINE d == [x \in Span(req[r]) |-> store[x]]
<1>1. Ensured(req[r]) /\ req[r].op = "read" /\ req[r].pc = "ensure" BY DEF ReadStore, Ensured
<1>2. req[r] \in ReqType BY DEF IndInv, Typed
<1>3. d = [x \in Device!Span(Calls[r]) |-> Content[x]]
  <2>1. Device!Span(Calls[r]) = Span(req[r]) BY <1>2, CallFields DEF Calls
  <2>2. \A x \in Span(req[r]) : Content[x] = store[x] BY <1>1, CoveredCached DEF Content
  <2> QED BY <2>1, <2>2
<1>4. req' = [req EXCEPT ![r] = [req[r] EXCEPT !.pc = "done", !.data = d]] BY DEF ReadStore, IndInv, Typed
<1> HIDE DEF d
<1>5. Calls' = [Calls EXCEPT ![r] = [CallOf(req[r]) EXCEPT !.phase = "done", !.data = d]] /\ Calls[r] = CallOf(req[r])
  <2> DEFINE q == [req[r] EXCEPT !.pc = "done", !.data = d]
  <2>1. CallOf(q) = [CallOf(req[r]) EXCEPT !.phase = "done", !.data = d] BY <1>2, ReadCall
  <2>2. req' = [req EXCEPT ![r] = q] BY <1>4
  <2> HIDE DEF q
  <2> QED BY <2>1, <2>2, OneCall
<1>6. Calls[r].phase = "called" /\ Calls[r].op = "read" BY <1>1, <1>2, <1>5, CallFields
<1>7. Content' = Content /\ Stable' = Stable BY SameContent, SameStable DEF ReadStore
<1> QED BY <1>3, <1>5, <1>6, <1>7 DEF Device!Read, Device!Called, Calls

LEMMA WriteRefines == ASSUME IndInv, NEW r \in Requests, WriteStore(r) PROVE Device!Write(r)
<1>1. Ensured(req[r]) /\ req[r].op = "write" /\ req[r].pc = "ensure" BY DEF WriteStore, Ensured
<1>2. req[r] \in ReqType BY DEF IndInv, Typed
<1>3. req' = [req EXCEPT ![r] = [req[r] EXCEPT !.pc = "landed"]] BY DEF WriteStore
<1>4. Calls' = [Calls EXCEPT ![r] = [CallOf(req[r]) EXCEPT !.phase = "landed"]] /\ Calls[r] = CallOf(req[r])
  <2> DEFINE q == [req[r] EXCEPT !.pc = "landed"]
  <2>1. CallOf(q) = [CallOf(req[r]) EXCEPT !.phase = "landed"] BY <1>2, CallFields
  <2>2. req' = [req EXCEPT ![r] = q] BY <1>3
  <2> HIDE DEF q
  <2> QED BY <2>1, <2>2, OneCall
<1>5. Calls[r].phase = "called" /\ Calls[r].op = "write" /\ Calls[r].val = req[r].val
      /\ Device!Span(Calls[r]) = Span(req[r])
  BY <1>1, <1>2, <1>4, CallFields
<1>6. Stable' = Stable BY SameStable DEF WriteStore
<1>7. Content' = [x \in Sectors |-> IF x \in Span(req[r]) THEN req[r].val ELSE Content[x]]
  <2>1. \A x \in Span(req[r]) : bitmap[BlockOf(x)] BY <1>1, CoveredCached
  <2> QED BY <2>1 DEF Content, WriteStore
<1> QED BY <1>4, <1>5, <1>6, <1>7 DEF Device!Write, Device!Called, Device!Sectors, Sectors, Calls

LEMMA SettleRefines ==
  ASSUME IndInv, NEW r \in Requests
  PROVE  /\ WriteDone(r) => Device!Answer(r)
         /\ RequestFail(r) => Device!Fail(r)
         /\ Return(r) => Device!Return(r)
<1>0. req[r] \in ReqType BY DEF IndInv, Typed
<1>1. ASSUME WriteDone(r) PROVE Device!Answer(r)
  <2>1. req' = [req EXCEPT ![r] = [req[r] EXCEPT !.pc = "done"]] BY <1>1 DEF WriteDone
  <2>2. Calls' = [Calls EXCEPT ![r] = [CallOf(req[r]) EXCEPT !.phase = "done"]] /\ Calls[r] = CallOf(req[r])
    <3> DEFINE q == [req[r] EXCEPT !.pc = "done"]
    <3>1. CallOf(q) = [CallOf(req[r]) EXCEPT !.phase = "done"] BY <1>0, CallFields
    <3>2. req' = [req EXCEPT ![r] = q] BY <2>1
    <3> HIDE DEF q
    <3> QED BY <3>1, <3>2, OneCall
  <2>3. Calls[r].phase = "landed" BY <1>0, <1>1, <2>2, CallFields DEF WriteDone
  <2>4. Content' = Content /\ Stable' = Stable BY <1>1, SameContent, SameStable DEF WriteDone
  <2> QED BY <2>2, <2>3, <2>4 DEF Device!Answer, Calls
<1>2. ASSUME RequestFail(r) PROVE Device!Fail(r)
  <2>1. req' = [req EXCEPT ![r] = [req[r] EXCEPT !.pc = "failed"]] BY <1>2 DEF RequestFail
  <2>2. Calls' = [Calls EXCEPT ![r] = [CallOf(req[r]) EXCEPT !.phase = "failed"]] /\ Calls[r] = CallOf(req[r])
    <3> DEFINE q == [req[r] EXCEPT !.pc = "failed"]
    <3>1. CallOf(q) = [CallOf(req[r]) EXCEPT !.phase = "failed"] BY <1>0, CallFields
    <3>2. req' = [req EXCEPT ![r] = q] BY <2>1
    <3> HIDE DEF q
    <3> QED BY <3>1, <3>2, OneCall
  <2>3. Calls[r].phase \in {"called", "landed"} BY <1>0, <1>2, <2>2, CallFields DEF RequestFail, Ensured
  <2>4. Content' = Content /\ Stable' = Stable BY <1>2, SameContent, SameStable DEF RequestFail
  <2> QED BY <2>2, <2>3, <2>4 DEF Device!Fail, Calls
<1>3. ASSUME Return(r) PROVE Device!Return(r)
  <2>1. req' = [req EXCEPT ![r] = NoRequest] BY <1>3 DEF Return
  <2>2. CallOf(NoRequest) = Device!Idle BY DEF CallOf, NoRequest, Device!Idle
  <2>3. Calls' = [Calls EXCEPT ![r] = Device!Idle] /\ Calls[r] = CallOf(req[r]) BY <2>1, <2>2, OneCall
  <2>4. Calls[r].phase \in {"done", "failed"} BY <1>0, <1>3, <2>3, CallFields DEF Return
  <2>5. Content' = Content /\ Stable' = Stable BY <1>3, SameContent, SameStable DEF Return
  <2> QED BY <2>3, <2>4, <2>5 DEF Device!Return, Calls
<1> QED BY <1>1, <1>2, <1>3

(* A new request is a new call.  The two records are compared one field at
   a time.                                                                 *)
LEMMA CallRefines ==
  ASSUME IndInv, NEW r \in Requests, NEW op \in {"read", "write"}, NEW span \in Spans, NEW v \in Values,
         Call(r, op, span, v)
  PROVE  Device!Invoke(r, op, span[1], span[2], v)
<1> DEFINE a == span[1]
           z == span[2]
           at == BlockOf(span[1])
           q == [NoRequest EXCEPT !.op = op, !.first = a, !.last = z, !.val = v, !.at = at, !.pc = "ensure"]
           c == [Device!Idle EXCEPT !.op = op, !.first = a, !.last = z, !.val = v, !.phase = "called"]
<1>0. req[r] \in ReqType BY DEF IndInv, Typed
<1>1. req' = [req EXCEPT ![r] = q] /\ req[r].pc = "idle" BY DEF Call
<1>2. CallOf(q) = c
  <2> HIDE DEF a, z, at
  <2> DEFINE rec(o, f, l, w, p) == [op |-> o, first |-> f, last |-> l, val |-> w, phase |-> p, data |-> NoRequest.data]
  <2>1. q.op = op /\ q.first = a /\ q.last = z /\ q.val = v /\ q.pc = "ensure" /\ q.data = NoRequest.data
    BY DEF NoRequest
  <2> HIDE DEF q
  <2>2. CallOf(q) = rec(op, a, z, v, "called") BY <2>1 DEF CallOf
  <2>3. Device!Idle = rec("none", 0, 0, Zero, "idle") BY DEF Device!Idle, NoRequest
  <2>4. [rec("none", 0, 0, Zero, "idle") EXCEPT !.op = op] = rec(op, 0, 0, Zero, "idle") OBVIOUS
  <2>5. [rec(op, 0, 0, Zero, "idle") EXCEPT !.first = a] = rec(op, a, 0, Zero, "idle") OBVIOUS
  <2>6. [rec(op, a, 0, Zero, "idle") EXCEPT !.last = z] = rec(op, a, z, Zero, "idle") OBVIOUS
  <2>7. [rec(op, a, z, Zero, "idle") EXCEPT !.val = v] = rec(op, a, z, v, "idle") OBVIOUS
  <2>8. [rec(op, a, z, v, "idle") EXCEPT !.phase = "called"] = rec(op, a, z, v, "called") OBVIOUS
  <2> HIDE DEF rec
  <2>9. [Device!Idle EXCEPT !.op = op] = rec(op, 0, 0, Zero, "idle") BY <2>3, <2>4
  <2>10. [Device!Idle EXCEPT !.op = op, !.first = a] = rec(op, a, 0, Zero, "idle") BY <2>5, <2>9
  <2>11. [Device!Idle EXCEPT !.op = op, !.first = a, !.last = z] = rec(op, a, z, Zero, "idle") BY <2>6, <2>10
  <2>12. [Device!Idle EXCEPT !.op = op, !.first = a, !.last = z, !.val = v] = rec(op, a, z, v, "idle")
    BY <2>7, <2>11
  <2>13. c = rec(op, a, z, v, "called") BY <2>8, <2>12
  <2> QED BY <2>2, <2>13
<1> HIDE DEF q, c
<1>3. Calls' = [Calls EXCEPT ![r] = c] /\ Calls[r] = CallOf(req[r]) BY <1>1, <1>2, OneCall
<1>4. Calls[r].phase = "idle" BY <1>0, <1>1, <1>3, CallFields
<1>5. Content' = Content /\ Stable' = Stable BY SameContent, SameStable DEF Call
<1> QED BY <1>3, <1>4, <1>5 DEF Device!Invoke, Calls, c

(* What SkipCached, EnsureBlock and HydrateNext do is not seen. *)
LEMMA MarkUnseen ==
  ASSUME IndInv, UNCHANGED store, NEW b \in Holes,
         \A c \in Blocks : bitmap'[c] = (bitmap[c] \/ c = b)
  PROVE  Content' = Content
BY BlockOfType DEF Content

LEMMA SkipCachedRefines == ASSUME IndInv, NEW r \in Requests, SkipCached(r) PROVE UNCHANGED Device!vars
<1>1. Active(req[r]) /\ req[r].pc = "ensure" /\ req[r].at <= LastBlock(req[r])
  BY DEF SkipCached, Ensuring, Active
<1>2. req[r] \in ReqType /\ req[r].at + 1 \in 0 .. BlockCount BY <1>1, Covered
<1> DEFINE q == [req[r] EXCEPT !.at = req[r].at + 1]
<1>3. CallOf(q) = CallOf(req[r]) BY <1>1, <1>2, CallFields
<1>4. req' = [req EXCEPT ![r] = q] BY DEF SkipCached
<1> HIDE DEF q
<1>5. Calls' = Calls BY <1>3, <1>4, OneCall DEF Calls
<1> QED BY <1>5, SameContent, SameStable, Stutter DEF SkipCached

LEMMA EnsureBlockRefines == ASSUME IndInv, NEW r \in Requests, EnsureBlock(r) PROVE UNCHANGED Device!vars
<1> DEFINE b == req[r].at
<1>1. Active(req[r]) /\ req[r].pc = "ensure" /\ b <= LastBlock(req[r])
  BY DEF EnsureBlock, Ensuring, Active
<1>2. req[r] \in ReqType /\ b \in Blocks /\ b + 1 \in 0 .. BlockCount BY <1>1, Covered
<1>3. StartFetch(b) /\ UNCHANGED <<store, saved>> BY DEF EnsureBlock
<1> DEFINE q == IF b \in Holes THEN [req[r] EXCEPT !.at = b + 1] ELSE [req[r] EXCEPT !.pc = "wait"]
<1>4. CallOf(q) = CallOf(req[r]) BY <1>1, <1>2, CallFields
<1>5. req' = [req EXCEPT ![r] = q] BY DEF EnsureBlock
<1>6. Content' = Content
  <2>1. CASE b \in Holes
    <3>1. SetCached(b) BY <1>3, <2>1 DEF StartFetch
    <3>2. \A c \in Blocks : bitmap'[c] = (bitmap[c] \/ c = b) BY <1>2, <3>1, OneMoreCached
    <3> QED BY <1>3, <2>1, <3>2, MarkUnseen
  <2>2. CASE b \notin Holes BY <1>3, <2>2, SameContent DEF StartFetch
  <2> QED BY <2>1, <2>2
<1> HIDE DEF q, b
<1>7. Calls' = Calls BY <1>4, <1>5, OneCall DEF Calls
<1> QED BY <1>3, <1>6, <1>7, SameStable, Stutter

LEMMA HydrateNextRefines == ASSUME IndInv, HydrateNext PROVE UNCHANGED Device!vars
<1> DEFINE b == hydration.next
<1>1. hydration \in HydrationType /\ b < BlockCount /\ UNCHANGED <<store, saved, req>>
  BY DEF HydrateNext, IndInv, Typed
<1>2. b \in Blocks BY <1>1, BlockOfType DEF HydrationType, Blocks
<1>3. Content' = Content
  <2>1. CASE ~bitmap[b] /\ b \in Holes
    <3>1. SetCached(b) BY <2>1 DEF StartFetch, HydrateNext
    <3>2. \A c \in Blocks : bitmap'[c] = (bitmap[c] \/ c = b) BY <1>2, <3>1, OneMoreCached
    <3> QED BY <1>1, <2>1, <3>2, MarkUnseen
  <2>2. CASE bitmap[b] \/ b \notin Holes BY <1>1, <2>2, SameContent DEF StartFetch, HydrateNext
  <2> QED BY <2>1, <2>2
<1> QED BY <1>1, <1>3, SameStable, SameCalls, Stutter

(* A fetch that lands is not seen, nor is the block when it is marked. *)
LEMMA FetchLandRefines == ASSUME IndInv, NEW b \in Blocks, FetchLand(b) PROVE UNCHANGED Device!vars
<1>1. ~bitmap[b] /\ b \notin Holes BY DEF FetchLand, IndInv, FetchSound
<1>2. \A x \in Sectors : store'[x] = IF BlockOf(x) = b THEN Source[x] ELSE store[x]
  BY DEF FetchLand, SectorsOf
<1>3. Content' = Content BY <1>1, <1>2 DEF Content, FetchLand
<1> QED BY <1>3, SameStable, SameCalls, Stutter DEF FetchLand

LEMMA FetchDoneRefines == ASSUME IndInv, NEW b \in Blocks, FetchDone(b) PROVE UNCHANGED Device!vars
<1>1. inFlight[b] = "landed" /\ SetCached(b) /\ UNCHANGED <<store, saved>> BY DEF FetchDone
<1>2. \A c \in Blocks : bitmap'[c] = (bitmap[c] \/ c = b) BY <1>1, OneMoreCached
<1>3. \A x \in Sectors : BlockOf(x) = b => store[x] = Source[x] BY <1>1 DEF IndInv, LandedSound
<1>4. Content' = Content BY <1>1, <1>2, <1>3, BlockOfType DEF Content
<1>5. ASSUME NEW r \in Requests PROVE CallOf(req'[r]) = CallOf(req[r])
  <2>0. req[r] \in ReqType /\ b + 1 \in 0 .. BlockCount BY BlockOfType DEF IndInv, Typed, Blocks
  <2>1. CASE r \in Waiters(b)
    <3>1. req'[r] = [req[r] EXCEPT !.pc = "ensure", !.at = b + 1] /\ req[r].pc = "wait"
      BY <2>1 DEF FetchDone, Waiters
    <3>2. CallOf([req[r] EXCEPT !.pc = "ensure", !.at = b + 1]) = CallOf(req[r]) BY <2>0, <3>1, CallFields
    <3> QED BY <3>1, <3>2
  <2>2. CASE r \notin Waiters(b) BY <2>2 DEF FetchDone
  <2> QED BY <2>1, <2>2
<1>6. Calls' = Calls BY <1>5 DEF Calls
<1> QED BY <1>1, <1>4, <1>6, SameStable, Stutter

LEMMA FetchFailRefines ==
  ASSUME IndInv, NEW b \in Blocks, FetchFail(b)
  PROVE  \E R \in SUBSET Requests : Device!FailAll(R)
<1>1. req' = [r \in Requests |-> IF r \in Waiters(b) THEN [req[r] EXCEPT !.pc = "failed"] ELSE req[r]]
  BY DEF FetchFail
<1>2. Content' = Content /\ Stable' = Stable BY SameContent, SameStable DEF FetchFail
<1>3. ASSUME NEW r \in Requests
      PROVE  /\ r \in Waiters(b) => Calls[r].phase = "called"
             /\ CallOf(req'[r]) = IF r \in Waiters(b) THEN [Calls[r] EXCEPT !.phase = "failed"] ELSE Calls[r]
  <2>0. req[r] \in ReqType /\ Calls[r] = CallOf(req[r]) BY DEF IndInv, Typed, Calls
  <2>1. CASE r \in Waiters(b)
    <3>1. req'[r] = [req[r] EXCEPT !.pc = "failed"] /\ req[r].pc = "wait" BY <1>1, <2>1 DEF Waiters
    <3>2. /\ CallOf([req[r] EXCEPT !.pc = "failed"]) = [CallOf(req[r]) EXCEPT !.phase = "failed"]
          /\ CallOf(req[r]).phase = "called"
      BY <2>0, <3>1, CallFields
    <3> QED BY <2>0, <2>1, <3>1, <3>2
  <2>2. CASE r \notin Waiters(b) BY <1>1, <2>0, <2>2
  <2> QED BY <2>1, <2>2
<1>4. Calls' = [r \in Requests |-> IF r \in Waiters(b) THEN [Calls[r] EXCEPT !.phase = "failed"] ELSE Calls[r]]
  BY <1>3 DEF Calls
<1>5. \A r \in Waiters(b) : Calls[r].phase = "called" BY <1>3 DEF Waiters
<1>6. Waiters(b) \in SUBSET Requests BY DEF Waiters
<1>7. Device!FailAll(Waiters(b)) BY <1>2, <1>4, <1>5 DEF Device!FailAll, Device!Called, Calls
<1> QED BY <1>6, <1>7

LEMMA LifeRefines ==
  ASSUME IndInv
  PROVE  /\ \A b \in Blocks : SaveByte(b) => Device!Stabilise
         /\ Crash => Device!Crash
         /\ OpenResumed => Device!Reopen
         /\ OpenCold => Device!Discard
<1> USE DEF Device!Sectors, Sectors
<1>1. ASSUME NEW b \in Blocks, SaveByte(b) PROVE Device!Stabilise
  <2>1. Content' = Content /\ Calls' = Calls BY <1>1, SameContent, SameCalls DEF SaveByte
  <2>2. \A c \in Blocks : saved[c] => saved'[c] BY <1>1 DEF SaveByte, IndInv, Typed
  <2>3. Stable \subseteq Stable' /\ Stable' \in SUBSET Sectors BY <2>2, BlockOfType DEF Stable
  <2> QED BY <2>1, <2>3 DEF Device!Stabilise, Calls
<1>2. ASSUME Crash PROVE Device!Crash
  <2>1. Content' = Content /\ Stable' = Stable BY <1>2, SameContent, SameStable DEF Crash
  <2>2. CallOf(NoRequest) = Device!Idle BY DEF CallOf, NoRequest, Device!Idle
  <2>3. Calls' = [r \in Requests |-> Device!Idle] BY <1>2, <2>2 DEF Crash, Calls
  <2> QED BY <2>1, <2>3 DEF Device!Crash, Calls
<1>3. ASSUME OpenResumed PROVE Device!Reopen
  <2> DEFINE lost == {x \in Sectors : ~saved[BlockOf(x)] /\ BlockOf(x) \notin Holes}
  <2>1. Stable' = Stable /\ Calls' = Calls BY <1>3, SameStable, SameCalls DEF OpenResumed
  <2>2. lost \in SUBSET (Sectors \ Stable) BY DEF Stable
  <2>3. \A x \in Sectors : saved[BlockOf(x)] => bitmap[BlockOf(x)] BY BlockOfType DEF IndInv, SavedSound
  <2>4. Content' = Device!Revert(lost) BY <1>3, <2>3 DEF Content, Device!Revert, OpenResumed
  <2> HIDE DEF lost
  <2> QED BY <2>1, <2>2, <2>4 DEF Device!Reopen, Calls
<1>4. ASSUME OpenCold PROVE Device!Discard
  <2> DEFINE lost == {x \in Sectors : BlockOf(x) \notin Holes}
  <2>1. Calls' = Calls BY <1>4, SameCalls DEF OpenCold
  <2>2. Stable' \in SUBSET Stable BY <1>4, BlockOfType DEF OpenCold, Stable
  <2>3. lost \in SUBSET Sectors OBVIOUS
  <2>4. Content' = Device!Revert(lost) BY <1>4, BlockOfType DEF Content, Device!Revert, OpenCold
  <2> HIDE DEF lost
  <2> QED BY <2>1, <2>2, <2>3, <2>4 DEF Device!Discard, Calls
<1> QED BY <1>1, <1>2, <1>3, <1>4

(* Every step is a step of the abstract device, or is not seen. *)
LEMMA NextRefines == IndInv /\ [Next]_vars => [Device!Next]_(Device!vars)
<1> SUFFICES ASSUME IndInv, [Next]_vars PROVE Device!Next \/ UNCHANGED Device!vars OBVIOUS
<1>1. ASSUME NEW b \in Blocks, FetchRead(b) PROVE UNCHANGED Device!vars
  BY <1>1, SameContent, SameStable, SameCalls, Stutter DEF FetchRead
<1>2. ASSUME NEW b \in Blocks, FetchLand(b) PROVE UNCHANGED Device!vars BY <1>2, FetchLandRefines
<1>3. ASSUME NEW b \in Blocks, FetchDone(b) PROVE UNCHANGED Device!vars BY <1>3, FetchDoneRefines
<1>4. ASSUME NEW b \in Blocks, FetchFail(b) PROVE Device!Next BY <1>4, FetchFailRefines DEF Device!Next
<1>5. ASSUME NEW b \in Blocks, SaveByte(b) PROVE Device!Next BY <1>5, LifeRefines DEF Device!Next
<1>6. ASSUME NEW r \in Requests, NEW span \in Spans,
             Call(r, "read", span, Zero) \/ \E v \in Payloads : Call(r, "write", span, v)
      PROVE  Device!Next
  <2>1. PICK op \in {"read", "write"}, v \in Values : Call(r, op, span, v)
    BY <1>6, SourceAssumption, RequestsAssumption
  <2>2. Device!Invoke(r, op, span[1], span[2], v) BY <2>1, CallRefines
  <2> QED BY <2>2 DEF Device!Next
<1>7. ASSUME NEW r \in Requests, SkipCached(r) PROVE UNCHANGED Device!vars BY <1>7, SkipCachedRefines
<1>8. ASSUME NEW r \in Requests, EnsureBlock(r) PROVE UNCHANGED Device!vars BY <1>8, EnsureBlockRefines
<1>9. ASSUME NEW r \in Requests, ReadStore(r) PROVE Device!Next BY <1>9, ReadRefines DEF Device!Next
<1>10. ASSUME NEW r \in Requests, WriteStore(r) PROVE Device!Next BY <1>10, WriteRefines DEF Device!Next
<1>11. ASSUME NEW r \in Requests, WriteDone(r) \/ RequestFail(r) \/ Return(r) PROVE Device!Next
  BY <1>11, SettleRefines DEF Device!Next
<1>12. CASE Hydrate \/ HydrateDone \/ HydrateAbort \/ Close \/ UNCHANGED vars
  <2>1. UNCHANGED <<store, bitmap, saved, req>>
    BY <1>12 DEF Hydrate, HydrateDone, HydrateAbort, Close, vars
  <2> QED BY <2>1, SameContent, SameStable, SameCalls, Stutter
<1>13. CASE HydrateNext BY <1>13, HydrateNextRefines
<1>14. CASE Crash \/ OpenResumed \/ OpenCold BY <1>14, LifeRefines DEF Device!Next
<1> QED
  BY <1>1, <1>2, <1>3, <1>4, <1>5, <1>6, <1>7, <1>8, <1>9, <1>10, <1>11, <1>12, <1>13, <1>14 DEF Next

(* ImplementsBlockDevice: whatever is fetched, hydrated, closed, lost with
   the process and resumed, a request that is answered took effect at one
   moment, and only blocks whose byte was not saved can be lost.           *)
THEOREM Refinement == Spec => ImplementsBlockDevice
<1>1. Init => Device!Init BY InitRefines
<1>2. IndInv /\ [Next]_vars => [Device!Next]_(Device!vars) BY NextRefines
<1> QED BY <1>1, <1>2, Invariant, PTL DEF Spec, ImplementsBlockDevice

=============================================================================
