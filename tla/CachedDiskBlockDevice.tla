------------------------ MODULE CachedDiskBlockDevice ------------------------
(***************************************************************************)
(* The read-write LUN of a live mount (@vates/iscsi/src/                   *)
(* CachedDiskBlockDevice.mts): the blocks of a read-only source disk are   *)
(* copied into a local store the first time a request needs them, a bitmap *)
(* tells which blocks the store has, and writes go to the store only.      *)
(*                                                                         *)
(* What makes it hard: a request awaits the fetch of each block it covers, *)
(* fetches are shared by every request and by the hydration, a fetch can   *)
(* land late, fail or be abandoned, and a bitmap that was saved byte by    *)
(* byte can be resumed from after the process died.                        *)
(*                                                                         *)
(* Sizes are counted in sectors (the LUN block size).  Requests of length  *)
(* 0 and requests out of range return at once and change nothing.          *)
(***************************************************************************)
EXTENDS Integers, FiniteSets

CONSTANTS Size,                \* virtual size of the disk
          DiskBlockSize,       \* size of a block of the source
          Holes,               \* blocks the source does not have
          Values, Zero,        \* contents of a sector
          Payloads,            \* what the initiator writes
          Source,              \* contents of the source
          Requests,            \* requests of the initiator
          Spans,               \* <<first, last>> sectors a request may cover
          HydrateConcurrency   \* blocks hydrate() asks for at a time

Sectors == 0 .. Size - 1
BlockCount == (Size + DiskBlockSize - 1) \div DiskBlockSize
Blocks == 0 .. BlockCount - 1
BlockOf(s) == s \div DiskBlockSize

ASSUME SizeAssumption == Size \in Nat \ {0} /\ DiskBlockSize \in Nat \ {0}
ASSUME SourceAssumption ==
  /\ Zero \in Values
  /\ Source \in [Sectors -> Values]
  /\ Holes \subseteq Blocks
  /\ \A s \in Sectors : BlockOf(s) \in Holes => Source[s] = Zero
ASSUME RequestsAssumption ==
  /\ Payloads \subseteq Values
  /\ \A p \in Spans : p[1] \in Sectors /\ p[2] \in Sectors /\ p[1] <= p[2]
ASSUME ConcurrencyAssumption == HydrateConcurrency \in Nat \ {0}

VARIABLES
  open,         \* whether I/O on the store and on the source succeeds
  store,        \* contents of the store (the cache device)
  bitmap,       \* #bitmap
  cachedCount,  \* #cachedCount
  inFlight,     \* #inFlight, with how far each fetch is
  saved,        \* the bitmap the caller saves byte by byte (external)
  req,          \* the outstanding requests, and where each one is
  hydration     \* the asyncEach() of hydrate()

vars == <<open, store, bitmap, cachedCount, inFlight, saved, req, hydration>>

NoRequest == [op |-> "none", first |-> 0, last |-> 0, val |-> Zero, at |-> 0, pc |-> "idle", data |-> <<>>]
NoHydration == [pc |-> "idle", next |-> 0, running |-> 0, waiting |-> {}]

(***************************************************************************)
(* The source block of sector s, and the sectors a request covers.  The    *)
(* last block is clamped to the size of the disk: it has fewer sectors.    *)
(***************************************************************************)
SectorsOf(b) == {s \in Sectors : BlockOf(s) = b}
Span(q) == q.first .. q.last
LastBlock(q) == BlockOf(q.last)

(* Request q has to ensure the block q.at, or has ensured all of them. *)
Ensuring(q) == q.pc = "ensure" /\ q.at <= LastBlock(q)
Ensured(q) == q.pc = "ensure" /\ q.at > LastBlock(q)

Init ==
  /\ open = TRUE
  /\ store = [s \in Sectors |-> Zero]
  /\ bitmap = [b \in Blocks |-> FALSE]
  /\ cachedCount = 0
  /\ inFlight = [b \in Blocks |-> "none"]
  /\ saved = [b \in Blocks |-> FALSE]
  /\ req = [r \in Requests |-> NoRequest]
  /\ hydration = NoHydration

-----------------------------------------------------------------------------
(***************************************************************************)
(* #ensureBlock() and #fetchBlock().                                       *)
(***************************************************************************)

(* #setCached(): onBlockCached() then lets the caller save the byte. *)
SetCached(b) ==
  /\ bitmap' = [bitmap EXCEPT ![b] = TRUE]
  /\ cachedCount' = IF bitmap[b] THEN cachedCount ELSE cachedCount + 1

(* What calling #ensureBlock() does at once: a block the source does not
   have is marked without being written, any other one is fetched unless a
   fetch is in flight.                                                     *)
StartFetch(b) ==
  IF b \in Holes
  THEN SetCached(b) /\ UNCHANGED inFlight
  ELSE /\ inFlight' = [inFlight EXCEPT ![b] = IF @ = "none" THEN "reading" ELSE @]
       /\ UNCHANGED <<bitmap, cachedCount>>

(* disk.readBlock() resolved, cache.write() is called. *)
FetchRead(b) ==
  /\ open /\ inFlight[b] = "reading"
  /\ inFlight' = [inFlight EXCEPT ![b] = "writing"]
  /\ UNCHANGED <<open, store, bitmap, cachedCount, saved, req, hydration>>

(* The block lands in the store, clamped to the size of the disk. *)
FetchLand(b) ==
  /\ open /\ inFlight[b] = "writing"
  /\ store' = [s \in Sectors |-> IF s \in SectorsOf(b) THEN Source[s] ELSE store[s]]
  /\ inFlight' = [inFlight EXCEPT ![b] = "landed"]
  /\ UNCHANGED <<open, bitmap, cachedCount, saved, req, hydration>>

(* Everyone who awaits the fetch of b: requests, and hydrate(). *)
Waiters(b) == {r \in Requests : req[r].pc = "wait" /\ req[r].at = b}

(* onFulfilled: the slot is free again, unless asyncEach() has settled. *)
HydrationSettles(b) ==
  IF b \in hydration.waiting
  THEN [hydration EXCEPT !.waiting = @ \ {b},
                         !.running = IF hydration.pc = "running" THEN @ - 1 ELSE @]
  ELSE hydration

FetchDone(b) ==
  /\ inFlight[b] = "landed"
  /\ SetCached(b)
  /\ inFlight' = [inFlight EXCEPT ![b] = "none"]
  /\ req' = [r \in Requests |-> IF r \in Waiters(b)
                                THEN [req[r] EXCEPT !.pc = "ensure", !.at = b + 1]
                                ELSE req[r]]
  /\ hydration' = HydrationSettles(b)
  /\ UNCHANGED <<open, store, saved>>

(* Mutant: a failed fetch is forgotten and nobody is told. *)
FetchFailSilent(b) ==
  /\ inFlight[b] # "none"
  /\ inFlight' = [inFlight EXCEPT ![b] = "none"]
  /\ UNCHANGED <<open, store, bitmap, cachedCount, saved, req, hydration>>

(* The fetch fails, before or after it landed: it is forgotten, so that the
   block can be fetched again, and everyone who awaits it fails with it.   *)
FetchFail(b) ==
  /\ inFlight[b] # "none"
  /\ inFlight' = [inFlight EXCEPT ![b] = "none"]
  /\ req' = [r \in Requests |-> IF r \in Waiters(b) THEN [req[r] EXCEPT !.pc = "failed"] ELSE req[r]]
  /\ hydration' = IF b \in hydration.waiting
                  THEN [hydration EXCEPT !.waiting = @ \ {b},
                                         !.pc = IF @ = "running" THEN "rejected" ELSE @]
                  ELSE hydration
  /\ UNCHANGED <<open, store, bitmap, cachedCount, saved>>

-----------------------------------------------------------------------------
(***************************************************************************)
(* read() and write().                                                     *)
(***************************************************************************)

Call(r, op, span, v) ==
  /\ open /\ req[r].pc = "idle"
  /\ req' = [req EXCEPT ![r] = [NoRequest EXCEPT !.op = op, !.first = span[1], !.last = span[2],
                                                 !.val = v, !.at = BlockOf(span[1]), !.pc = "ensure"]]
  /\ UNCHANGED <<open, store, bitmap, cachedCount, inFlight, saved, hydration>>

(* Mutant: a block the write covers entirely is not materialised. *)
SkipCovered(r) ==
  /\ Ensuring(req[r])
  /\ bitmap[req[r].at] \/ (req[r].op = "write" /\ SectorsOf(req[r].at) \subseteq Span(req[r]))
  /\ req' = [req EXCEPT ![r].at = @ + 1]
  /\ UNCHANGED <<open, store, bitmap, cachedCount, inFlight, saved, hydration>>

(* One turn of the loop over the covered blocks: the block is there. *)
SkipCached(r) ==
  /\ Ensuring(req[r]) /\ bitmap[req[r].at]
  /\ req' = [req EXCEPT ![r].at = @ + 1]
  /\ UNCHANGED <<open, store, bitmap, cachedCount, inFlight, saved, hydration>>

(* One turn of the loop: the block has to be fetched. *)
EnsureBlock(r) ==
  LET b == req[r].at IN
  /\ Ensuring(req[r]) /\ ~bitmap[b]
  /\ StartFetch(b)
  /\ req' = [req EXCEPT ![r] = IF b \in Holes THEN [@ EXCEPT !.at = b + 1] ELSE [@ EXCEPT !.pc = "wait"]]
  /\ UNCHANGED <<open, store, saved, hydration>>

(* cache.read() of a read().  A write() drops what it reads. *)
ReadStore(r) ==
  /\ open /\ Ensured(req[r]) /\ req[r].op = "read"
  /\ req' = [req EXCEPT ![r].pc = "done", ![r].data = [s \in Span(req[r]) |-> store[s]]]
  /\ UNCHANGED <<open, store, bitmap, cachedCount, inFlight, saved, hydration>>

(* cache.write() of a write(): it lands, and later it is acknowledged. *)
WriteStore(r) ==
  /\ open /\ Ensured(req[r]) /\ req[r].op = "write"
  /\ store' = [s \in Sectors |-> IF s \in Span(req[r]) THEN req[r].val ELSE store[s]]
  /\ req' = [req EXCEPT ![r].pc = "landed"]
  /\ UNCHANGED <<open, bitmap, cachedCount, inFlight, saved, hydration>>

WriteDone(r) ==
  /\ req[r].pc = "landed"
  /\ req' = [req EXCEPT ![r].pc = "done"]
  /\ UNCHANGED <<open, store, bitmap, cachedCount, inFlight, saved, hydration>>

(* The store fails, before or after a write landed. *)
RequestFail(r) ==
  /\ Ensured(req[r]) \/ req[r].pc = "landed"
  /\ req' = [req EXCEPT ![r].pc = "failed"]
  /\ UNCHANGED <<open, store, bitmap, cachedCount, inFlight, saved, hydration>>

(* The target hands the outcome over to the initiator. *)
Return(r) ==
  /\ req[r].pc \in {"done", "failed"}
  /\ req' = [req EXCEPT ![r] = NoRequest]
  /\ UNCHANGED <<open, store, bitmap, cachedCount, inFlight, saved, hydration>>

-----------------------------------------------------------------------------
(***************************************************************************)
(* hydrate(): asyncEach() over every block, at most HydrateConcurrency at  *)
(* a time.  running is asyncEach's own counter: it is only decremented     *)
(* until the promise of asyncEach() is settled, so that a loop that is     *)
(* still filling its slots goes on until they are all taken.               *)
(***************************************************************************)

(* One hydration at a time: the loop of the previous one is over. *)
Hydrate ==
  /\ open /\ hydration.pc # "running" /\ hydration.waiting = {}
  /\ hydration.pc # "idle" => hydration.next = BlockCount \/ hydration.running = HydrateConcurrency
  /\ hydration' = [NoHydration EXCEPT !.pc = "running"]
  /\ UNCHANGED <<open, store, bitmap, cachedCount, inFlight, saved, req>>

(* Mutant: the slots of hydrate() are not counted. *)
HydrateNextUnbounded ==
  LET b == hydration.next IN
  /\ hydration.pc # "idle" /\ b < BlockCount
  /\ IF bitmap[b] THEN UNCHANGED <<bitmap, cachedCount, inFlight>> ELSE StartFetch(b)
  /\ hydration' = [hydration EXCEPT !.next = b + 1, !.running = @ + 1]
  /\ UNCHANGED <<open, store, saved, req>>

HydrateNext ==
  LET b == hydration.next IN
  /\ hydration.pc # "idle" /\ b < BlockCount /\ hydration.running < HydrateConcurrency
  /\ IF bitmap[b] THEN UNCHANGED <<bitmap, cachedCount, inFlight>> ELSE StartFetch(b)
  /\ hydration' =
       IF bitmap[b] \/ b \in Holes
       THEN [hydration EXCEPT !.next = b + 1,
                              !.running = IF hydration.pc = "running" THEN @ ELSE @ + 1]
       ELSE [hydration EXCEPT !.next = b + 1, !.running = @ + 1, !.waiting = @ \cup {b}]
  /\ UNCHANGED <<open, store, saved, req>>

(* Mutant: hydrate() resolves once every block has been asked for. *)
HydrateDoneEarly ==
  /\ hydration.pc = "running" /\ hydration.next = BlockCount
  /\ hydration' = [hydration EXCEPT !.pc = "done"]
  /\ UNCHANGED <<open, store, bitmap, cachedCount, inFlight, saved, req>>

HydrateDone ==
  /\ hydration.pc = "running" /\ hydration.next = BlockCount /\ hydration.running = 0
  /\ hydration' = [hydration EXCEPT !.pc = "done"]
  /\ UNCHANGED <<open, store, bitmap, cachedCount, inFlight, saved, req>>

(* The signal is aborted: asyncEach() rejects at once. *)
HydrateAbort ==
  /\ hydration.pc = "running"
  /\ hydration' = [hydration EXCEPT !.pc = "rejected"]
  /\ UNCHANGED <<open, store, bitmap, cachedCount, inFlight, saved, req>>

-----------------------------------------------------------------------------
(***************************************************************************)
(* The life of the device.  What the caller of onBlockCached() does is     *)
(* external: it saves one byte, some time later.                           *)
(***************************************************************************)

SaveByte(b) ==
  /\ open /\ bitmap[b] /\ ~saved[b]
  /\ saved' = [saved EXCEPT ![b] = TRUE]
  /\ UNCHANGED <<open, store, bitmap, cachedCount, inFlight, req, hydration>>

(* close(): what is in flight can only fail. *)
Close ==
  /\ open
  /\ open' = FALSE
  /\ UNCHANGED <<store, bitmap, cachedCount, inFlight, saved, req, hydration>>

(* The process dies, at any moment. *)
Crash ==
  /\ open' = FALSE
  /\ inFlight' = [b \in Blocks |-> "none"]
  /\ req' = [r \in Requests |-> NoRequest]
  /\ hydration' = NoHydration
  /\ UNCHANGED <<store, bitmap, cachedCount, saved>>

Quiet == /\ \A b \in Blocks : inFlight[b] = "none"
         /\ \A r \in Requests : req[r].pc = "idle"
         /\ hydration.pc # "running" /\ hydration.waiting = {}

(* open() of a new device over the same store, resuming from the saved
   bitmap.                                                                 *)
OpenResumed ==
  /\ ~open /\ Quiet
  /\ open' = TRUE
  /\ bitmap' = saved
  /\ cachedCount' = Cardinality({b \in Blocks : saved[b]})
  /\ hydration' = NoHydration
  /\ UNCHANGED <<store, inFlight, saved, req>>

(* open() with a saved bitmap of the wrong length: it is discarded. *)
OpenCold ==
  /\ ~open /\ Quiet
  /\ open' = TRUE
  /\ bitmap' = [b \in Blocks |-> FALSE]
  /\ cachedCount' = 0
  /\ saved' = [b \in Blocks |-> FALSE]
  /\ hydration' = NoHydration
  /\ UNCHANGED <<store, inFlight, req>>

Next ==
  \/ \E b \in Blocks : FetchRead(b) \/ FetchLand(b) \/ FetchDone(b) \/ FetchFail(b) \/ SaveByte(b)
  \/ \E r \in Requests, span \in Spans :
        \/ Call(r, "read", span, Zero)
        \/ \E v \in Payloads : Call(r, "write", span, v)
  \/ \E r \in Requests : \/ SkipCached(r) \/ EnsureBlock(r) \/ ReadStore(r)
                         \/ WriteStore(r) \/ WriteDone(r) \/ RequestFail(r) \/ Return(r)
  \/ Hydrate \/ HydrateNext \/ HydrateDone \/ HydrateAbort
  \/ Close \/ Crash \/ OpenResumed \/ OpenCold

(***************************************************************************)
(* Fairness: the event loop runs what is ready, and the I/O of an open or  *)
(* of a closed device settles, well or not (the store and the source have  *)
(* their own timeouts).  Nothing makes a client call, hydrate or reopen.   *)
(***************************************************************************)
Fetch(b) == FetchRead(b) \/ FetchLand(b) \/ FetchDone(b) \/ FetchFail(b)
Step(r) == \/ SkipCached(r) \/ EnsureBlock(r)
           \/ ReadStore(r) \/ WriteStore(r) \/ WriteDone(r) \/ RequestFail(r)

Fairness == /\ \A b \in Blocks : WF_vars(Fetch(b))
            /\ \A r \in Requests : WF_vars(Step(r))
            /\ WF_vars(HydrateNext \/ HydrateDone)

Spec == Init /\ [][Next]_vars /\ Fairness

-----------------------------------------------------------------------------
(***************************************************************************)
(* Properties.                                                             *)
(***************************************************************************)

Phases == {"none", "reading", "writing", "landed"}
Steps == {"idle", "ensure", "wait", "landed", "done", "failed"}

(* Type invariant. *)
TypeOK ==
  /\ open \in BOOLEAN
  /\ store \in [Sectors -> Values]
  /\ bitmap \in [Blocks -> BOOLEAN] /\ saved \in [Blocks -> BOOLEAN]
  /\ inFlight \in [Blocks -> Phases]
  /\ \A r \in Requests :
       /\ req[r].op \in {"none", "read", "write"} /\ req[r].pc \in Steps
       /\ req[r].first \in Sectors /\ req[r].last \in Sectors /\ req[r].val \in Values
       /\ req[r].at \in 0 .. BlockCount
  /\ hydration.next \in 0 .. BlockCount /\ hydration.running \in 0 .. HydrateConcurrency
  /\ hydration.waiting \subseteq Blocks
  /\ hydration.pc \in {"idle", "running", "done", "rejected"}

(* What a client of the device sees: a block the store does not have is
   served from the source, and a hole is what the store holds.            *)
Content == [s \in Sectors |-> IF bitmap[BlockOf(s)] \/ BlockOf(s) \in Holes THEN store[s] ELSE Source[s]]
Stable == {s \in Sectors : saved[BlockOf(s)] \/ BlockOf(s) \in Holes}
CallOf(q) == [op |-> q.op, first |-> q.first, last |-> q.last, val |-> q.val, data |-> q.data,
              phase |-> IF q.pc \in {"ensure", "wait"} THEN "called" ELSE q.pc]

Device == INSTANCE BlockDevice
            WITH content <- Content, stable <- Stable, call <- [r \in Requests |-> CallOf(req[r])]

(* The cached device implements the block device: a fetch that lands late,
   fails, is shared or is started by hydrate() never shows through, no
   acknowledged write is reverted while the process lives, every read
   returns what the disk holds at one moment, and a resumed bitmap loses
   only blocks whose byte was not saved (write() materialises even the
   blocks it covers entirely, #setCached() comes after cache.write()).    *)
ImplementsBlockDevice == Device!Init /\ [][Device!Next]_(Device!vars)

(* Whoever awaits a block awaits a fetch that is still in flight, so that it
   is woken up: the entry of #inFlight goes away with its waiters.         *)
WaitersServed ==
  /\ \A r \in Requests : req[r].pc = "wait" => inFlight[req[r].at] # "none"
  /\ \A b \in hydration.waiting : inFlight[b] # "none"

(* A hydration that resolves has materialised every block, whoever fetched
   them, and the progress it reports (#cachedCount of #blockCount) says so. *)
HydratedMeansCached ==
  /\ hydration.pc = "done" => \A b \in Blocks : bitmap[b]
  /\ cachedCount = Cardinality({b \in Blocks : bitmap[b]})

(* Every request is answered and every hydration settles. *)
Answered ==
  /\ \A r \in Requests : req[r].pc # "idle" ~> req[r].pc \in {"done", "failed", "idle"}
  /\ hydration.pc = "running" ~> hydration.pc # "running"
=============================================================================
