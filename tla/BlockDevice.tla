----------------------------- MODULE BlockDevice -----------------------------
(***************************************************************************)
(* What a read-write block device promises to the iSCSI target that serves *)
(* it (the interface of @vates/iscsi/src/backend.mts): a request that is   *)
(* answered took effect at one moment between its call and its answer,     *)
(* reads return what the device holds at that moment, and a device that is *)
(* opened again holds what it held, but for sectors that were not stable.  *)
(*                                                                         *)
(* CachedDiskBlockDevice implements this specification.                    *)
(***************************************************************************)
EXTENDS Integers

CONSTANTS Size,      \* number of sectors of the device
          Values,    \* what a sector can hold
          Zero,      \* what a sector nobody wrote holds
          Source,    \* what the device holds at first
          Requests,  \* requests of the initiator that can be outstanding
          Spans      \* <<first, last>> sectors a request may cover

Sectors == 0 .. Size - 1
Span(c) == c.first .. c.last

(* No request is outstanding. *)
Idle == [op |-> "none", first |-> 0, last |-> 0, val |-> Zero, phase |-> "idle", data |-> <<>>]

VARIABLES content,  \* what a read of each sector returns
          stable,   \* the sectors that survive a restart
          call      \* the outstanding request of each client

vars == <<content, stable, call>>

Init == /\ content = Source
        /\ stable \in SUBSET Sectors
        /\ call = [r \in Requests |-> Idle]

Called(r) == call[r].phase = "called"

Invoke(r, op, first, last, v) ==
  /\ call[r].phase = "idle"
  /\ call' = [call EXCEPT ![r] = [Idle EXCEPT !.op = op, !.first = first, !.last = last,
                                              !.val = v, !.phase = "called"]]
  /\ UNCHANGED <<content, stable>>

(* The moment a read takes effect. *)
Read(r) ==
  /\ Called(r) /\ call[r].op = "read"
  /\ call' = [call EXCEPT ![r].phase = "done",
                          ![r].data = [s \in Span(call[r]) |-> content[s]]]
  /\ UNCHANGED <<content, stable>>

(* The moment a write takes effect, and its answer. *)
Write(r) ==
  /\ Called(r) /\ call[r].op = "write"
  /\ content' = [s \in Sectors |-> IF s \in Span(call[r]) THEN call[r].val ELSE content[s]]
  /\ call' = [call EXCEPT ![r].phase = "landed"]
  /\ UNCHANGED stable

Answer(r) ==
  /\ call[r].phase = "landed"
  /\ call' = [call EXCEPT ![r].phase = "done"]
  /\ UNCHANGED <<content, stable>>

(* A request may fail before or after it took effect. *)
Fail(r) ==
  /\ call[r].phase \in {"called", "landed"}
  /\ call' = [call EXCEPT ![r].phase = "failed"]
  /\ UNCHANGED <<content, stable>>

(* Several requests waiting for the same block fail together. *)
FailAll(R) ==
  /\ \A r \in R : Called(r)
  /\ call' = [r \in Requests |-> IF r \in R THEN [call[r] EXCEPT !.phase = "failed"] ELSE call[r]]
  /\ UNCHANGED <<content, stable>>

Return(r) ==
  /\ call[r].phase \in {"done", "failed"}
  /\ call' = [call EXCEPT ![r] = Idle]
  /\ UNCHANGED <<content, stable>>

Stabilise ==
  /\ stable' \in SUBSET Sectors /\ stable \subseteq stable'
  /\ UNCHANGED <<content, call>>

Revert(lost) == [s \in Sectors |-> IF s \in lost THEN Source[s] ELSE content[s]]

(* The process dies: the outstanding requests get no answer. *)
Crash ==
  /\ call' = [r \in Requests |-> Idle]
  /\ UNCHANGED <<content, stable>>

(* The device is opened again: only sectors that were not stable may be
   lost, and a lost sector holds what it held at first.                   *)
Reopen ==
  /\ \E lost \in SUBSET (Sectors \ stable) : content' = Revert(lost)
  /\ UNCHANGED <<stable, call>>

(* The device is opened again and what was stable has been discarded. *)
Discard ==
  /\ \E lost \in SUBSET Sectors : content' = Revert(lost)
  /\ stable' \in SUBSET stable
  /\ UNCHANGED call

Next == \/ \E r \in Requests : Read(r) \/ Write(r) \/ Answer(r) \/ Fail(r) \/ Return(r)
        \/ Stabilise \/ Crash \/ Reopen \/ Discard
        \/ \E R \in SUBSET Requests : FailAll(R)
        \/ \E r \in Requests, op \in {"read", "write"}, span \in Spans, v \in Values :
              Invoke(r, op, span[1], span[2], v)

Spec == Init /\ [][Next]_vars
=============================================================================
