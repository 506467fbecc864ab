------------------------------ MODULE NbdClient ------------------------------
(***************************************************************************)
(* One connection to an NBD server (@vates/nbd-client/                     *)
(* AbstractNbdClient.mjs) and its membership in the pool of connections a  *)
(* disk is read through (multi.mjs).                                       *)
(*                                                                         *)
(* What makes it hard: reads of several callers share one stream, answers  *)
(* come in any order, a single coroutine reads them for everyone, and a    *)
(* failure of any of them (a reset, an error answer, a timeout of the read *)
(* or of the write, a connection attempt that times out but goes on) has   *)
(* to reach every caller, while a reconnection replaces the stream and the *)
(* backlog under the coroutines that still use the old ones.               *)
(*                                                                         *)
(* A transport is named by the generation of the attempt that opened it.   *)
(* What runs in microtasks after an event (the rejections, the start of a  *)
(* reconnection, an eviction) is part of the event's action: nothing else  *)
(* can run in between.                                                     *)
(***************************************************************************)
EXTENDS Integers, Sequences, FiniteSets

CONSTANTS Callers,           \* concurrent calls of readBlock(), one block each
          ReadBlockRetries,  \* tries of a block
          ReconnectRetry,    \* tries of a reconnection
          MaxFaults,         \* bound: failures and timeouts of a behaviour
          PayloadFaults,     \* whether one may hit between an answer's header and its payload
          LateClose          \* whether a closed transport may outlive the next connection

ASSUME RetriesAssumption == ReadBlockRetries \in Nat \ {0} /\ ReconnectRetry \in Nat \ {0}
ASSUME BoundsAssumption == MaxFaults \in Nat /\ PayloadFaults \in BOOLEAN /\ LateClose \in BOOLEAN

(* Every attempt but the first follows a fault or the user's disconnect(). *)
Generations == 1 .. MaxFaults + 2
Queries == Callers \X (1 .. ReadBlockRetries)
NoQuery == <<>>

VARIABLES
  generation,    \* #connectGeneration
  connected,     \* #connectedGeneration, 0 when undefined
  link,          \* the transport of each generation
  asked,         \* per transport, the queries the server has not answered
  wire,          \* per transport, the answers that have not been read
  backlog,       \* keys of #commandQueryBacklog
  waiting,       \* #waitingForResponse
  readers,       \* the #readBlockResponse() under way
  attempt,       \* who awaits a connection attempt, and its number of tries
  caller,        \* the calls of readBlock()
  pool,          \* whether MultiNbdClient routes reads to this client
  faults

vars == <<generation, connected, link, asked, wire, backlog, waiting, readers,
          attempt, caller, pool, faults>>

net == <<asked, wire>>
reading == <<backlog, waiting, readers>>

Idle == [pc |-> "idle", tries |-> 1, data |-> NoQuery]
NoAttempt == [pc |-> "none", tries |-> 0]

Init ==
  /\ generation = 0
  /\ connected = 0
  /\ link = [g \in Generations |-> "none"]
  /\ asked = [g \in Generations |-> {}]
  /\ wire = [g \in Generations |-> <<>>]
  /\ backlog = {}
  /\ waiting = FALSE
  /\ readers = {}
  /\ attempt = NoAttempt
  /\ caller = [c \in Callers |-> Idle]
  /\ pool = "new"
  /\ faults = 0

Fault == faults < MaxFaults /\ faults' = faults + 1

(* The query of a caller that awaits its answer, and those callers. *)
Query(c) == <<c, caller[c].tries>>
Pending == {c \in Callers : caller[c].pc = "pending"}

(* A fault is not between a header and its payload. *)
Spares(g) == PayloadFaults \/ \A r \in readers : r.gen = g => r.phase = "header"

-----------------------------------------------------------------------------
(***************************************************************************)
(* Closing, rejecting and retrying.                                        *)
(***************************************************************************)

(* disconnect(): NBD_CMD_DISC is sent and the client's side is ended; a
   transport that is gone already is destroyed.                            *)
Closing(links) == IF connected # 0 /\ links[connected] = "open"
                  THEN [links EXCEPT ![connected] = "closing"]
                  ELSE links

(* Mutant: a caller never runs out of tries. *)
RejectTireless(calls, lost, over, current, links) ==
  /\ caller' = [c \in Callers |-> IF c \in lost \cup over THEN [calls[c] EXCEPT !.pc = "reconnecting"] ELSE calls[c]]
  /\ attempt' = IF lost \cup over # {} /\ current.pc = "none" THEN [pc |-> "delay", tries |-> 1] ELSE current
  /\ connected' = IF lost \cup over # {} /\ current.pc = "none" THEN 0 ELSE connected
  /\ link' = IF lost \cup over # {} /\ current.pc = "none" THEN Closing(links) ELSE links
  /\ UNCHANGED pool

(* The promises of the callers in lost reject.  A caller that has tries
   left calls reconnect(), which starts a reconnection unless one is under
   way; the others give up, and MultiNbdClient evicts the client.  `over`
   are callers that give up whatever their tries, `current` is the attempt
   under way, calls and links are the callers and the transports as the
   event leaves them.                                                      *)
Reject(calls, lost, over, current, links) ==
  LET giveUp == over \cup {c \in lost : calls[c].tries = ReadBlockRetries}
      retry == lost \ giveUp
      evict == giveUp # {} /\ pool = "in"
      start == retry # {} /\ current.pc = "none"
  IN /\ caller' = [c \in Callers |->
                     CASE c \in giveUp -> [calls[c] EXCEPT !.pc = "failed"]
                       [] c \in retry -> [calls[c] EXCEPT !.pc = "reconnecting"]
                       [] OTHER -> calls[c]]
     /\ attempt' = IF start THEN [pc |-> "delay", tries |-> 1] ELSE current
     /\ pool' = IF evict THEN "left" ELSE pool
     /\ connected' = IF evict \/ start THEN 0 ELSE connected
     /\ link' = IF evict \/ start THEN Closing(links) ELSE links

(* #rejectAll(): the promises of the backlog of the day, which stays as it
   is until the next connection.                                           *)
InBacklog == {c \in Pending : Query(c) \in backlog}
RejectAll(calls, links) == Reject(calls, InBacklog, {}, attempt, links)

(* Starting #readBlockResponse() for query q on the transport g. *)
Reader(g, q) == [gen |-> g, phase |-> "header", query |-> NoQuery, by |-> q]

(* Mutant: every query starts a coroutine of its own. *)
SendUnguarded(qs, g, log, busy) ==
  /\ backlog' = log \cup qs
  /\ asked' = IF link[g] \in {"handshake", "open"} THEN [asked EXCEPT ![g] = @ \cup qs] ELSE asked
  /\ waiting' = (busy \/ qs # {})
  /\ readers' = readers \cup {Reader(g, q) : q \in qs}

(* #readBlock(): the queries qs enter the backlog and are written to the
   transport g (lost if it is broken), and the first one starts
   #readBlockResponse() unless another one reads for everybody.            *)
Send(qs, g, log, busy) ==
  /\ backlog' = log \cup qs
  /\ asked' = IF link[g] \in {"handshake", "open"} THEN [asked EXCEPT ![g] = @ \cup qs] ELSE asked
  /\ waiting' = (busy \/ qs # {})
  /\ IF busy \/ qs = {}
     THEN UNCHANGED readers
     ELSE \E q \in qs : readers' = readers \cup {Reader(g, q)}

-----------------------------------------------------------------------------
(***************************************************************************)
(* connect(), #connect() and reconnect().                                  *)
(***************************************************************************)

NewAttempt(pc, tries) ==
  /\ generation' = generation + 1
  /\ link' = [link EXCEPT ![generation + 1] = "handshake"]
  /\ attempt' = [pc |-> pc, tries |-> tries]

(* MultiNbdClient.connect() opens the connection. *)
Connect ==
  /\ pool = "new"
  /\ NewAttempt("first", 1)
  /\ pool' = "connecting"
  /\ UNCHANGED <<connected, net, reading, caller, faults>>

(* #reconnect() after the delay that lets the server clean things up. *)
Reconnect ==
  /\ attempt.pc = "delay"
  /\ NewAttempt("connecting", attempt.tries)
  /\ UNCHANGED <<connected, net, reading, caller, pool, faults>>

Awaited == attempt.pc \in {"first", "connecting"}

(* A closed transport is expected to be gone when the next one is ready. *)
Timely == LateClose \/ readers = {}

(* Mutant: #waitingForResponse is not reset by a connection. *)
ConnectOkNoReset ==
  LET g == generation
      gate == {c \in Callers : caller[c].pc = "gate"}
  IN /\ Awaited /\ link[g] = "handshake" /\ Timely
     /\ connected' = g
     /\ link' = [link EXCEPT ![g] = "open"]
     /\ attempt' = NoAttempt
     /\ pool' = IF attempt.pc = "first" THEN "in" ELSE pool
     /\ Send({Query(c) : c \in gate}, g, {}, waiting)
     /\ caller' = [c \in Callers |->
                     CASE caller[c].pc = "gate" -> [caller[c] EXCEPT !.pc = "pending"]
                       [] caller[c].pc = "reconnecting" -> [caller[c] EXCEPT !.pc = "delay"]
                       [] OTHER -> caller[c]]
     /\ UNCHANGED <<generation, wire, faults>>

(* The handshake succeeds in time: the transport is published, with a new
   backlog.  The callers that waited for the reconnection send their query;
   the ones that asked for it try again after a delay.                     *)
ConnectOk ==
  LET g == generation
      gate == {c \in Callers : caller[c].pc = "gate"}
  IN /\ Awaited /\ link[g] = "handshake" /\ Timely
     /\ connected' = g
     /\ link' = [link EXCEPT ![g] = "open"]
     /\ attempt' = NoAttempt
     /\ pool' = IF attempt.pc = "first" THEN "in" ELSE pool
     /\ Send({Query(c) : c \in gate}, g, {}, FALSE)
     /\ caller' = [c \in Callers |->
                     CASE caller[c].pc = "gate" -> [caller[c] EXCEPT !.pc = "pending"]
                       [] caller[c].pc = "reconnecting" -> [caller[c] EXCEPT !.pc = "delay"]
                       [] OTHER -> caller[c]]
     /\ UNCHANGED <<generation, wire, faults>>

(* Mutant: the callers that wait for the attempt are not told. *)
AttemptRejectsSilently(links) ==
  /\ link' = links
  /\ attempt' = NoAttempt
  /\ UNCHANGED <<connected, caller, pool>>

(* The attempt rejects for who awaits it.  pRetry() tries again; after the
   last try the callers that asked for the reconnection give up and the
   ones that waited for it have lost a try.                                *)
AttemptRejects(links) ==
  CASE attempt.pc = "first" ->
         /\ attempt' = NoAttempt /\ pool' = "left" /\ link' = links
         /\ UNCHANGED <<connected, caller>>
    [] attempt.pc = "connecting" /\ attempt.tries < ReconnectRetry ->
         /\ attempt' = [pc |-> "delay", tries |-> attempt.tries + 1] /\ link' = links
         /\ UNCHANGED <<connected, caller, pool>>
    [] OTHER ->
         Reject(caller, {c \in Callers : caller[c].pc = "gate"},
                {c \in Callers : caller[c].pc = "reconnecting"}, NoAttempt, links)

(* _openTransport() or #handshake() fails: the transport is destroyed. *)
ConnectFail ==
  /\ Awaited /\ Fault
  /\ AttemptRejects([link EXCEPT ![generation] = "gone"])
  /\ UNCHANGED <<generation, net, reading>>

(* connect() times out, but #connect() goes on. *)
ConnectTimeout ==
  /\ Awaited /\ Fault
  /\ AttemptRejects(link)
  /\ UNCHANGED <<generation, net, reading>>

Late(g) == link[g] = "handshake" /\ ~(Awaited /\ g = generation)

(* Mutant: an attempt that timed out keeps its transport. *)
LateConnectKept(g) ==
  /\ Late(g) /\ Timely
  /\ link' = [link EXCEPT ![g] = "open"]
  /\ connected' = g
  /\ backlog' = {} /\ waiting' = FALSE
  /\ UNCHANGED <<generation, net, readers, attempt, caller, pool, faults>>

(* An attempt nobody awaits ends.  Superseded, it destroys its transport;
   the last one publishes itself, and is disconnected at once.             *)
LateConnect(g) ==
  /\ Late(g)
  /\ \/ /\ g # generation
        /\ link' = [link EXCEPT ![g] = "gone"]
        /\ UNCHANGED <<backlog, waiting>>
     \/ /\ g = generation /\ Timely
        /\ link' = [link EXCEPT ![g] = "closing"]
        /\ backlog' = {} /\ waiting' = FALSE
  /\ UNCHANGED <<generation, connected, net, readers, attempt, caller, pool, faults>>

LateConnectFail(g) ==
  /\ Late(g)
  /\ link' = [link EXCEPT ![g] = "gone"]
  /\ UNCHANGED <<generation, connected, net, reading, attempt, caller, pool, faults>>

(* The user is done with the disk, or gives up. *)
Disconnect ==
  /\ pool = "in"
  /\ pool' = "left"
  /\ connected' = 0
  /\ link' = Closing(link)
  /\ UNCHANGED <<generation, net, reading, attempt, caller, faults>>

-----------------------------------------------------------------------------
(***************************************************************************)
(* readBlock(), #readBlock() and #readBlockResponse().                     *)
(***************************************************************************)

(* #readBlock() of the callers cs, in one turn of the event loop: they wait
   for the attempt under way, or send their queries; without a connection a
   caller rejects, its query already in the backlog.                       *)
TryRead(cs, calls) ==
  LET qs == {<<c, calls[c].tries>> : c \in cs}
      move(pc) == [c \in Callers |-> IF c \in cs THEN [calls[c] EXCEPT !.pc = pc] ELSE calls[c]]
  IN \/ /\ attempt.pc # "none"
        /\ caller' = move("gate")
        /\ UNCHANGED <<connected, link, asked, reading, attempt, pool>>
     \/ /\ attempt.pc = "none" /\ connected # 0
        /\ caller' = move("pending")
        /\ Send(qs, connected, backlog, waiting)
        /\ UNCHANGED <<connected, link, attempt, pool>>
     \/ /\ attempt.pc = "none" /\ connected = 0 /\ Cardinality(cs) = 1
        /\ backlog' = backlog \cup qs
        /\ Reject(calls, cs, {}, attempt, link)
        /\ UNCHANGED <<asked, waiting, readers>>

ReadBlock(c) ==
  /\ pool = "in" /\ caller[c].pc = "idle"
  /\ TryRead({c}, caller)
  /\ UNCHANGED <<generation, wire, faults>>

(* pRetry() tries again once its delay has elapsed.  The timers of the
   callers that awaited the same reconnection expire together; without a
   connection the first one starts another reconnection for the others.    *)
Delayed == {c \in Callers : caller[c].pc = "delay"}
Retry ==
  /\ Delayed # {}
  /\ \E cs \in {Delayed} \cup {{c} : c \in Delayed} :
       /\ cs = Delayed \/ (attempt.pc = "none" /\ connected = 0)
       /\ TryRead(cs, [c \in Callers |-> IF c \in cs THEN [caller[c] EXCEPT !.tries = @ + 1] ELSE caller[c]])
  /\ UNCHANGED <<generation, wire, faults>>

(* #readBlockResponse() throws. *)
Throw(r) == /\ readers' = readers \ {r}
            /\ RejectAll(caller, link)
            /\ UNCHANGED <<backlog, waiting>>

(* Mutant: the answers are taken in the order of the queries. *)
ReadHeaderInOrder(r) ==
  LET g == r.gen
      item == Head(wire[g])
  IN /\ r.phase = "header" /\ wire[g] # <<>>
     /\ wire' = [wire EXCEPT ![g] = Tail(@)]
     /\ IF item.kind = "header" /\ backlog # {}
        THEN LET q == CHOOSE q \in backlog : \A p \in backlog : q[1] <= p[1]
             IN /\ backlog' = backlog \ {q}
                /\ readers' = (readers \ {r}) \cup {[r EXCEPT !.phase = "payload", !.query = q]}
                /\ UNCHANGED <<waiting, connected, link, attempt, caller, pool>>
        ELSE Throw(r)
     /\ UNCHANGED <<generation, asked, faults>>

(* It reads a header: of an answer to a query of the backlog, or it throws. *)
ReadHeader(r) ==
  LET g == r.gen
      item == Head(wire[g])
  IN /\ r.phase = "header" /\ wire[g] # <<>>
     /\ wire' = [wire EXCEPT ![g] = Tail(@)]
     /\ IF item.kind = "header" /\ item.query \in backlog
        THEN /\ backlog' = backlog \ {item.query}
             /\ readers' = (readers \ {r}) \cup {[r EXCEPT !.phase = "payload", !.query = item.query]}
             /\ UNCHANGED <<waiting, connected, link, attempt, caller, pool>>
        ELSE Throw(r)
     /\ UNCHANGED <<generation, asked, faults>>

(* It reads the payload and resolves the query's promise (which may have
   rejected already), then reads the next answer if one is expected, from
   the transport of the day.                                               *)
ReadPayload(r) ==
  LET g == r.gen
      c == r.query[1]
      done == [caller EXCEPT ![c] = IF @.pc = "pending" /\ Query(c) = r.query
                                    THEN [@ EXCEPT !.pc = "done", !.data = Head(wire[g]).query]
                                    ELSE @]
  IN /\ r.phase = "payload" /\ wire[g] # <<>>
     /\ wire' = [wire EXCEPT ![g] = Tail(@)]
     /\ waiting' = (backlog # {})
     /\ \/ /\ backlog = {} \/ connected # 0
           /\ readers' = (readers \ {r}) \cup (IF backlog = {} THEN {} ELSE {Reader(connected, r.query)})
           /\ caller' = done
           /\ UNCHANGED <<connected, link, attempt, pool>>
        \/ /\ backlog # {} /\ connected = 0
           /\ readers' = readers \ {r}
           /\ RejectAll(done, link)
     /\ UNCHANGED <<generation, asked, backlog, faults>>

(* The stream ended, or broke, and there is nothing left to read. *)
ReadEnd(r) ==
  /\ link[r.gen] = "gone" /\ wire[r.gen] = <<>>
  /\ Throw(r)
  /\ UNCHANGED <<generation, net, faults>>

(* Nothing came for messageTimeout. *)
ReadTimeout(r) ==
  /\ Fault /\ Spares(r.gen)
  /\ Throw(r)
  /\ UNCHANGED <<generation, net>>

(* #write() times out: the query rejects, alone, and stays in the backlog. *)
WriteTimeout(c) ==
  /\ c \in Pending /\ Fault
  /\ Reject(caller, {c}, {}, attempt, link)
  /\ UNCHANGED <<generation, net, reading>>

-----------------------------------------------------------------------------
(***************************************************************************)
(* The server and the network (external).                                  *)
(***************************************************************************)

(* It answers the queries it has in any order. *)
Answer(g, q) ==
  /\ link[g] \in {"open", "closing"} /\ q \in asked[g]
  /\ asked' = [asked EXCEPT ![g] = @ \ {q}]
  /\ wire' = [wire EXCEPT ![g] = @ \o <<[kind |-> "header", query |-> q], [kind |-> "payload", query |-> q]>>]
  /\ UNCHANGED <<generation, connected, link, reading, attempt, caller, pool, faults>>

AnswerError(g, q) ==
  /\ link[g] \in {"open", "closing"} /\ q \in asked[g] /\ Fault
  /\ asked' = [asked EXCEPT ![g] = @ \ {q}]
  /\ wire' = [wire EXCEPT ![g] = Append(@, [kind |-> "error", query |-> q])]
  /\ UNCHANGED <<generation, connected, link, reading, attempt, caller, pool>>

(* It closes a connection it was told to close, or on its own.  What it
   sent before can still be read.                                          *)
ServerClose(g) ==
  /\ \/ link[g] = "closing" /\ UNCHANGED faults
     \/ link[g] = "open" /\ Fault
  /\ link' = [link EXCEPT ![g] = "gone"]
  /\ asked' = [asked EXCEPT ![g] = {}]
  /\ UNCHANGED <<generation, connected, wire, reading, attempt, caller, pool>>

(* Mutant: an error rejects the backlog whichever transport it is of. *)
TransportErrorAny(g) ==
  /\ link[g] \in {"open", "closing"} /\ Fault /\ Spares(g)
  /\ wire' = [wire EXCEPT ![g] = <<>>]
  /\ asked' = [asked EXCEPT ![g] = {}]
  /\ readers' = {r \in readers : r.gen # g}
  /\ RejectAll(caller, [link EXCEPT ![g] = "gone"])
  /\ UNCHANGED <<generation, backlog, waiting>>

(* #onTransportError(): the connection breaks.  What was not read is lost;
   the reads of a coroutine on this transport fail, and the backlog rejects
   if the transport is the current one.                                    *)
TransportError(g) ==
  /\ link[g] \in {"open", "closing"} /\ Fault /\ Spares(g)
  /\ wire' = [wire EXCEPT ![g] = <<>>]
  /\ asked' = [asked EXCEPT ![g] = {}]
  /\ readers' = {r \in readers : r.gen # g}
  /\ Reject(caller, IF g = connected \/ readers # readers' THEN InBacklog ELSE {}, {}, attempt,
            [link EXCEPT ![g] = "gone"])
  /\ UNCHANGED <<generation, backlog, waiting>>

-----------------------------------------------------------------------------

ClientStep ==
  \/ Connect \/ Reconnect \/ ConnectOk \/ Retry
  \/ \E g \in Generations : LateConnect(g)
  \/ \E r \in readers : ReadHeader(r) \/ ReadPayload(r) \/ ReadEnd(r)

ServerStep == \E g \in Generations : (\E q \in Queries : Answer(g, q)) \/ ServerClose(g)

Next ==
  \/ ClientStep \/ ServerStep
  \/ ConnectFail \/ ConnectTimeout \/ Disconnect
  \/ \E g \in Generations : LateConnectFail(g) \/ TransportError(g)
                             \/ \E q \in Queries : AnswerError(g, q)
  \/ \E c \in Callers : ReadBlock(c) \/ WriteTimeout(c)
  \/ \E r \in readers : ReadTimeout(r)

Spec == Init /\ [][Next]_vars

-----------------------------------------------------------------------------

Items == [kind : {"header", "payload", "error"}, query : Queries]

(* Type invariant; a block is never tried more often than it may be. *)
TypeOK ==
  /\ generation \in Generations \cup {0}
  /\ connected \in 0 .. generation
  /\ link \in [Generations -> {"none", "handshake", "open", "closing", "gone"}]
  /\ asked \in [Generations -> SUBSET Queries]
  /\ wire \in [Generations -> Seq(Items)]
  /\ backlog \subseteq Queries
  /\ waiting \in BOOLEAN
  /\ readers \subseteq [gen : Generations, phase : {"header", "payload"},
                        query : Queries \cup {NoQuery}, by : Queries]
  /\ attempt \in [pc : {"none", "first", "delay", "connecting"}, tries : 0 .. ReconnectRetry]
  /\ caller \in [Callers -> [pc : {"idle", "gate", "pending", "reconnecting", "delay", "done", "failed"},
                             tries : 1 .. ReadBlockRetries, data : Queries \cup {NoQuery}]]
  /\ pool \in {"new", "connecting", "in", "left"}
  /\ faults \in 0 .. MaxFaults

(* A caller gets the data of the block it asked for, whatever the order of
   the answers, the reconnections and the answers left on old transports.  *)
RightData == \A c \in Callers : caller[c].pc = "done" => caller[c].data = Query(c)

(* "ensure at most one read occur in parallel": two coroutines that read
   one stream would take each other's bytes.                               *)
OneReader == \A r, s \in readers : r.gen = s.gen => r = s

(* As long as the client is in the pool, somebody will settle the promise
   of every caller that awaits an answer: a coroutine is reading, and the
   query is the one being answered or in the backlog a failure rejects.    *)
Served(c) == \E r \in readers : Query(c) \in backlog \/ r.query = Query(c)
NoOrphan == pool = "in" => \A c \in Pending : Served(c)

(* "don't leak the transport": an open transport is the client's current
   one, so that disconnect() can close it, whatever attempt timed out.     *)
NoLeak == \A g \in Generations : link[g] = "open" => g = connected

(* "an error on a transport which is not the current one ... must not
   reject the reads of the current transport".                             *)
StaleErrorsIgnored ==
  [][\A g \in Generations \ {connected} :
       link'[g] # link[g] /\ connected # 0 => \A c \in Pending : caller'[c].pc = "pending"]_vars

FairSpec == Spec /\ WF_vars(ClientStep) /\ WF_vars(ServerStep)

(* Every readBlock() settles, or the client leaves the pool. *)
Settles == \A c \in Callers :
             caller[c].pc # "idle" ~> caller[c].pc \in {"done", "failed"} \/ pool = "left"

=============================================================================
