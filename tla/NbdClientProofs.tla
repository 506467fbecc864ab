--------------------------- MODULE NbdClientProofs ---------------------------
(***************************************************************************)
(* Proofs about the NBD client.                                            *)
(***************************************************************************)
EXTENDS NbdClient, SequenceTheorems, TLAPS

LinkStates == {"none", "handshake", "open", "closing", "gone"}
AttemptType == [pc : {"none", "first", "delay", "connecting"}, tries : 0 .. ReconnectRetry]
CallerType == [pc : {"idle", "gate", "pending", "reconnecting", "delay", "done", "failed"},
               tries : 1 .. ReadBlockRetries, data : Queries \cup {NoQuery}]
ReaderType == [gen : Generations, phase : {"header", "payload"},
               query : Queries \cup {NoQuery}, by : Queries]

(***************************************************************************)
(* Transports do not leak.                                                 *)
(***************************************************************************)

\* nothing happens before MultiNbdClient.connect()
Untouched ==
  pool = "new" => /\ generation = 0 /\ connected = 0 /\ attempt = NoAttempt
                  /\ link = [g \in Generations |-> "none"]
                  /\ readers = {}
                  /\ \A c \in Callers : caller[c].pc = "idle"

\* an attempt under way has taken the current transport out of use
Current ==
  /\ link \in [Generations -> LinkStates]
  /\ attempt.pc # "none" => connected = 0
  /\ Untouched
  /\ NoLeak

LEMMA FirstStep ==
  ASSUME Untouched, pool = "new", Next
  PROVE  Connect
<1>1. ~Awaited /\ attempt.pc = "none"
  BY DEF Untouched, NoAttempt, Awaited
<1>2. \A g \in Generations : link[g] = "none"
  BY DEF Untouched
<1>3. readers = {} /\ Delayed = {} /\ Pending = {}
  BY DEF Untouched, Delayed, Pending
<1>4. ~Reconnect /\ ~ConnectOk /\ ~Retry /\ ~ConnectFail /\ ~ConnectTimeout /\ ~Disconnect
  BY <1>1, <1>3 DEF Reconnect, ConnectOk, Retry, ConnectFail, ConnectTimeout, Disconnect
<1>5. \A g \in Generations : /\ ~LateConnect(g) /\ ~LateConnectFail(g) /\ ~ServerClose(g) /\ ~TransportError(g)
                             /\ \A q : ~Answer(g, q) /\ ~AnswerError(g, q)
  BY <1>2 DEF LateConnect, LateConnectFail, Late, ServerClose, TransportError, Answer, AnswerError
<1>6. \A c \in Callers : ~ReadBlock(c) /\ ~WriteTimeout(c)
  BY <1>3 DEF ReadBlock, WriteTimeout
<1> QED BY <1>3, <1>4, <1>5, <1>6 DEF Next, ClientStep, ServerStep

LEMMA NoGenerationZero == 0 \notin Generations /\ \A g \in Generations : g \in Nat /\ g # 0
BY DEF Generations

LEMMA ClosingType ==
  ASSUME NEW links \in [Generations -> LinkStates]
  PROVE  /\ Closing(links) \in [Generations -> LinkStates]
         /\ \A g \in Generations : Closing(links)[g] = links[g] \/ Closing(links)[g] = "closing"
         /\ \A g \in Generations : g # connected => Closing(links)[g] = links[g]
         /\ \A g \in Generations : g = connected => Closing(links)[g] # "open"
         /\ connected = 0 => Closing(links) = links
<1>1. CASE connected # 0 /\ links[connected] = "open"
  BY <1>1 DEF Closing, LinkStates
<1>2. CASE ~ (connected # 0 /\ links[connected] = "open")
  BY <1>2, NoGenerationZero DEF Closing, LinkStates
<1> QED BY <1>1, <1>2

(* Rejecting leaves the connection as it is, or takes it out of use. *)
LEMMA RejectLinks ==
  ASSUME NEW calls, NEW lost, NEW over, NEW current, NEW links, Reject(calls, lost, over, current, links)
  PROVE  \/ /\ attempt' = current /\ pool' = pool
            /\ connected' = connected /\ link' = links
            /\ current.pc = "none" /\ pool = "in" => lost = {} /\ over = {}
         \/ /\ connected' = 0 /\ link' = Closing(links)
            /\ lost # {} \/ over # {}
            /\ \/ pool' = pool
               \/ pool = "in" /\ pool' = "left"
            /\ \/ attempt' = current /\ pool = "in" /\ pool' = "left"
               \/ current.pc = "none" /\ lost # {} /\ attempt' = [pc |-> "delay", tries |-> 1]
<1> DEFINE giveUp == over \cup {c \in lost : calls[c].tries = ReadBlockRetries}
           retry == lost \ giveUp
           evict == giveUp # {} /\ pool = "in"
           start == retry # {} /\ current.pc = "none"
<1>1. /\ attempt' = IF start THEN [pc |-> "delay", tries |-> 1] ELSE current
      /\ pool' = IF evict THEN "left" ELSE pool
      /\ connected' = IF evict \/ start THEN 0 ELSE connected
      /\ link' = IF evict \/ start THEN Closing(links) ELSE links
  BY Zenon DEF Reject
<1>2. CASE evict \/ start
  BY <1>1, <1>2
<1>3. CASE ~ (evict \/ start)
  <2>1. current.pc = "none" /\ pool = "in" => retry = {} /\ giveUp = {}
    BY <1>3, Zenon
  <2>2. retry = {} /\ giveUp = {} => lost = {} /\ over = {}
    BY Zenon
  <2> QED BY <1>1, <1>3, <2>1, <2>2, Zenon
<1> QED BY <1>2, <1>3

(* Rejecting keeps Current, if the attempt it knows of is the one under way. *)
LEMMA RejectCurrent ==
  ASSUME Current, pool # "new", NEW calls, NEW lost, NEW over, NEW current,
         NEW links \in [Generations -> LinkStates],
         \A g \in Generations : links[g] = "open" => link[g] = "open",
         current.pc # "none" => connected = 0,
         Reject(calls, lost, over, current, links)
  PROVE  Current' /\ pool' # "new"
<1>1. CASE /\ attempt' = current /\ pool' = pool
           /\ connected' = connected /\ link' = links
  BY <1>1 DEF Current, NoLeak, Untouched
<1>2. CASE /\ connected' = 0 /\ link' = Closing(links)
           /\ \/ pool' = pool
              \/ pool = "in" /\ pool' = "left"
  <2>1. link' \in [Generations -> LinkStates]
    BY <1>2, ClosingType
  <2>2. \A g \in Generations : link'[g] # "open"
    BY <1>2, ClosingType DEF Current, NoLeak
  <2> QED BY <1>2, <2>1, <2>2 DEF Current, NoLeak, Untouched
<1> QED BY <1>1, <1>2, RejectLinks

LEMMA GoneLinks ==
  ASSUME NEW links \in [Generations -> LinkStates], NEW g
  PROVE  /\ [links EXCEPT ![g] = "gone"] \in [Generations -> LinkStates]
         /\ \A h \in Generations : [links EXCEPT ![g] = "gone"][h] = IF h = g THEN "gone" ELSE links[h]
BY DEF LinkStates

LEMMA AttemptRejectsCurrent ==
  ASSUME Current, pool # "new", Awaited, NEW links \in [Generations -> LinkStates],
         \A g \in Generations : links[g] = "open" => link[g] = "open",
         AttemptRejects(links)
  PROVE  Current'
<1>0. connected = 0
  BY DEF Current, Awaited
<1>1. CASE attempt' = NoAttempt /\ pool' = "left" /\ link' = links /\ UNCHANGED connected
  BY <1>0, <1>1 DEF Current, NoLeak, NoAttempt, Untouched
<1>2. CASE link' = links /\ UNCHANGED <<connected, pool>>
  BY <1>0, <1>2 DEF Current, NoLeak, Untouched
<1>3. CASE Reject(caller, {c \in Callers : caller[c].pc = "gate"},
                  {c \in Callers : caller[c].pc = "reconnecting"}, NoAttempt, links)
  <2>1. NoAttempt.pc # "none" => connected = 0
    BY <1>0
  <2> QED BY <1>3, <2>1, RejectCurrent
<1> QED BY <1>1, <1>2, <1>3, Zenon DEF AttemptRejects

LEMMA TryReadCurrent ==
  ASSUME Current, pool # "new", NEW cs, NEW calls, TryRead(cs, calls)
  PROVE  Current'
<1>1. CASE UNCHANGED <<connected, link, attempt, pool>>
  BY <1>1 DEF Current, NoLeak, Untouched
<1>2. CASE Reject(calls, cs, {}, attempt, link)
  BY <1>2, RejectCurrent DEF Current
<1> QED BY <1>1, <1>2 DEF TryRead

LEMMA ThrowCurrent ==
  ASSUME Current, pool # "new", NEW calls, RejectAll(calls, link)
  PROVE  Current'
BY RejectCurrent DEF Current, RejectAll

LEMMA CurrentStep == Current /\ [Next]_vars => Current'
<1> SUFFICES ASSUME Current, [Next]_vars PROVE Current'
  OBVIOUS
<1>0. \A g : [link EXCEPT ![g] = "gone"] \in [Generations -> LinkStates]
    /\ \A h \in Generations : [link EXCEPT ![g] = "gone"][h] = "open" => link[h] = "open"
  BY GoneLinks DEF Current
<1>1. CASE UNCHANGED vars
  BY <1>1 DEF vars, Current, NoLeak, Untouched
<1>2. CASE Connect
  <2>1. /\ pool' = "connecting" /\ connected' = 0 /\ connected = 0
        /\ attempt' = [pc |-> "first", tries |-> 1]
        /\ link' = [link EXCEPT ![generation + 1] = "handshake"]
    BY <1>2 DEF Connect, NewAttempt, Current, Untouched
  <2> QED BY <2>1 DEF Current, Untouched, NoLeak, LinkStates
<1>3. CASE Next /\ pool # "new"
  <2>u. ASSUME UNCHANGED <<connected, link, attempt, pool>> PROVE Current'
    BY <1>3, <2>u DEF Current, NoLeak, Untouched
  <2>0. ~Connect
    BY <1>3 DEF Connect
  <2>2. CASE Reconnect
    <3>1. /\ pool' = pool /\ connected' = 0 /\ connected = 0
          /\ link' = [link EXCEPT ![generation + 1] = "handshake"]
      BY <2>2 DEF Reconnect, NewAttempt, Current
    <3> QED BY <1>3, <3>1 DEF Current, NoLeak, LinkStates, Untouched
  <2>3. CASE ConnectOk
    <3>1. /\ connected = 0 /\ link' = [link EXCEPT ![generation] = "open"]
          /\ connected' = generation /\ attempt' = NoAttempt
          /\ pool' # "new"
      BY <1>3, <2>3 DEF ConnectOk, Awaited, Current
    <3>2. link' \in [Generations -> LinkStates]
      BY <3>1 DEF Current, LinkStates
    <3>3. \A g \in Generations : link'[g] = "open" => g = connected'
      BY <3>1, NoGenerationZero DEF Current, NoLeak
    <3> QED BY <3>1, <3>2, <3>3 DEF Current, NoLeak, NoAttempt, Untouched
  <2>4. CASE Retry
    BY <1>3, <2>4, TryReadCurrent DEF Retry
  <2>5. ASSUME NEW g \in Generations, LateConnect(g) PROVE Current'
    <3>1. /\ \/ link' = [link EXCEPT ![g] = "gone"]
             \/ link' = [link EXCEPT ![g] = "closing"]
          /\ UNCHANGED <<connected, attempt, pool>>
      BY <2>5 DEF LateConnect
    <3> QED BY <1>3, <3>1 DEF Current, NoLeak, LinkStates, Untouched
  <2>6. ASSUME NEW r \in readers, ReadHeader(r) \/ ReadPayload(r) \/ ReadEnd(r) \/ ReadTimeout(r) PROVE Current'
    BY <1>3, <2>6, <2>u, ThrowCurrent DEF ReadHeader, ReadPayload, ReadEnd, ReadTimeout, Throw
  <2>7. ASSUME NEW g \in Generations, NEW q \in Queries, Answer(g, q) \/ AnswerError(g, q) PROVE Current'
    BY <2>7, <2>u DEF Answer, AnswerError
  <2>8. ASSUME NEW g \in Generations, ServerClose(g) \/ LateConnectFail(g) PROVE Current'
    <3>1. link' = [link EXCEPT ![g] = "gone"] /\ UNCHANGED <<connected, attempt, pool>>
      BY <2>8 DEF ServerClose, LateConnectFail
    <3> QED BY <1>3, <3>1 DEF Current, NoLeak, LinkStates, Untouched
  <2>9. CASE ConnectFail \/ ConnectTimeout
    BY <1>0, <1>3, <2>9, AttemptRejectsCurrent DEF ConnectFail, ConnectTimeout, Current
  <2>10. CASE Disconnect
    BY <2>10, ClosingType DEF Disconnect, Current, NoLeak, Untouched
  <2>11. ASSUME NEW g \in Generations, TransportError(g) PROVE Current'
    BY <1>0, <1>3, <2>11, RejectCurrent DEF TransportError, Current
  <2>12. ASSUME NEW c \in Callers, ReadBlock(c) PROVE Current'
    BY <1>3, <2>12, TryReadCurrent DEF ReadBlock
  <2>13. ASSUME NEW c \in Callers, WriteTimeout(c) PROVE Current'
    BY <1>3, <2>13, RejectCurrent DEF WriteTimeout, Current
  <2> QED
    BY <1>3, <2>0, <2>2, <2>3, <2>4, <2>5, <2>6, <2>7, <2>8, <2>9, <2>10, <2>11, <2>12, <2>13
       DEF Next, ClientStep, ServerStep
<1> QED BY <1>1, <1>2, <1>3, FirstStep DEF Current

(* An open transport is the client's current one: connect() publishes its
   transport only when nothing else is published, reconnect() and
   disconnect() take the published one out of use while closing it, and an
   attempt that was given up closes the transport it has opened.           *)
THEOREM NoLeakHolds == Spec => []NoLeak
<1>1. Init => Current
  BY DEF Init, Current, NoLeak, LinkStates, NoAttempt, Untouched, Idle
<1>2. Current => NoLeak
  BY DEF Current
<1> QED BY <1>1, <1>2, CurrentStep, PTL DEF Spec

(***************************************************************************)
(* The answers on a transport.  A coroutine that has read a header finds   *)
(* the payload of that header next, whatever follows it.                   *)
(***************************************************************************)

Header(q) == [kind |-> "header", query |-> q]
Payload(q) == [kind |-> "payload", query |-> q]
Error(q) == [kind |-> "error", query |-> q]

\* first is the query whose header has been read, if its payload has not
WellFormed(w, first) ==
  /\ first # NoQuery => Len(w) >= 1 /\ w[1] = Payload(first)
  /\ \A i \in 1 .. Len(w) : w[i].kind = "header" => i + 1 <= Len(w) /\ w[i + 1] = Payload(w[i].query)
  /\ \A i \in 1 .. Len(w) : w[i].kind = "payload" => IF i = 1 THEN first # NoQuery ELSE w[i - 1].kind = "header"

Headers(w) == {w[i].query : i \in {j \in 1 .. Len(w) : w[j].kind = "header"}}
Mentioned(w) == {w[i].query : i \in 1 .. Len(w)}
Broke(w) == \E i \in 1 .. Len(w) : w[i].kind = "error"
Distinct(w) == \A i, j \in 1 .. Len(w) :
                 w[i].kind = "header" /\ w[j].kind = "header" /\ w[i].query = w[j].query => i = j

(***************************************************************************)
(* The inductive invariant, when a closed transport is gone before the     *)
(* next connection is ready.                                               *)
(***************************************************************************)

Typed ==
  /\ generation \in Generations \cup {0}
  /\ connected \in 0 .. generation
  /\ link \in [Generations -> LinkStates]
  /\ asked \in [Generations -> SUBSET Queries]
  /\ wire \in [Generations -> Seq(Items)]
  /\ backlog \subseteq Queries
  /\ waiting \in BOOLEAN
  /\ readers \subseteq ReaderType
  /\ attempt \in AttemptType
  /\ caller \in [Callers -> CallerType]
  /\ pool \in {"new", "connecting", "in", "left"}
  /\ faults \in 0 .. MaxFaults

\* the current transport is the last one, and not closing
Links ==
  /\ Untouched
  /\ attempt.pc # "none" => connected = 0
  /\ connected # 0 => connected = generation /\ link[connected] \in {"open", "gone"}
  /\ Awaited => generation # 0
  /\ attempt.pc = "first" => pool = "connecting"
  /\ \A g \in Generations : g > generation => link[g] = "none"

\* nothing is asked before the handshake is done
Fresh == \A g \in Generations : link[g] \in {"none", "handshake"} => wire[g] = <<>> /\ asked[g] = {}

\* one coroutine reads for everyone, on the current transport if there is one
ReadersOK ==
  /\ \A r, s \in readers : r = s
  /\ \A r \in readers : r.phase = "header" <=> r.query = NoQuery
  /\ connected # 0 => \A r \in readers : r.gen = connected /\ waiting

\* the stream is where its reader, or the next one, expects it to be
Wires ==
  /\ \A r \in readers : WellFormed(wire[r.gen], r.query)
  /\ connected # 0 /\ ~waiting => WellFormed(wire[connected], NoQuery)

\* what the current transport has to answer is in the backlog, once
Outstanding ==
  connected # 0 => /\ asked[connected] \cup Headers(wire[connected]) \subseteq backlog
                   /\ asked[connected] \cap Headers(wire[connected]) = {}
                   /\ Distinct(wire[connected])

\* a query is of a try its caller has made
Known(q) == q \in backlog \/ \E g \in Generations : q \in asked[g] \/ q \in Mentioned(wire[g])
Made(q) == /\ q[2] <= caller[q[1]].tries
           /\ caller[q[1]].pc \in {"idle", "gate"} => q[2] < caller[q[1]].tries
Past == \A q \in Queries : Known(q) => Made(q)

TriesOK == \A c \in Callers : caller[c].pc \in {"delay", "reconnecting"} => caller[c].tries < ReadBlockRetries

\* an attempt, made or due, has a fault or the user's disconnect() to pay for it
Due == \/ attempt.pc = "delay"
       \/ /\ attempt.pc = "none"
          /\ connected = 0 \/ link[connected] # "open" \/ Broke(wire[connected])
Spent == faults + (IF pool = "left" THEN 1 ELSE 0)
Credit == generation <= Spent + 1 /\ (Due => generation <= Spent)

Inv == Typed /\ Links /\ Fresh /\ ReadersOK /\ Wires /\ Outstanding /\ Past /\ TriesOK /\ Credit /\ RightData

LEMMA QueryFacts ==
  /\ NoQuery \notin Queries
  /\ \A c \in Callers, t \in 1 .. ReadBlockRetries : /\ <<c, t>> \in Queries
                                                     /\ <<c, t>>[1] = c /\ <<c, t>>[2] = t
  /\ \A q \in Queries : q[1] \in Callers /\ q[2] \in 1 .. ReadBlockRetries /\ q = <<q[1], q[2]>>
BY DEF Queries, NoQuery

LEMMA ItemFacts ==
  ASSUME NEW q \in Queries
  PROVE  /\ Header(q) \in Items /\ Header(q).kind = "header" /\ Header(q).query = q
         /\ Payload(q) \in Items /\ Payload(q).kind = "payload" /\ Payload(q).query = q
         /\ Error(q) \in Items /\ Error(q).kind = "error" /\ Error(q).query = q
BY DEF Header, Payload, Error, Items

LEMMA EmptyWire ==
  /\ <<>> \in Seq(Items)
  /\ WellFormed(<<>>, NoQuery) /\ Distinct(<<>>) /\ ~Broke(<<>>)
  /\ Headers(<<>>) = {} /\ Mentioned(<<>>) = {}
<1>1. Len(<<>>) = 0 /\ <<>> \in Seq(Items)
  OBVIOUS
<1>2. 1 .. 0 = {}
  OBVIOUS
<1> QED BY <1>1, <1>2 DEF WellFormed, Distinct, Broke, Headers, Mentioned

LEMMA TailFacts ==
  ASSUME NEW w \in Seq(Items), w # <<>>
  PROVE  /\ Tail(w) \in Seq(Items) /\ Len(Tail(w)) = Len(w) - 1 /\ Len(w) \in Nat \ {0}
         /\ Head(w) = w[1] /\ Head(w) \in Items
         /\ \A i \in 1 .. Len(w) - 1 : Tail(w)[i] = w[i + 1] /\ i + 1 \in 1 .. Len(w)
         /\ \A i \in 1 .. Len(w) : w[i] \in Items
OBVIOUS

(* What reading the first message leaves. *)
LEMMA TailWire ==
  ASSUME NEW w \in Seq(Items), w # <<>>
  PROVE  /\ Headers(Tail(w)) \subseteq Headers(w)
         /\ Mentioned(Tail(w)) \subseteq Mentioned(w)
         /\ Broke(Tail(w)) => Broke(w)
         /\ Distinct(w) => Distinct(Tail(w))
         /\ Head(w).query \in Mentioned(w)
         /\ Head(w).kind = "error" => Broke(w)
<1> DEFINE t == Tail(w)
<1>1. /\ t \in Seq(Items) /\ Len(t) = Len(w) - 1 /\ Len(w) \in Nat \ {0} /\ Head(w) = w[1]
      /\ \A i \in 1 .. Len(w) - 1 : t[i] = w[i + 1] /\ i + 1 \in 1 .. Len(w)
  BY TailFacts
<1> HIDE DEF t
<1>2. \A i \in 1 .. Len(t) : t[i] = w[i + 1] /\ i + 1 \in 1 .. Len(w)
  BY <1>1
<1>3. Headers(t) \subseteq Headers(w)
  BY <1>2 DEF Headers
<1>4. Mentioned(t) \subseteq Mentioned(w)
  BY <1>2 DEF Mentioned
<1>5. Broke(t) => Broke(w)
  BY <1>2 DEF Broke
<1>6. Distinct(w) => Distinct(t)
  <2> SUFFICES ASSUME Distinct(w), NEW i \in 1 .. Len(t), NEW j \in 1 .. Len(t),
                      t[i].kind = "header", t[j].kind = "header", t[i].query = t[j].query
               PROVE  i = j
    BY DEF Distinct
  <2>1. i + 1 = j + 1
    BY <1>2 DEF Distinct
  <2> QED BY <2>1
<1>7. 1 \in 1 .. Len(w)
  BY <1>1
<1> QED BY <1>1, <1>3, <1>4, <1>5, <1>6, <1>7 DEF t, Mentioned, Broke

(* Reading a header: its payload is next, and it is not read twice. *)
LEMMA HeaderWire ==
  ASSUME NEW w \in Seq(Items), w # <<>>, WellFormed(w, NoQuery), Head(w).kind = "header"
  PROVE  /\ WellFormed(Tail(w), Head(w).query)
         /\ Head(w).query \in Headers(w)
         /\ Distinct(w) => Head(w).query \notin Headers(Tail(w))
<1> DEFINE t == Tail(w)
           q == Head(w).query
<1>1. /\ t \in Seq(Items) /\ Len(t) = Len(w) - 1 /\ Len(w) \in Nat \ {0} /\ Head(w) = w[1]
      /\ \A i \in 1 .. Len(w) - 1 : t[i] = w[i + 1] /\ i + 1 \in 1 .. Len(w)
  BY TailFacts
<1> HIDE DEF t
<1>2. \A i \in 1 .. Len(t) : t[i] = w[i + 1] /\ i + 1 \in 1 .. Len(w)
  BY <1>1
<1>3. 1 \in 1 .. Len(w) /\ w[1].kind = "header" /\ q = w[1].query
  BY <1>1
<1>4. 2 <= Len(w) /\ w[2] = Payload(q)
  BY <1>3 DEF WellFormed
<1>5. WellFormed(t, q)
  <2>1. Len(t) >= 1 /\ t[1] = Payload(q)
    BY <1>1, <1>2, <1>4
  <2>2. ASSUME NEW i \in 1 .. Len(t), t[i].kind = "header"
        PROVE  i + 1 <= Len(t) /\ t[i + 1] = Payload(t[i].query)
    <3>1. w[i + 1].kind = "header" /\ i + 1 \in 1 .. Len(w)
      BY <1>2, <2>2
    <3>2. i + 2 <= Len(w) /\ w[i + 2] = Payload(w[i + 1].query)
      BY <3>1 DEF WellFormed
    <3>3. i + 1 \in 1 .. Len(t)
      BY <1>1, <3>2
    <3> QED BY <1>2, <3>2, <3>3
  <2>3. ASSUME NEW i \in 1 .. Len(t), t[i].kind = "payload"
        PROVE  IF i = 1 THEN q # NoQuery ELSE t[i - 1].kind = "header"
    <3>1. CASE i = 1
      <4>1. w[1] \in Items
        BY <1>3, TailFacts
      <4> QED BY <1>3, <3>1, <4>1, QueryFacts DEF Items
    <3>2. CASE i # 1
      <4>1. w[i + 1].kind = "payload" /\ i + 1 \in 1 .. Len(w) /\ i + 1 # 1
        BY <1>2, <2>3
      <4>2. w[(i + 1) - 1].kind = "header"
        BY <4>1 DEF WellFormed
      <4>3. i - 1 \in 1 .. Len(t)
        BY <1>1, <3>2
      <4> QED BY <1>2, <3>2, <4>2, <4>3
    <3> QED BY <3>1, <3>2
  <2> QED BY <2>1, <2>2, <2>3 DEF WellFormed
<1>6. q \in Headers(w)
  BY <1>3 DEF Headers
<1>7. ASSUME Distinct(w), q \in Headers(t) PROVE FALSE
  <2>1. PICK i \in 1 .. Len(t) : t[i].kind = "header" /\ t[i].query = q
    BY <1>7 DEF Headers
  <2>2. i + 1 \in 1 .. Len(w) /\ w[i + 1].kind = "header" /\ w[i + 1].query = w[1].query
    BY <1>2, <1>3, <2>1
  <2>3. i + 1 = 1
    BY <1>3, <1>7, <2>2 DEF Distinct
  <2> QED BY <2>3
<1> QED BY <1>5, <1>6, <1>7 DEF t

(* Reading a payload. *)
LEMMA PayloadWire ==
  ASSUME NEW w \in Seq(Items), NEW q \in Queries, WellFormed(w, q)
  PROVE  /\ w # <<>> /\ Head(w).query = q
         /\ WellFormed(Tail(w), NoQuery)
<1> DEFINE t == Tail(w)
<1>1. q # NoQuery /\ Len(w) >= 1 /\ w[1] = Payload(q)
  BY QueryFacts DEF WellFormed
<1>2. w # <<>>
  BY <1>1
<1>3. /\ t \in Seq(Items) /\ Len(t) = Len(w) - 1 /\ Len(w) \in Nat \ {0} /\ Head(w) = w[1]
      /\ \A i \in 1 .. Len(w) - 1 : t[i] = w[i + 1] /\ i + 1 \in 1 .. Len(w)
  BY <1>2, TailFacts
<1> HIDE DEF t
<1>4. \A i \in 1 .. Len(t) : t[i] = w[i + 1] /\ i + 1 \in 1 .. Len(w)
  BY <1>3
<1>5. WellFormed(t, NoQuery)
  <2>2. ASSUME NEW i \in 1 .. Len(t), t[i].kind = "header"
        PROVE  i + 1 <= Len(t) /\ t[i + 1] = Payload(t[i].query)
    <3>1. w[i + 1].kind = "header" /\ i + 1 \in 1 .. Len(w)
      BY <1>4, <2>2
    <3>2. i + 2 <= Len(w) /\ w[i + 2] = Payload(w[i + 1].query)
      BY <3>1 DEF WellFormed
    <3>3. i + 1 \in 1 .. Len(t)
      BY <1>3, <3>2
    <3> QED BY <1>4, <3>2, <3>3
  <2>3. ASSUME NEW i \in 1 .. Len(t), t[i].kind = "payload"
        PROVE  IF i = 1 THEN NoQuery # NoQuery ELSE t[i - 1].kind = "header"
    <3>1. w[i + 1].kind = "payload" /\ i + 1 \in 1 .. Len(w) /\ i + 1 # 1
      BY <1>4, <2>3
    <3>2. w[(i + 1) - 1].kind = "header"
      BY <3>1 DEF WellFormed
    <3>3. CASE i = 1
      <4>1. w[1].kind = "payload"
        BY <1>1, ItemFacts
      <4> QED BY <3>2, <3>3, <4>1
    <3>4. CASE i # 1
      <4>3. i - 1 \in 1 .. Len(t)
        BY <1>3, <3>4
      <4> QED BY <1>4, <3>2, <3>4, <4>3
    <3> QED BY <3>3, <3>4
  <2> QED BY <2>2, <2>3 DEF WellFormed
<1> QED BY <1>1, <1>2, <1>3, <1>5, ItemFacts DEF t

(* What an answer adds. *)
LEMMA AnswerWire ==
  ASSUME NEW w \in Seq(Items), NEW q \in Queries
  PROVE  LET v == w \o <<Header(q), Payload(q)>>
         IN /\ v \in Seq(Items)
            /\ \A first : WellFormed(w, first) => WellFormed(v, first)
            /\ Headers(v) \subseteq Headers(w) \cup {q}
            /\ Mentioned(v) \subseteq Mentioned(w) \cup {q}
            /\ Broke(v) => Broke(w)
            /\ Distinct(w) /\ q \notin Headers(w) => Distinct(v)
<1> DEFINE v == w \o <<Header(q), Payload(q)>>
           n == Len(w)
<1>1. Header(q) \in Items /\ Payload(q) \in Items
  BY ItemFacts
<1>2. /\ v \in Seq(Items) /\ n \in Nat /\ Len(v) = n + 2
      /\ \A i \in 1 .. n : v[i] = w[i]
      /\ v[n + 1] = Header(q) /\ v[n + 2] = Payload(q)
  BY <1>1
<1> HIDE DEF v
<1>3. \A i \in 1 .. Len(v) : i \in 1 .. n \/ i = n + 1 \/ i = n + 2
  BY <1>2
<1>4. /\ v[n + 1].kind = "header" /\ v[n + 1].query = q
      /\ v[n + 2].kind = "payload" /\ v[n + 2].query = q
  BY <1>2, ItemFacts
<1>5. ASSUME NEW first, WellFormed(w, first) PROVE WellFormed(v, first)
  <2>1. first # NoQuery => Len(v) >= 1 /\ v[1] = Payload(first)
    BY <1>2, <1>5 DEF WellFormed
  <2>2. ASSUME NEW i \in 1 .. Len(v), v[i].kind = "header"
        PROVE  i + 1 <= Len(v) /\ v[i + 1] = Payload(v[i].query)
    <3>1. CASE i \in 1 .. n
      <4>1. i + 1 <= n /\ w[i + 1] = Payload(w[i].query)
        BY <1>2, <1>5, <2>2, <3>1 DEF WellFormed
      <4> QED BY <1>2, <3>1, <4>1
    <3>2. CASE i = n + 1
      BY <1>2, <1>4, <3>2
    <3> QED BY <1>3, <1>4, <2>2, <3>1, <3>2
  <2>3. ASSUME NEW i \in 1 .. Len(v), v[i].kind = "payload"
        PROVE  IF i = 1 THEN first # NoQuery ELSE v[i - 1].kind = "header"
    <3>1. CASE i \in 1 .. n
      <4>1. IF i = 1 THEN first # NoQuery ELSE w[i - 1].kind = "header"
        BY <1>2, <1>5, <2>3, <3>1 DEF WellFormed
      <4>2. i # 1 => i - 1 \in 1 .. n
        BY <1>2, <3>1
      <4> QED BY <1>2, <4>1, <4>2
    <3>2. CASE i = n + 2
      <4>1. i # 1 /\ i - 1 = n + 1
        BY <1>2, <3>2
      <4> QED BY <1>4, <4>1
    <3> QED BY <1>3, <1>4, <2>3, <3>1, <3>2
  <2> QED BY <2>1, <2>2, <2>3 DEF WellFormed
<1>6. Headers(v) \subseteq Headers(w) \cup {q}
  BY <1>2, <1>3, <1>4 DEF Headers
<1>7. Mentioned(v) \subseteq Mentioned(w) \cup {q}
  BY <1>2, <1>3, <1>4 DEF Mentioned
<1>8. Broke(v) => Broke(w)
  BY <1>2, <1>3, <1>4 DEF Broke
<1>9. ASSUME Distinct(w), q \notin Headers(w) PROVE Distinct(v)
  <2> SUFFICES ASSUME NEW i \in 1 .. Len(v), NEW j \in 1 .. Len(v),
                      v[i].kind = "header", v[j].kind = "header", v[i].query = v[j].query
               PROVE  i = j
    BY DEF Distinct
  <2>1. \A k \in 1 .. n : v[k].kind = "header" => v[k].query # q
    BY <1>2, <1>9 DEF Headers
  <2>2. CASE i \in 1 .. n /\ j \in 1 .. n
    BY <1>2, <1>9, <2>2 DEF Distinct
  <2>3. i \notin 1 .. n => i = n + 1
    BY <1>3, <1>4
  <2>4. j \notin 1 .. n => j = n + 1
    BY <1>3, <1>4
  <2> QED BY <1>4, <2>1, <2>2, <2>3, <2>4
<1> QED BY <1>2, <1>5, <1>6, <1>7, <1>8, <1>9 DEF v

(* What an error answer adds. *)
LEMMA ErrorWire ==
  ASSUME NEW w \in Seq(Items), NEW q \in Queries
  PROVE  LET v == Append(w, Error(q))
         IN /\ v \in Seq(Items)
            /\ \A first : WellFormed(w, first) => WellFormed(v, first)
            /\ Headers(v) \subseteq Headers(w)
            /\ Mentioned(v) \subseteq Mentioned(w) \cup {q}
            /\ Distinct(w) => Distinct(v)
<1> DEFINE v == Append(w, Error(q))
           n == Len(w)
<1>1. Error(q) \in Items
  BY ItemFacts
<1>2. /\ v \in Seq(Items) /\ n \in Nat /\ Len(v) = n + 1
      /\ \A i \in 1 .. n : v[i] = w[i]
      /\ v[n + 1] = Error(q)
  BY <1>1
<1> HIDE DEF v
<1>3. \A i \in 1 .. Len(v) : i \in 1 .. n \/ i = n + 1
  BY <1>2
<1>4. v[n + 1].kind = "error" /\ v[n + 1].query = q
  BY <1>2, ItemFacts
<1>5. ASSUME NEW first, WellFormed(w, first) PROVE WellFormed(v, first)
  <2>1. first # NoQuery => Len(v) >= 1 /\ v[1] = Payload(first)
    BY <1>2, <1>5 DEF WellFormed
  <2>2. ASSUME NEW i \in 1 .. Len(v), v[i].kind = "header"
        PROVE  i + 1 <= Len(v) /\ v[i + 1] = Payload(v[i].query)
    <3>1. i \in 1 .. n
      BY <1>3, <1>4, <2>2
    <3>2. i + 1 <= n /\ w[i + 1] = Payload(w[i].query)
      BY <1>2, <1>5, <2>2, <3>1 DEF WellFormed
    <3> QED BY <1>2, <3>1, <3>2
  <2>3. ASSUME NEW i \in 1 .. Len(v), v[i].kind = "payload"
        PROVE  IF i = 1 THEN first # NoQuery ELSE v[i - 1].kind = "header"
    <3>1. i \in 1 .. n
      BY <1>3, <1>4, <2>3
    <3>2. IF i = 1 THEN first # NoQuery ELSE w[i - 1].kind = "header"
      BY <1>2, <1>5, <2>3, <3>1 DEF WellFormed
    <3>3. i # 1 => i - 1 \in 1 .. n
      BY <1>2, <3>1
    <3> QED BY <1>2, <3>2, <3>3
  <2> QED BY <2>1, <2>2, <2>3 DEF WellFormed
<1>6. Headers(v) \subseteq Headers(w)
  BY <1>2, <1>3, <1>4 DEF Headers
<1>7. Mentioned(v) \subseteq Mentioned(w) \cup {q}
  BY <1>2, <1>3, <1>4 DEF Mentioned
<1>8. Distinct(w) => Distinct(v)
  BY <1>2, <1>3, <1>4 DEF Distinct
<1> QED BY <1>2, <1>5, <1>6, <1>7, <1>8 DEF v

(***************************************************************************)
(* What the common parts of the actions preserve.                          *)
(***************************************************************************)

LEMMA TypedOK == Typed <=> TypeOK
BY DEF Typed, TypeOK, LinkStates, ReaderType, AttemptType, CallerType

LEMMA GenerationFacts ==
  ASSUME Typed
  PROVE  /\ generation \in Nat /\ connected \in Nat
         /\ generation # 0 => generation \in Generations
         /\ connected # 0 => connected \in Generations /\ connected <= generation
BY BoundsAssumption DEF Typed, Generations

LEMMA CallerFacts ==
  ASSUME NEW x \in CallerType
  PROVE  /\ x.tries \in 1 .. ReadBlockRetries
         /\ [x EXCEPT !.pc = "failed"] \in CallerType
         /\ [x EXCEPT !.pc = "reconnecting"] \in CallerType
         /\ [x EXCEPT !.pc = "gate"] \in CallerType
         /\ [x EXCEPT !.pc = "pending"] \in CallerType
         /\ [x EXCEPT !.pc = "delay"] \in CallerType
BY DEF CallerType

LEMMA CallerFields ==
  ASSUME NEW x \in CallerType, NEW pc
  PROVE  /\ [x EXCEPT !.pc = pc].pc = pc
         /\ [x EXCEPT !.pc = pc].tries = x.tries
         /\ [x EXCEPT !.pc = pc].data = x.data
BY DEF CallerType

LEMMA AttemptFacts ==
  /\ NoAttempt \in AttemptType /\ NoAttempt.pc = "none"
  /\ [pc |-> "delay", tries |-> 1] \in AttemptType
  /\ [pc |-> "first", tries |-> 1] \in AttemptType
BY RetriesAssumption DEF NoAttempt, AttemptType

(* A promise that rejects sends its caller to the reconnection, or ends it. *)
LEMMA RejectCalls ==
  ASSUME NEW calls \in [Callers -> CallerType], NEW lost \in SUBSET Callers, NEW over \in SUBSET Callers,
         NEW current, NEW links, Reject(calls, lost, over, current, links)
  PROVE  /\ caller' \in [Callers -> CallerType]
         /\ \A c \in Callers : caller'[c].tries = calls[c].tries /\ caller'[c].data = calls[c].data
         /\ \A c \in lost \cup over : \/ caller'[c].pc = "failed"
                                      \/ caller'[c].pc = "reconnecting" /\ calls[c].tries < ReadBlockRetries
         /\ \A c \in Callers : c \notin lost \cup over => caller'[c] = calls[c]
<1> DEFINE giveUp == over \cup {c \in lost : calls[c].tries = ReadBlockRetries}
           retry == lost \ giveUp
<1>1. caller' = [c \in Callers |->
                     CASE c \in giveUp -> [calls[c] EXCEPT !.pc = "failed"]
                       [] c \in retry -> [calls[c] EXCEPT !.pc = "reconnecting"]
                       [] OTHER -> calls[c]]
  BY Zenon DEF Reject
<1>2. /\ \A c \in giveUp : c \in Callers /\ c \notin retry
      /\ \A c \in retry : c \in Callers /\ c \notin giveUp /\ calls[c].tries # ReadBlockRetries
      /\ \A c \in lost \cup over : c \in giveUp \/ c \in retry
      /\ \A c \in Callers : c \notin lost \cup over => c \notin giveUp /\ c \notin retry
  OBVIOUS
<1> HIDE DEF giveUp, retry
<1>3. \A c \in giveUp : caller'[c] = [calls[c] EXCEPT !.pc = "failed"]
  BY <1>1, <1>2
<1>4. \A c \in retry : caller'[c] = [calls[c] EXCEPT !.pc = "reconnecting"]
  BY <1>1, <1>2
<1>5. \A c \in Callers : c \notin giveUp /\ c \notin retry => caller'[c] = calls[c]
  BY <1>1, <1>2
<1>a. \A c \in Callers :
        LET x == [calls[c] EXCEPT !.pc = "failed"]
        IN x \in CallerType /\ x.pc = "failed" /\ x.tries = calls[c].tries /\ x.data = calls[c].data
  BY DEF CallerType
<1>c. \A c \in Callers :
        LET x == [calls[c] EXCEPT !.pc = "reconnecting"]
        IN x \in CallerType /\ x.pc = "reconnecting" /\ x.tries = calls[c].tries /\ x.data = calls[c].data
  BY DEF CallerType
<1>6. ASSUME NEW c \in Callers PROVE caller'[c] \in CallerType /\ caller'[c].tries = calls[c].tries /\ caller'[c].data = calls[c].data
  <2>1. CASE c \in giveUp
    BY <1>2, <1>3, <1>a, <2>1
  <2>2. CASE c \in retry
    BY <1>2, <1>4, <1>c, <2>2
  <2>3. CASE c \notin giveUp /\ c \notin retry
    BY <1>5, <2>3
  <2> QED BY <2>1, <2>2, <2>3
<1>7. caller' \in [Callers -> CallerType]
  <2>1. caller' = [c \in Callers |-> caller'[c]]
    BY <1>1
  <2> QED BY <2>1, <1>6
<1>8. \A c \in giveUp : caller'[c].pc = "failed"
  BY <1>2, <1>3, <1>a
<1>b. \A c \in retry : caller'[c].pc = "reconnecting"
  BY <1>2, <1>4, <1>c
<1>9. \A c \in retry : caller'[c].pc = "reconnecting" /\ calls[c].tries < ReadBlockRetries
  <2> TAKE c \in retry
  <2>1. calls[c].tries \in 1 .. ReadBlockRetries /\ calls[c].tries # ReadBlockRetries
    BY <1>2, CallerFacts
  <2>2. calls[c].tries < ReadBlockRetries
    BY <2>1, RetriesAssumption
  <2> QED BY <1>b, <2>2
<1> QED BY <1>2, <1>5, <1>6, <1>7, <1>8, <1>9

LEMMA RejectLost ==
  ASSUME NEW calls \in [Callers -> CallerType], NEW lost \in SUBSET Callers,
         NEW current, NEW links, Reject(calls, lost, {}, current, links)
  PROVE  /\ caller' \in [Callers -> CallerType]
         /\ \A c \in Callers : caller'[c].tries = calls[c].tries /\ caller'[c].data = calls[c].data
         /\ \A c \in lost : \/ caller'[c].pc = "failed"
                            \/ caller'[c].pc = "reconnecting" /\ calls[c].tries < ReadBlockRetries
         /\ \A c \in Callers : c \notin lost => caller'[c] = calls[c]
<1>1. {} \in SUBSET Callers
  OBVIOUS
<1>2. /\ caller' \in [Callers -> CallerType]
      /\ \A c \in Callers : caller'[c].tries = calls[c].tries /\ caller'[c].data = calls[c].data
      /\ \A c \in lost \cup {} : \/ caller'[c].pc = "failed"
                                 \/ caller'[c].pc = "reconnecting" /\ calls[c].tries < ReadBlockRetries
      /\ \A c \in Callers : c \notin lost \cup {} => caller'[c] = calls[c]
  BY <1>1, RejectCalls, Zenon
<1>3. lost \cup {} = lost
  OBVIOUS
<1> QED BY <1>2, <1>3

(* What a rejection preserves.  `links` are the transports as the event
   leaves them; `current` is the attempt under way, or none if the event
   ends it.                                                                *)
LEMMA RejectLinksInv ==
  ASSUME Typed, Links, pool # "new", UNCHANGED generation,
         NEW calls, NEW lost, NEW over, NEW current \in AttemptType,
         NEW links \in [Generations -> LinkStates],
         current = attempt \/ current = NoAttempt,
         \A g \in Generations : links[g] = link[g] \/ (links[g] = "gone" /\ g <= generation),
         Reject(calls, lost, over, current, links)
  PROVE  /\ Links' /\ pool' # "new"
         /\ pool' \in {"new", "connecting", "in", "left"}
         /\ attempt' \in AttemptType
         /\ link' \in [Generations -> LinkStates]
         /\ connected' \in 0 .. generation' /\ connected' \in {0, connected}
         /\ \A g \in Generations : link'[g] \in {"none", "handshake"} => link'[g] = link[g]
<1>0. /\ current.pc # "none" => current = attempt
      /\ \A g \in Generations : g > generation => links[g] = "none"
  BY AttemptFacts, GenerationFacts, NoGenerationZero DEF Links
<1>1. CASE /\ attempt' = current /\ pool' = pool
           /\ connected' = connected /\ link' = links
  <2>1. /\ attempt'.pc # "none" => connected' = 0
        /\ Awaited' => generation' # 0
        /\ attempt'.pc = "first" => pool' = "connecting"
    BY <1>0, <1>1 DEF Links, Awaited
  <2>2. connected' # 0 => connected' = generation' /\ link'[connected'] \in {"open", "gone"}
    BY <1>1, GenerationFacts DEF Links
  <2> QED BY <1>0, <1>1, <2>1, <2>2 DEF Links, Untouched, Typed
<1>2. CASE /\ connected' = 0 /\ link' = Closing(links)
           /\ \/ pool' = pool
              \/ pool = "in" /\ pool' = "left"
           /\ \/ attempt' = current
              \/ current.pc = "none" /\ attempt' = [pc |-> "delay", tries |-> 1]
  <2>1. /\ attempt'.pc # "none" => connected' = 0
        /\ Awaited' => generation' # 0
        /\ attempt'.pc = "first" => pool' = "connecting"
    <3>1. CASE attempt' = current
      BY <1>0, <1>2, <3>1 DEF Links, Awaited
    <3>2. CASE attempt' = [pc |-> "delay", tries |-> 1]
      BY <1>2, <3>2 DEF Awaited
    <3> QED BY <1>2, <3>1, <3>2
  <2>2. attempt' \in AttemptType
    BY <1>2, AttemptFacts
  <2>3. pool' # "new" /\ pool' \in {"new", "connecting", "in", "left"}
    BY <1>2 DEF Typed
  <2>4. /\ link' \in [Generations -> LinkStates]
        /\ \A g \in Generations : link'[g] \in {"none", "handshake"} => link'[g] = link[g]
    BY <1>2, ClosingType
  <2>5. ASSUME NEW g \in Generations, g > generation' PROVE link'[g] = "none"
    <3>1. g # connected
      BY <2>5, GenerationFacts, NoGenerationZero
    <3> QED BY <1>0, <1>2, <2>5, <3>1, ClosingType
  <2>6. connected' \in 0 .. generation'
    BY <1>2, GenerationFacts
  <2> QED BY <1>2, <2>1, <2>2, <2>3, <2>4, <2>5, <2>6 DEF Links, Untouched
<1> QED BY <1>1, <1>2, RejectLinks

LEMMA CreditKept ==
  ASSUME Typed, Credit, UNCHANGED generation, pool' = pool \/ pool' = "left",
         \/ faults' = faults /\ (Due' => Due \/ (pool # "left" /\ pool' = "left"))
         \/ faults' = faults + 1
  PROVE  Credit'
<1>1. faults \in Nat /\ generation \in Nat
  BY BoundsAssumption, GenerationFacts DEF Typed
<1>2. Spent \in Nat /\ Spent' \in Nat /\ Spent' >= Spent
  BY <1>1 DEF Spent
<1>3. generation <= Spent + 1 /\ (Due => generation <= Spent)
  BY DEF Credit
<1>a. \A g, s, t \in Nat : (g <= s => g <= s + 1) /\ (g <= s + 1 /\ t >= s => g <= t + 1)
  OBVIOUS
<1>4. ASSUME Spent' >= Spent + 1 PROVE Credit'
  <2>1. generation' <= Spent'
    BY <1>1, <1>2, <1>3, <1>4
  <2>2. generation' <= Spent' + 1
    BY <1>1, <1>2, <1>a, <2>1
  <2> QED BY <2>1, <2>2 DEF Credit
<1>5. CASE faults' = faults + 1
  BY <1>1, <1>4, <1>5 DEF Spent
<1>6. CASE faults' = faults /\ pool # "left" /\ pool' = "left"
  BY <1>1, <1>4, <1>6 DEF Spent
<1>7. CASE faults' = faults /\ (Due' => Due)
  <2>1. Due => generation' <= Spent'
    BY <1>1, <1>2, <1>3
  <2>2. generation' <= Spent' + 1
    BY <1>1, <1>2, <1>3, <1>a
  <2>3. Due' => generation' <= Spent'
    BY <1>7, <2>1, Zenon
  <2> QED BY <2>2, <2>3, Zenon DEF Credit
<1> QED BY <1>5, <1>6, <1>7, Zenon

(* Without a fault, only what was due already, or an eviction, can follow. *)
LEMMA RejectCredit ==
  ASSUME Typed, Links, Credit, NEW calls, NEW lost, Reject(calls, lost, {}, attempt, link),
         UNCHANGED <<generation, faults>>,
         lost # {} /\ attempt.pc = "none" => Due,
         connected # 0 /\ Broke(wire'[connected]) => Broke(wire[connected])
  PROVE  Credit'
<1>1. pool' = pool \/ (pool # "left" /\ pool' = "left")
  BY RejectLinks
<1>2. Due' => Due \/ (pool # "left" /\ pool' = "left")
  <2>1. CASE /\ attempt' = attempt /\ connected' = connected /\ link' = link
    BY <2>1 DEF Due
  <2>2. CASE pool = "in" /\ pool' = "left"
    BY <2>2
  <2>3. CASE attempt.pc = "none" /\ lost # {}
    BY <2>3
  <2> QED BY <2>1, <2>2, <2>3, RejectLinks
<1> QED BY <1>1, <1>2, CreditKept

LEMMA KnownKept ==
  ASSUME NEW q \in Queries, Known(q)', backlog' \subseteq backlog,
         \A g \in Generations : asked'[g] \subseteq asked[g] /\ Mentioned(wire'[g]) \subseteq Mentioned(wire[g])
  PROVE  Known(q)
BY DEF Known

(* An event that rejects promises preserves the invariant, when it reads or
   loses messages but sends nothing.                                       *)
LEMMA RejectInv ==
  ASSUME Inv, pool # "new", UNCHANGED generation,
         NEW calls \in [Callers -> CallerType], NEW lost \in SUBSET Callers,
         NEW links \in [Generations -> LinkStates],
         Reject(calls, lost, {}, attempt, links),
         \A g \in Generations : links[g] = link[g] \/ (links[g] = "gone" /\ g <= generation),
         \A c \in Callers : c \notin lost =>
            \/ calls[c] = caller[c]
            \/ calls[c].pc = "done" /\ calls[c].tries = caller[c].tries /\ calls[c].data = <<c, calls[c].tries>>,
         \A c \in lost : calls[c].tries >= caller[c].tries,
         readers' \subseteq readers, waiting' \in BOOLEAN, waiting' = waiting \/ connected = 0,
         asked' \in [Generations -> SUBSET Queries], wire' \in [Generations -> Seq(Items)],
         backlog' \subseteq Queries, faults' \in 0 .. MaxFaults,
         \A g \in Generations : asked'[g] \subseteq asked[g] /\ (wire[g] = <<>> => wire'[g] = <<>>),
         \A r \in readers' : wire'[r.gen] = wire[r.gen],
         connected # 0 => /\ backlog' = backlog
                          /\ Headers(wire'[connected]) \subseteq Headers(wire[connected])
                          /\ Distinct(wire'[connected])
                          /\ ~waiting => WellFormed(wire'[connected], NoQuery),
         \A q \in Queries : Known(q)' => Known(q) \/ (q[1] \in lost /\ q[2] <= calls[q[1]].tries),
         Credit'
  PROVE  Inv' /\ pool' # "new"
<1>1. /\ Links' /\ pool' # "new"
      /\ pool' \in {"new", "connecting", "in", "left"}
      /\ attempt' \in AttemptType
      /\ link' \in [Generations -> LinkStates]
      /\ connected' \in 0 .. generation' /\ connected' \in {0, connected}
      /\ \A g \in Generations : link'[g] \in {"none", "handshake"} => link'[g] = link[g]
  <2>1. attempt \in AttemptType
    BY DEF Inv, Typed
  <2> QED BY <2>1, RejectLinksInv, Zenon DEF Inv
<1>2. /\ caller' \in [Callers -> CallerType]
      /\ \A c \in Callers : caller'[c].tries = calls[c].tries /\ caller'[c].data = calls[c].data
      /\ \A c \in lost : \/ caller'[c].pc = "failed"
                         \/ caller'[c].pc = "reconnecting" /\ calls[c].tries < ReadBlockRetries
      /\ \A c \in Callers : c \notin lost => caller'[c] = calls[c]
  BY RejectLost, Zenon
<1>3. Typed'
  BY <1>1, <1>2 DEF Inv, Typed
<1>4. Fresh'
  BY <1>1 DEF Inv, Fresh, Typed
<1>5. ReadersOK'
  <2>1. connected' # 0 => connected' = connected /\ waiting' = waiting
    BY <1>1
  <2> QED BY <2>1 DEF Inv, ReadersOK
<1>6. Wires'
  <2>1. connected' # 0 => connected' = connected /\ waiting' = waiting
    BY <1>1
  <2> QED BY <2>1 DEF Inv, Wires
<1>7. Outstanding'
  <2>1. connected' # 0 => connected' = connected /\ connected \in Generations
    BY <1>1, GenerationFacts DEF Inv
  <2> QED BY <2>1 DEF Inv, Outstanding
<1>8. Past'
  <2> SUFFICES ASSUME NEW q \in Queries, Known(q)' PROVE Made(q)'
    BY DEF Past
  <2> DEFINE c == q[1]
  <2>1. c \in Callers /\ q[2] \in Nat
    BY QueryFacts
  <2>2. /\ caller[c].tries \in Nat /\ calls[c].tries \in Nat /\ caller'[c].tries = calls[c].tries
    <3>1. caller[c] \in CallerType /\ calls[c] \in CallerType
      BY <2>1 DEF Inv, Typed
    <3>2. caller[c].tries \in 1 .. ReadBlockRetries /\ calls[c].tries \in 1 .. ReadBlockRetries
      BY <3>1, CallerFacts, Zenon
    <3> QED BY <1>2, <2>1, <3>2, RetriesAssumption
  <2>3. Known(q) => q[2] <= caller[c].tries /\ (caller[c].pc \in {"idle", "gate"} => q[2] < caller[c].tries)
    BY DEF Inv, Past, Made
  <2> HIDE DEF c
  <2>4. CASE c \in lost
    <3>1. caller'[c].pc \notin {"idle", "gate"}
      BY <1>2, <2>4
    <3>2. q[2] <= caller'[c].tries
      BY <2>1, <2>2, <2>3, <2>4 DEF c
    <3> QED BY <3>1, <3>2 DEF Made, c
  <2>5. CASE c \notin lost
    <3>1. Known(q)
      BY <2>5 DEF c
    <3>2. caller'[c] = calls[c]
      BY <1>2, <2>1, <2>5
    <3>3. caller'[c] = caller[c] \/ (caller'[c].pc = "done" /\ caller'[c].tries = caller[c].tries)
      BY <2>1, <2>5, <3>2
    <3> QED BY <2>3, <3>1, <3>3 DEF Made, c
  <2> QED BY <2>4, <2>5
<1>9. TriesOK'
  <2> SUFFICES ASSUME NEW c \in Callers, caller'[c].pc \in {"delay", "reconnecting"}
               PROVE  caller'[c].tries < ReadBlockRetries
    BY DEF TriesOK
  <2>1. CASE c \in lost
    BY <1>2, <2>1
  <2>2. CASE c \notin lost
    BY <1>2, <2>2 DEF Inv, TriesOK
  <2> QED BY <2>1, <2>2
<1>10. RightData'
  <2> SUFFICES ASSUME NEW c \in Callers, caller'[c].pc = "done"
               PROVE  caller'[c].data = <<c, caller'[c].tries>>
    BY DEF RightData, Query
  <2>1. c \notin lost /\ caller'[c] = calls[c]
    BY <1>2
  <2> QED BY <2>1 DEF Inv, RightData, Query
<1> QED BY <1>1, <1>3, <1>4, <1>5, <1>6, <1>7, <1>8, <1>9, <1>10 DEF Inv

(***************************************************************************)
(* The coroutine that reads.                                               *)
(***************************************************************************)

LEMMA ThrowInv ==
  ASSUME Inv, pool # "new", NEW r \in readers, Throw(r), UNCHANGED <<generation, asked>>,
         wire' \in [Generations -> Seq(Items)], faults' \in 0 .. MaxFaults,
         \A g \in Generations : /\ wire[g] = <<>> => wire'[g] = <<>>
                                /\ Headers(wire'[g]) \subseteq Headers(wire[g])
                                /\ Mentioned(wire'[g]) \subseteq Mentioned(wire[g])
                                /\ Distinct(wire[g]) => Distinct(wire'[g]),
         Credit'
  PROVE  Inv' /\ pool' # "new"
<1>1. /\ readers' = {} /\ UNCHANGED <<backlog, waiting>>
      /\ Reject(caller, InBacklog, {}, attempt, link)
  BY DEF Throw, RejectAll, Inv, ReadersOK
<1>2. InBacklog \in SUBSET Callers
  BY DEF InBacklog, Pending
<1>3. /\ caller \in [Callers -> CallerType] /\ link \in [Generations -> LinkStates]
      /\ asked' \in [Generations -> SUBSET Queries] /\ backlog' \subseteq Queries /\ waiting' \in BOOLEAN
  BY <1>1 DEF Inv, Typed
<1>4. \A c \in InBacklog : caller[c].tries >= caller[c].tries
  <2> TAKE c \in InBacklog
  <2>1. caller[c] \in CallerType
    BY <1>2, <1>3
  <2>2. caller[c].tries \in 1 .. ReadBlockRetries
    BY <2>1, CallerFacts, Zenon
  <2> QED BY <2>2, RetriesAssumption
<1>5. connected # 0 => /\ waiting /\ Headers(wire'[connected]) \subseteq Headers(wire[connected])
                       /\ Distinct(wire'[connected])
  BY GenerationFacts DEF Inv, ReadersOK, Outstanding
<1>6. \A q \in Queries : Known(q)' => Known(q)
  <2>1. backlog' \subseteq backlog /\ \A g \in Generations : asked'[g] \subseteq asked[g]
    BY <1>1
  <2> QED BY <2>1, KnownKept
<1> HIDE DEF InBacklog
<1> QED BY <1>1, <1>2, <1>3, <1>4, <1>5, <1>6, RejectInv

(* A failed read is due to a failure that is paid for already. *)
LEMMA ThrowDue ==
  ASSUME Inv, NEW r \in readers, Throw(r), UNCHANGED <<generation, faults>>,
         attempt.pc = "none" => Due,
         connected # 0 /\ Broke(wire'[connected]) => Broke(wire[connected])
  PROVE  Credit'
BY RejectCredit DEF Throw, RejectAll, Inv

LEMMA ReaderFacts ==
  ASSUME Inv, NEW r \in readers
  PROVE  /\ r \in ReaderType /\ r.gen \in Generations /\ wire[r.gen] \in Seq(Items)
         /\ r.query \in Queries \cup {NoQuery} /\ r.by \in Queries
         /\ WellFormed(wire[r.gen], r.query)
         /\ r.phase = "header" <=> r.query = NoQuery
         /\ r.phase = "payload" => r.query \in Queries
         /\ readers = {r}
         /\ connected # 0 => r.gen = connected /\ waiting
<1>1. r \in ReaderType
  BY DEF Inv, Typed
<1>2. r.gen \in Generations /\ r.query \in Queries \cup {NoQuery} /\ r.by \in Queries /\ r.phase \in {"header", "payload"}
  BY <1>1 DEF ReaderType
<1> QED BY <1>1, <1>2 DEF Inv, Typed, ReadersOK, Wires

LEMMA ReadEndInv ==
  ASSUME Inv, pool # "new", NEW r \in readers, ReadEnd(r)
  PROVE  Inv' /\ pool' # "new"
<1>1. link[r.gen] = "gone" /\ Throw(r) /\ UNCHANGED <<generation, asked, wire, faults>>
  BY DEF ReadEnd, net
<1>2. attempt.pc = "none" => Due
  BY <1>1, ReaderFacts DEF Due
<1>3. Credit'
  BY <1>1, <1>2, ThrowDue
<1>4. wire' \in [Generations -> Seq(Items)] /\ faults' \in 0 .. MaxFaults
  BY <1>1 DEF Inv, Typed
<1> QED BY <1>1, <1>3, <1>4, ThrowInv

LEMMA FaultFacts ==
  ASSUME Typed, Fault
  PROVE  faults' = faults + 1 /\ faults' \in 0 .. MaxFaults
BY BoundsAssumption DEF Typed, Fault

LEMMA ReadTimeoutInv ==
  ASSUME Inv, pool # "new", NEW r \in readers, ReadTimeout(r)
  PROVE  Inv' /\ pool' # "new"
<1>1. Fault /\ Throw(r) /\ UNCHANGED <<generation, asked, wire>>
  BY DEF ReadTimeout, net
<1>2. pool' = pool \/ pool' = "left"
  BY <1>1, RejectLinks DEF Throw, RejectAll
<1>3. faults' = faults + 1 /\ faults' \in 0 .. MaxFaults
  BY <1>1, FaultFacts DEF Inv
<1>4. Credit'
  BY <1>1, <1>2, <1>3, CreditKept DEF Inv
<1>5. wire' \in [Generations -> Seq(Items)]
  BY <1>1 DEF Inv, Typed
<1> QED BY <1>1, <1>3, <1>4, <1>5, ThrowInv

LEMMA TailStep ==
  ASSUME Inv, NEW h \in Generations, wire[h] # <<>>, wire' = [wire EXCEPT ![h] = Tail(@)]
  PROVE  /\ wire' \in [Generations -> Seq(Items)]
         /\ wire'[h] = Tail(wire[h])
         /\ \A g \in Generations : g # h => wire'[g] = wire[g]
         /\ \A g \in Generations : /\ wire[g] = <<>> => wire'[g] = <<>>
                                   /\ Headers(wire'[g]) \subseteq Headers(wire[g])
                                   /\ Mentioned(wire'[g]) \subseteq Mentioned(wire[g])
                                   /\ Broke(wire'[g]) => Broke(wire[g])
                                   /\ Distinct(wire[g]) => Distinct(wire'[g])
<1>1. wire \in [Generations -> Seq(Items)] /\ wire[h] \in Seq(Items)
  BY DEF Inv, Typed
<1>2. Tail(wire[h]) \in Seq(Items)
  BY <1>1, TailFacts
<1>3. /\ wire' \in [Generations -> Seq(Items)] /\ wire'[h] = Tail(wire[h])
      /\ \A g \in Generations : g # h => wire'[g] = wire[g]
  BY <1>1, <1>2
<1>4. ASSUME NEW g \in Generations
      PROVE  /\ wire[g] = <<>> => wire'[g] = <<>>
             /\ Headers(wire'[g]) \subseteq Headers(wire[g])
             /\ Mentioned(wire'[g]) \subseteq Mentioned(wire[g])
             /\ Broke(wire'[g]) => Broke(wire[g])
             /\ Distinct(wire[g]) => Distinct(wire'[g])
  <2>1. CASE g = h
    BY <1>1, <1>3, <2>1, TailWire
  <2>2. CASE g # h
    BY <1>3, <2>2
  <2> QED BY <2>1, <2>2
<1> QED BY <1>3, <1>4

LEMMA ReadHeaderInv ==
  ASSUME Inv, pool # "new", NEW r \in readers, ReadHeader(r)
  PROVE  Inv' /\ pool' # "new"
<1> DEFINE g == r.gen
           w == wire[g]
           item == Head(w)
<1>1. /\ r.phase = "header" /\ w # <<>>
      /\ wire' = [wire EXCEPT ![g] = Tail(@)]
      /\ UNCHANGED <<generation, asked, faults>>
  BY DEF ReadHeader
<1>2. /\ g \in Generations /\ w \in Seq(Items) /\ r.query = NoQuery /\ WellFormed(w, NoQuery)
      /\ r \in ReaderType /\ readers = {r}
      /\ connected # 0 => g = connected /\ waiting
      /\ r.by \in Queries
  BY <1>1, ReaderFacts
<1>3. /\ wire' \in [Generations -> Seq(Items)]
      /\ wire'[g] = Tail(w)
      /\ \A h \in Generations : h # g => wire'[h] = wire[h]
      /\ \A h \in Generations : /\ wire[h] = <<>> => wire'[h] = <<>>
                                /\ Headers(wire'[h]) \subseteq Headers(wire[h])
                                /\ Mentioned(wire'[h]) \subseteq Mentioned(wire[h])
                                /\ Broke(wire'[h]) => Broke(wire[h])
                                /\ Distinct(wire[h]) => Distinct(wire'[h])
  BY <1>1, <1>2, TailStep
<1>4. item \in Items /\ item.query \in Queries
  <2>1. item \in Items
    BY <1>1, <1>2, TailFacts
  <2> QED BY <2>1 DEF Items
<1>5. CASE item.kind = "header" /\ item.query \in backlog
  <2> DEFINE s == [r EXCEPT !.phase = "payload", !.query = item.query]
  <2>0. /\ backlog' = backlog \ {item.query}
        /\ readers' = (readers \ {r}) \cup {s}
        /\ UNCHANGED <<waiting, connected, link, attempt, caller, pool>>
    BY <1>5, Zenon DEF ReadHeader
  <2>1. /\ backlog' = backlog \ {item.query}
        /\ readers' = {s}
        /\ UNCHANGED <<waiting, connected, link, attempt, caller, pool>>
    BY <1>2, <2>0
  <2>2. s \in ReaderType /\ s.gen = g /\ s.phase = "payload" /\ s.query = item.query
    BY <1>2, <1>4 DEF ReaderType
  <2> HIDE DEF s
  <2>3. /\ WellFormed(wire'[g], item.query) /\ item.query \in Headers(w)
        /\ Distinct(w) => item.query \notin Headers(wire'[g])
    BY <1>1, <1>2, <1>3, <1>5, HeaderWire
  <2>4. Typed'
    BY <1>1, <1>3, <2>1, <2>2 DEF Inv, Typed
  <2>5. Links' /\ TriesOK' /\ RightData' /\ pool' # "new"
    BY <1>1, <2>1 DEF Inv, Links, Untouched, Awaited, TriesOK, RightData, Query
  <2>6. Fresh'
    BY <1>1, <1>3, <2>1 DEF Inv, Fresh
  <2>7. ReadersOK'
    <3>1. item.query # NoQuery
      BY <1>4, QueryFacts
    <3> QED BY <1>2, <2>1, <2>2, <3>1 DEF ReadersOK
  <2>8. Wires'
    BY <1>2, <2>1, <2>2, <2>3 DEF Wires
  <2>9. Outstanding'
    <3> SUFFICES ASSUME connected # 0 PROVE Outstanding'
      BY <2>1 DEF Outstanding
    <3>1. /\ g = connected /\ asked[g] \cup Headers(w) \subseteq backlog
          /\ asked[g] \cap Headers(w) = {} /\ Distinct(w)
      BY <1>2 DEF Inv, Outstanding
    <3>2. item.query \notin asked[g] /\ item.query \notin Headers(wire'[g])
          /\ Headers(wire'[g]) \subseteq Headers(w) /\ Distinct(wire'[g])
      BY <1>2, <1>3, <2>3, <3>1
    <3> QED BY <1>1, <2>1, <3>1, <3>2 DEF Outstanding
  <2>10. Past'
    <3> SUFFICES ASSUME NEW q \in Queries, Known(q)' PROVE Made(q)'
      BY DEF Past
    <3>1. Known(q)
      BY <1>1, <1>3, <2>1, KnownKept
    <3> QED BY <2>1, <3>1 DEF Inv, Past, Made
  <2>11. Credit'
    <3>1. Due' => Due
      BY <1>3, <2>1, GenerationFacts DEF Due, Inv
    <3> QED BY <1>1, <2>1, <3>1, CreditKept DEF Inv
  <2> QED BY <2>4, <2>5, <2>6, <2>7, <2>8, <2>9, <2>10, <2>11 DEF Inv
<1>6. CASE ~ (item.kind = "header" /\ item.query \in backlog)
  <2>1. Throw(r)
    BY <1>6, Zenon DEF ReadHeader
  <2>2. ASSUME attempt.pc = "none" PROVE Due
    <3>1. CASE connected = 0
      BY <2>2, <3>1 DEF Due
    <3>2. CASE connected # 0
      <4>1. g = connected /\ Headers(w) \subseteq backlog
        BY <1>2, <3>2 DEF Inv, Outstanding
      <4>2. item.kind # "header"
        BY <1>1, <1>2, <1>6, <4>1, HeaderWire
      <4>3. item.kind # "payload"
        <5>1. 1 \in 1 .. Len(w) /\ item = w[1]
          BY <1>1, <1>2, TailFacts
        <5> QED BY <1>2, <5>1 DEF WellFormed
      <4>4. item.kind = "error"
        BY <1>4, <4>2, <4>3 DEF Items
      <4>5. Broke(w)
        BY <1>1, <1>2, <4>4, TailWire
      <4> QED BY <2>2, <4>1, <4>5 DEF Due
    <3> QED BY <3>1, <3>2
  <2>3. Credit'
    <3>1. connected # 0 /\ Broke(wire'[connected]) => Broke(wire[connected])
      BY <1>3, GenerationFacts DEF Inv
    <3> QED BY <1>1, <2>1, <2>2, <3>1, ThrowDue
  <2>4. faults' \in 0 .. MaxFaults
    BY <1>1 DEF Inv, Typed
  <2> QED BY <1>1, <1>3, <2>1, <2>3, <2>4, ThrowInv
<1> QED BY <1>5, <1>6

(* Resolving the promise of the query whose payload was read. *)
Resolved(r) ==
  [caller EXCEPT ![r.query[1]] = IF @.pc = "pending" /\ Query(r.query[1]) = r.query
                                 THEN [@ EXCEPT !.pc = "done", !.data = Head(wire[r.gen]).query]
                                 ELSE @]

LEMMA ResolvedFacts ==
  ASSUME Inv, NEW r \in readers, r.phase = "payload"
  PROVE  /\ Resolved(r) \in [Callers -> CallerType]
         /\ \A c \in Callers : Resolved(r)[c].tries = caller[c].tries
         /\ \A c \in Callers :
              \/ Resolved(r)[c] = caller[c]
              \/ /\ Resolved(r)[c].pc = "done"
                 /\ Resolved(r)[c].data = <<c, Resolved(r)[c].tries>>
         /\ \A c \in Pending : Resolved(r)[c].pc = "pending" => Query(c) # r.query
<1> DEFINE c == r.query[1]
           x == [caller[c] EXCEPT !.pc = "done", !.data = Head(wire[r.gen]).query]
<1>1. r.query \in Queries /\ wire[r.gen] \in Seq(Items) /\ WellFormed(wire[r.gen], r.query)
  BY ReaderFacts
<1>2. Head(wire[r.gen]).query = r.query
  BY <1>1, PayloadWire
<1>3. c \in Callers /\ caller[c] \in CallerType /\ caller \in [Callers -> CallerType]
  BY <1>1, QueryFacts DEF Inv, Typed
<1>4. x \in CallerType /\ x.pc = "done" /\ x.tries = caller[c].tries /\ x.data = r.query
  BY <1>1, <1>2, <1>3 DEF CallerType
<1>5. Resolved(r) = [caller EXCEPT ![c] = IF caller[c].pc = "pending" /\ Query(c) = r.query THEN x ELSE caller[c]]
  BY DEF Resolved
<1> HIDE DEF x, c
<1>6. CASE caller[c].pc = "pending" /\ Query(c) = r.query
  <2>1. Resolved(r) = [caller EXCEPT ![c] = x]
    BY <1>5, <1>6
  <2>2. /\ Resolved(r) \in [Callers -> CallerType]
        /\ Resolved(r)[c] = x
        /\ \A d \in Callers : d # c => Resolved(r)[d] = caller[d]
    BY <1>3, <1>4, <2>1
  <2>3. x.data = <<c, x.tries>>
    BY <1>4, <1>6 DEF Query
  <2>4. \A d \in Pending : Resolved(r)[d].pc = "pending" => Query(d) # r.query
    <3> SUFFICES ASSUME NEW d \in Pending, Resolved(r)[d].pc = "pending" PROVE Query(d) # r.query
      OBVIOUS
    <3>1. d \in Callers /\ d # c
      BY <1>4, <2>2 DEF Pending
    <3>2. Query(d)[1] = d /\ Query(c)[1] = c
      BY DEF Query
    <3> QED BY <1>6, <3>1, <3>2
  <2> QED BY <1>4, <2>2, <2>3, <2>4
<1>7. CASE ~ (caller[c].pc = "pending" /\ Query(c) = r.query)
  <2>1. Resolved(r) = caller
    BY <1>3, <1>5, <1>7
  <2>2. \A d \in Pending : Query(d) # r.query
    <3> SUFFICES ASSUME NEW d \in Pending, Query(d) = r.query PROVE FALSE
      OBVIOUS
    <3>1. Query(d)[1] = d /\ caller[d].pc = "pending"
      BY DEF Query, Pending
    <3>2. d = c
      BY <3>1 DEF c
    <3> QED BY <1>7, <3>1, <3>2
  <2> QED BY <1>3, <2>1, <2>2
<1> QED BY <1>6, <1>7

LEMMA ReadPayloadParts ==
  ASSUME NEW r, ReadPayload(r)
  PROVE  /\ r.phase = "payload" /\ wire[r.gen] # <<>>
         /\ wire' = [wire EXCEPT ![r.gen] = Tail(@)]
         /\ waiting' = (backlog # {})
         /\ \/ /\ backlog = {} \/ connected # 0
               /\ readers' = (readers \ {r}) \cup (IF backlog = {} THEN {} ELSE {Reader(connected, r.query)})
               /\ caller' = Resolved(r)
               /\ UNCHANGED <<connected, link, attempt, pool>>
            \/ /\ backlog # {} /\ connected = 0
               /\ readers' = readers \ {r}
               /\ Reject(Resolved(r), InBacklog, {}, attempt, link)
         /\ UNCHANGED <<generation, asked, backlog, faults>>
BY Zenon DEF ReadPayload, Resolved, RejectAll

LEMMA ReadPayloadInv ==
  ASSUME Inv, pool # "new", NEW r \in readers, ReadPayload(r)
  PROVE  Inv' /\ pool' # "new"
<1> DEFINE g == r.gen
           w == wire[g]
           done == Resolved(r)
<1>1. /\ r.phase = "payload" /\ w # <<>>
      /\ wire' = [wire EXCEPT ![g] = Tail(@)]
      /\ waiting' = (backlog # {})
      /\ UNCHANGED <<generation, asked, backlog, faults>>
  BY ReadPayloadParts
<1>2. /\ g \in Generations /\ w \in Seq(Items) /\ r.query \in Queries /\ WellFormed(w, r.query)
      /\ r \in ReaderType /\ readers = {r}
      /\ connected # 0 => g = connected /\ waiting
  BY <1>1, ReaderFacts
<1>3. /\ wire' \in [Generations -> Seq(Items)]
      /\ wire'[g] = Tail(w)
      /\ \A h \in Generations : h # g => wire'[h] = wire[h]
      /\ \A h \in Generations : /\ wire[h] = <<>> => wire'[h] = <<>>
                                /\ Headers(wire'[h]) \subseteq Headers(wire[h])
                                /\ Mentioned(wire'[h]) \subseteq Mentioned(wire[h])
                                /\ Broke(wire'[h]) => Broke(wire[h])
                                /\ Distinct(wire[h]) => Distinct(wire'[h])
  BY <1>1, <1>2, TailStep
<1>4. WellFormed(wire'[g], NoQuery)
  BY <1>2, <1>3, PayloadWire
<1>5. /\ done \in [Callers -> CallerType]
      /\ \A c \in Callers : done[c].tries = caller[c].tries
      /\ \A c \in Callers : \/ done[c] = caller[c]
                            \/ done[c].pc = "done" /\ done[c].data = <<c, done[c].tries>>
  BY <1>1, ResolvedFacts
<1>6. \A q \in Queries : Known(q)' => Known(q)
  BY <1>1, <1>3, KnownKept
<1>7. connected # 0 => connected \in Generations
  BY GenerationFacts DEF Inv
<1> HIDE DEF done
<1>8. CASE /\ backlog = {} \/ connected # 0
           /\ readers' = (readers \ {r}) \cup (IF backlog = {} THEN {} ELSE {Reader(connected, r.query)})
           /\ caller' = done
           /\ UNCHANGED <<connected, link, attempt, pool>>
  <2> DEFINE s == Reader(connected, r.query)
  <2>1. \A x \in readers' : x = s /\ backlog # {} /\ connected # 0
    BY <1>2, <1>8
  <2>2. s.gen = connected /\ s.phase = "header" /\ s.query = NoQuery
    BY DEF Reader
  <2>3. connected # 0 => s \in ReaderType
    BY <1>2, <1>7 DEF Reader, ReaderType
  <2> HIDE DEF s
  <2>4. Typed'
    <3>1. readers' \subseteq ReaderType
      BY <2>1, <2>3
    <3>2. waiting' \in BOOLEAN
      BY <1>1
    <3> QED BY <1>1, <1>3, <1>5, <1>8, <3>1, <3>2 DEF Inv, Typed
  <2>5. Links' /\ pool' # "new"
    BY <1>1, <1>8 DEF Inv, Links, Untouched, Awaited
  <2>6. TriesOK'
    BY <1>5, <1>8 DEF Inv, TriesOK
  <2>7. RightData'
    BY <1>5, <1>8 DEF Inv, RightData, Query
  <2>8. Fresh'
    BY <1>1, <1>3, <1>8 DEF Inv, Fresh
  <2>9. ReadersOK'
    BY <1>1, <1>8, <2>1, <2>2 DEF ReadersOK
  <2>10. Wires'
    BY <1>2, <1>4, <1>8, <2>1, <2>2 DEF Wires
  <2>11. Outstanding'
    BY <1>1, <1>3, <1>7, <1>8 DEF Inv, Outstanding
  <2>12. Past'
    <3> SUFFICES ASSUME NEW q \in Queries, Known(q)' PROVE Made(q)'
      BY DEF Past
    <3>1. Known(q) /\ q[1] \in Callers
      BY <1>6, QueryFacts
    <3>2. q[2] <= caller[q[1]].tries /\ (caller[q[1]].pc \in {"idle", "gate"} => q[2] < caller[q[1]].tries)
      BY <3>1 DEF Inv, Past, Made
    <3>3. caller'[q[1]].tries = caller[q[1]].tries
          /\ (caller'[q[1]].pc \in {"idle", "gate"} => caller[q[1]].pc \in {"idle", "gate"})
      BY <1>5, <1>8, <3>1
    <3> QED BY <3>2, <3>3 DEF Made
  <2>13. Credit'
    <3>1. Due' => Due
      BY <1>3, <1>7, <1>8 DEF Due
    <3> QED BY <1>1, <1>8, <3>1, CreditKept DEF Inv
  <2> QED BY <2>4, <2>5, <2>6, <2>7, <2>8, <2>9, <2>10, <2>11, <2>12, <2>13 DEF Inv
<1>9. CASE /\ backlog # {} /\ connected = 0
           /\ readers' = readers \ {r}
           /\ Reject(done, InBacklog, {}, attempt, link)
  <2>1. InBacklog \in SUBSET Callers
    BY DEF InBacklog, Pending
  <2>2. readers' = {} /\ waiting' \in BOOLEAN
    BY <1>1, <1>2, <1>9
  <2>3. \A c \in InBacklog : done[c].tries >= caller[c].tries
    <3> TAKE c \in InBacklog
    <3>1. done[c] \in CallerType /\ done[c].tries = caller[c].tries
      BY <1>5, <2>1
    <3>2. done[c].tries \in 1 .. ReadBlockRetries
      BY <3>1, CallerFacts, Zenon
    <3> QED BY <3>1, <3>2, RetriesAssumption
  <2>4. Credit'
    <3>1. attempt.pc = "none" => Due
      BY <1>9 DEF Due
    <3> QED BY <1>1, <1>9, <3>1, RejectCredit DEF Inv
  <2>5. /\ link \in [Generations -> LinkStates]
        /\ asked' \in [Generations -> SUBSET Queries] /\ backlog' \subseteq Queries /\ faults' \in 0 .. MaxFaults
    BY <1>1 DEF Inv, Typed
  <2> HIDE DEF InBacklog
  <2> QED BY <1>1, <1>3, <1>5, <1>6, <1>9, <2>1, <2>2, <2>3, <2>4, <2>5, RejectInv
<1> QED BY <1>8, <1>9, ReadPayloadParts DEF done

(***************************************************************************)
(* The server and the network.                                             *)
(***************************************************************************)

(* An answer to q, or an error, takes q from what the transport g has to
   answer and is well formed.                                              *)
LEMMA AnsweredInv ==
  ASSUME Inv, pool # "new", NEW g \in Generations, NEW q \in Queries, NEW v \in Seq(Items),
         link[g] \in {"open", "closing"}, q \in asked[g],
         asked' = [asked EXCEPT ![g] = @ \ {q}], wire' = [wire EXCEPT ![g] = v],
         UNCHANGED <<generation, connected, link, backlog, waiting, readers, attempt, caller, pool>>,
         faults' \in 0 .. MaxFaults,
         \A first : WellFormed(wire[g], first) => WellFormed(v, first),
         Headers(v) \subseteq Headers(wire[g]) \cup {q},
         Mentioned(v) \subseteq Mentioned(wire[g]) \cup {q},
         Distinct(wire[g]) /\ q \notin Headers(wire[g]) => Distinct(v),
         Credit'
  PROVE  Inv' /\ pool' # "new"
<1>1. /\ asked' \in [Generations -> SUBSET Queries] /\ wire' \in [Generations -> Seq(Items)]
      /\ asked'[g] = asked[g] \ {q} /\ wire'[g] = v
      /\ \A h \in Generations : h # g => asked'[h] = asked[h] /\ wire'[h] = wire[h]
  BY DEF Inv, Typed
<1>2. Typed'
  BY <1>1 DEF Inv, Typed
<1>3. Links' /\ TriesOK' /\ RightData' /\ ReadersOK'
  BY DEF Inv, Links, Untouched, Awaited, TriesOK, RightData, Query, ReadersOK
<1>4. Fresh'
  BY <1>1 DEF Inv, Fresh
<1>5. Wires'
  <2>1. \A h \in Generations : \A first : WellFormed(wire[h], first) => WellFormed(wire'[h], first)
    BY <1>1
  <2>2. \A r \in readers : r.gen \in Generations
    BY ReaderFacts
  <2> QED BY <2>1, <2>2, GenerationFacts DEF Inv, Wires
<1>6. Outstanding'
  <2> SUFFICES ASSUME connected # 0 PROVE Outstanding'
    BY DEF Outstanding
  <2>1. CASE connected = g
    BY <1>1, <2>1 DEF Inv, Outstanding
  <2>2. CASE connected # g
    BY <1>1, <2>2, GenerationFacts DEF Inv, Outstanding
  <2> QED BY <2>1, <2>2
<1>7. Past'
  <2> SUFFICES ASSUME NEW p \in Queries, Known(p)' PROVE Made(p)'
    BY DEF Past
  <2>1. Known(p)
    BY <1>1 DEF Known
  <2> QED BY <2>1 DEF Inv, Past, Made
<1> QED BY <1>2, <1>3, <1>4, <1>5, <1>6, <1>7 DEF Inv

LEMMA AnswerInv ==
  ASSUME Inv, pool # "new", NEW g \in Generations, NEW q \in Queries, Answer(g, q)
  PROVE  Inv' /\ pool' # "new"
<1> DEFINE v == wire[g] \o <<Header(q), Payload(q)>>
<1>1. /\ link[g] \in {"open", "closing"} /\ q \in asked[g]
      /\ asked' = [asked EXCEPT ![g] = @ \ {q}] /\ wire' = [wire EXCEPT ![g] = v]
      /\ UNCHANGED <<generation, connected, link, backlog, waiting, readers, attempt, caller, pool, faults>>
  BY DEF Answer, Header, Payload, reading
<1>2. wire[g] \in Seq(Items) /\ wire \in [Generations -> Seq(Items)] /\ faults' \in 0 .. MaxFaults
  BY <1>1 DEF Inv, Typed
<1>3. /\ v \in Seq(Items)
      /\ \A first : WellFormed(wire[g], first) => WellFormed(v, first)
      /\ Headers(v) \subseteq Headers(wire[g]) \cup {q}
      /\ Mentioned(v) \subseteq Mentioned(wire[g]) \cup {q}
      /\ Broke(v) => Broke(wire[g])
      /\ Distinct(wire[g]) /\ q \notin Headers(wire[g]) => Distinct(v)
  BY <1>2, AnswerWire
<1> HIDE DEF v
<1>4. Credit'
  <2>1. connected # 0 => (Broke(wire'[connected]) => Broke(wire[connected]))
    BY <1>1, <1>2, <1>3, GenerationFacts DEF Inv
  <2>2. Due' => Due
    BY <1>1, <2>1 DEF Due
  <2> QED BY <1>1, <2>2, CreditKept DEF Inv
<1> QED BY <1>1, <1>2, <1>3, <1>4, AnsweredInv

LEMMA AnswerErrorInv ==
  ASSUME Inv, pool # "new", NEW g \in Generations, NEW q \in Queries, AnswerError(g, q)
  PROVE  Inv' /\ pool' # "new"
<1> DEFINE v == Append(wire[g], Error(q))
<1>1. /\ link[g] \in {"open", "closing"} /\ q \in asked[g] /\ Fault
      /\ asked' = [asked EXCEPT ![g] = @ \ {q}] /\ wire' = [wire EXCEPT ![g] = v]
      /\ UNCHANGED <<generation, connected, link, backlog, waiting, readers, attempt, caller, pool>>
  BY DEF AnswerError, Error, reading
<1>2. wire[g] \in Seq(Items) /\ faults' = faults + 1 /\ faults' \in 0 .. MaxFaults
  BY <1>1, FaultFacts DEF Inv, Typed
<1>3. /\ v \in Seq(Items)
      /\ \A first : WellFormed(wire[g], first) => WellFormed(v, first)
      /\ Headers(v) \subseteq Headers(wire[g])
      /\ Mentioned(v) \subseteq Mentioned(wire[g]) \cup {q}
      /\ Distinct(wire[g]) => Distinct(v)
  BY <1>2, ErrorWire
<1> HIDE DEF v
<1>4. Credit'
  BY <1>1, <1>2, CreditKept DEF Inv
<1>5. Headers(v) \subseteq Headers(wire[g]) \cup {q}
  BY <1>3
<1> QED BY <1>1, <1>2, <1>3, <1>4, <1>5, AnsweredInv

LEMMA ServerCloseInv ==
  ASSUME Inv, pool # "new", NEW g \in Generations, ServerClose(g)
  PROVE  Inv' /\ pool' # "new"
<1>1. /\ \/ link[g] = "closing" /\ UNCHANGED faults
         \/ link[g] = "open" /\ Fault
      /\ link' = [link EXCEPT ![g] = "gone"]
      /\ asked' = [asked EXCEPT ![g] = {}]
      /\ UNCHANGED <<generation, connected, wire, backlog, waiting, readers, attempt, caller, pool>>
  BY DEF ServerClose, reading
<1>2. /\ link' \in [Generations -> LinkStates] /\ link'[g] = "gone"
      /\ asked' \in [Generations -> SUBSET Queries] /\ asked'[g] = {}
      /\ \A h \in Generations : h # g => link'[h] = link[h] /\ asked'[h] = asked[h]
  BY <1>1 DEF Inv, Typed, LinkStates
<1>3. faults' \in 0 .. MaxFaults
  BY <1>1, FaultFacts DEF Inv, Typed
<1>4. Typed'
  BY <1>1, <1>2, <1>3 DEF Inv, Typed
<1>5. Links' /\ pool' # "new"
  <2>1. ASSUME NEW h \in Generations, h > generation PROVE link'[h] = "none"
    <3>1. link[h] = "none"
      BY <2>1 DEF Inv, Links
    <3> QED BY <1>1, <1>2, <3>1
  <2>2. connected # 0 => link'[connected] \in {"open", "gone"}
    BY <1>2, GenerationFacts DEF Inv, Links
  <2> QED BY <1>1, <2>1, <2>2 DEF Inv, Links, Untouched, Awaited
<1>6. Fresh'
  BY <1>1, <1>2 DEF Inv, Fresh
<1>7. ReadersOK' /\ Wires' /\ TriesOK' /\ RightData'
  BY <1>1 DEF Inv, ReadersOK, Wires, TriesOK, RightData, Query
<1>8. \A h \in Generations : asked'[h] \subseteq asked[h]
  BY <1>2
<1>9. Outstanding'
  BY <1>1, <1>8, GenerationFacts DEF Inv, Outstanding
<1>10. Past'
  <2> SUFFICES ASSUME NEW q \in Queries, Known(q)' PROVE Made(q)'
    BY DEF Past
  <2>1. Known(q)
    BY <1>1, <1>8 DEF Known
  <2> QED BY <1>1, <2>1 DEF Inv, Past, Made
<1>11. Credit'
  <2>1. CASE Fault
    BY <1>1, <2>1, FaultFacts, CreditKept DEF Inv
  <2>2. CASE link[g] = "closing" /\ UNCHANGED faults
    <3>1. connected # 0 => link'[connected] = link[connected]
      BY <1>2, <2>2, GenerationFacts DEF Inv, Links
    <3>2. Due' => Due
      BY <1>1, <3>1 DEF Due
    <3> QED BY <1>1, <2>2, <3>2, CreditKept DEF Inv
  <2> QED BY <1>1, <2>1, <2>2
<1> QED BY <1>4, <1>5, <1>6, <1>7, <1>9, <1>10, <1>11 DEF Inv

LEMMA OwnCalls ==
  ASSUME Inv
  PROVE  /\ caller \in [Callers -> CallerType] /\ link \in [Generations -> LinkStates]
         /\ \A c \in Callers : caller[c].tries >= caller[c].tries
<1>1. caller \in [Callers -> CallerType] /\ link \in [Generations -> LinkStates]
  BY DEF Inv, Typed
<1>2. ASSUME NEW c \in Callers PROVE caller[c].tries >= caller[c].tries
  <2>1. caller[c] \in CallerType
    BY <1>1
  <2>2. caller[c].tries \in 1 .. ReadBlockRetries
    BY <2>1, CallerFacts, Zenon
  <2> QED BY <2>2, RetriesAssumption
<1> QED BY <1>1, <1>2

LEMMA TransportErrorInv ==
  ASSUME Inv, pool # "new", NEW g \in Generations, TransportError(g)
  PROVE  Inv' /\ pool' # "new"
<1> DEFINE lost == IF g = connected \/ readers # readers' THEN InBacklog ELSE {}
           links == [link EXCEPT ![g] = "gone"]
<1>1. /\ link[g] \in {"open", "closing"} /\ Fault
      /\ wire' = [wire EXCEPT ![g] = <<>>]
      /\ asked' = [asked EXCEPT ![g] = {}]
      /\ readers' = {r \in readers : r.gen # g}
      /\ Reject(caller, lost, {}, attempt, links)
      /\ UNCHANGED <<generation, backlog, waiting>>
  BY DEF TransportError
<1>2. lost \in SUBSET Callers
  BY DEF InBacklog, Pending
<1>3. links \in [Generations -> LinkStates]
      /\ \A h \in Generations : links[h] = link[h] \/ (links[h] = "gone" /\ h <= generation)
  <2>1. g <= generation
    BY <1>1, GenerationFacts, NoGenerationZero DEF Inv, Links
  <2> QED BY <2>1, OwnCalls, GoneLinks
<1> HIDE DEF lost, links
<1>4. /\ wire' \in [Generations -> Seq(Items)] /\ wire'[g] = <<>>
      /\ asked' \in [Generations -> SUBSET Queries] /\ asked'[g] = {}
      /\ \A h \in Generations : h # g => wire'[h] = wire[h] /\ asked'[h] = asked[h]
  BY <1>1, EmptyWire DEF Inv, Typed
<1>5. \A h \in Generations : /\ asked'[h] \subseteq asked[h]
                             /\ wire[h] = <<>> => wire'[h] = <<>>
                             /\ Headers(wire'[h]) \subseteq Headers(wire[h])
                             /\ Mentioned(wire'[h]) \subseteq Mentioned(wire[h])
                             /\ Distinct(wire[h]) => Distinct(wire'[h])
                             /\ WellFormed(wire[h], NoQuery) => WellFormed(wire'[h], NoQuery)
  <2> TAKE h \in Generations
  <2>1. CASE h = g
    BY <1>4, <2>1, EmptyWire
  <2>2. CASE h # g
    BY <1>4, <2>2
  <2> QED BY <2>1, <2>2
<1>6. readers' \subseteq readers /\ \A r \in readers' : wire'[r.gen] = wire[r.gen]
  <2>1. readers' \subseteq readers /\ \A r \in readers' : r.gen # g
    BY <1>1
  <2>2. \A r \in readers : r.gen \in Generations
    BY ReaderFacts
  <2> QED BY <1>4, <2>1, <2>2
<1>7. faults' = faults + 1 /\ faults' \in 0 .. MaxFaults
  BY <1>1, FaultFacts DEF Inv
<1>8. Credit'
  <2>1. pool' = pool \/ pool' = "left"
    BY <1>1, RejectLinks
  <2> QED BY <1>1, <1>7, <2>1, CreditKept DEF Inv
<1>9. \A q \in Queries : Known(q)' => Known(q)
  BY <1>1, <1>5, KnownKept
<1>10. waiting' = waiting /\ waiting' \in BOOLEAN /\ backlog' = backlog /\ backlog' \subseteq Queries
  BY <1>1 DEF Inv, Typed
<1>11. connected # 0 => /\ Headers(wire'[connected]) \subseteq Headers(wire[connected])
                        /\ Distinct(wire'[connected])
                        /\ ~waiting => WellFormed(wire'[connected], NoQuery)
  BY <1>5, GenerationFacts DEF Inv, Outstanding, Wires
<1> QED BY <1>1, <1>2, <1>3, <1>4, <1>5, <1>6, <1>7, <1>8, <1>9, <1>10, <1>11, OwnCalls, RejectInv

LEMMA WriteTimeoutInv ==
  ASSUME Inv, pool # "new", NEW c \in Callers, WriteTimeout(c)
  PROVE  Inv' /\ pool' # "new"
<1>1. /\ Fault /\ Reject(caller, {c}, {}, attempt, link)
      /\ UNCHANGED <<generation, asked, wire, backlog, waiting, readers>>
  BY DEF WriteTimeout, net, reading
<1>2. faults' = faults + 1 /\ faults' \in 0 .. MaxFaults
  BY <1>1, FaultFacts DEF Inv
<1>3. Credit'
  <2>1. pool' = pool \/ pool' = "left"
    BY <1>1, RejectLinks
  <2> QED BY <1>1, <1>2, <2>1, CreditKept DEF Inv
<1>4. \A q \in Queries : Known(q)' => Known(q)
  BY <1>1 DEF Known
<1>5. /\ asked' \in [Generations -> SUBSET Queries] /\ wire' \in [Generations -> Seq(Items)]
      /\ backlog' \subseteq Queries /\ waiting' \in BOOLEAN
  BY <1>1 DEF Inv, Typed
<1>6. connected # 0 => /\ Distinct(wire'[connected])
                       /\ ~waiting => WellFormed(wire'[connected], NoQuery)
  BY <1>1 DEF Inv, Outstanding, Wires
<1>7. {c} \in SUBSET Callers
  OBVIOUS
<1> QED BY <1>1, <1>2, <1>3, <1>4, <1>5, <1>6, <1>7, OwnCalls, RejectInv

(***************************************************************************)
(* Connecting and disconnecting.                                           *)
(***************************************************************************)

(* Steps that end an attempt, a transport or the membership in the pool,
   and send or read nothing, preserve the invariant.                       *)
LEMMA SettledInv ==
  ASSUME Inv, UNCHANGED <<generation, asked, wire, readers>>,
         \/ UNCHANGED <<backlog, waiting>>
         \/ backlog' = {} /\ waiting' = FALSE /\ connected = 0 /\ readers = {},
         Links', Credit',
         pool' \in {"new", "connecting", "in", "left"}, attempt' \in AttemptType,
         link' \in [Generations -> LinkStates], faults' \in 0 .. MaxFaults,
         connected' \in {0, connected},
         \A g \in Generations : link'[g] \in {"none", "handshake"} => link'[g] = link[g],
         caller' \in [Callers -> CallerType],
         \A c \in Callers : /\ caller'[c].tries = caller[c].tries
                            /\ caller'[c].pc \in {"idle", "gate", "done"} => caller'[c] = caller[c],
         TriesOK'
  PROVE  Inv'
<1>1. Typed'
  <2>1. backlog' \subseteq Queries /\ waiting' \in BOOLEAN
    BY DEF Inv, Typed
  <2>2. connected' \in 0 .. generation'
    BY GenerationFacts DEF Inv, Typed
  <2> QED BY <2>1, <2>2 DEF Inv, Typed
<1>2. Fresh'
  BY DEF Inv, Fresh
<1>3. ReadersOK' /\ Wires' /\ Outstanding'
  <2>1. connected' # 0 => connected' = connected /\ UNCHANGED <<backlog, waiting>>
    OBVIOUS
  <2> QED BY <2>1 DEF Inv, ReadersOK, Wires, Outstanding
<1>4. Past'
  <2> SUFFICES ASSUME NEW q \in Queries, Known(q)' PROVE Made(q)'
    BY DEF Past
  <2>1. Known(q) /\ q[1] \in Callers
    BY QueryFacts DEF Known
  <2>2. q[2] <= caller[q[1]].tries /\ (caller[q[1]].pc \in {"idle", "gate"} => q[2] < caller[q[1]].tries)
    BY <2>1 DEF Inv, Past, Made
  <2> QED BY <2>1, <2>2 DEF Made
<1>5. RightData'
  BY DEF Inv, RightData, Query
<1> QED BY <1>1, <1>2, <1>3, <1>4, <1>5 DEF Inv

LEMMA DisconnectInv ==
  ASSUME Inv, Disconnect
  PROVE  Inv' /\ pool' # "new"
<1>1. /\ pool = "in" /\ pool' = "left" /\ connected' = 0 /\ link' = Closing(link)
      /\ UNCHANGED <<generation, asked, wire, backlog, waiting, readers, attempt, caller, faults>>
  BY DEF Disconnect, net, reading
<1>2. /\ link' \in [Generations -> LinkStates]
      /\ \A g \in Generations : link'[g] \in {"none", "handshake"} => link'[g] = link[g]
  BY <1>1, OwnCalls, ClosingType
<1>3. Links'
  <2>1. ASSUME NEW g \in Generations, g > generation PROVE link'[g] = "none"
    <3>1. g # connected
      BY <2>1, GenerationFacts, NoGenerationZero DEF Inv
    <3>2. link'[g] = link[g]
      BY <1>1, <3>1, OwnCalls, ClosingType
    <3> QED BY <2>1, <3>2 DEF Inv, Links
  <2> QED BY <1>1, <2>1 DEF Inv, Links, Untouched, Awaited
<1>4. Credit'
  BY <1>1, CreditKept DEF Inv
<1>5. TriesOK' /\ caller' \in [Callers -> CallerType] /\ attempt' \in AttemptType /\ faults' \in 0 .. MaxFaults
  BY <1>1 DEF Inv, TriesOK, Typed
<1> QED BY <1>1, <1>2, <1>3, <1>4, <1>5, SettledInv

LEMMA LateInv ==
  ASSUME Inv, pool # "new", NEW g \in Generations, Late(g), NEW x \in {"gone", "closing"},
         link' = [link EXCEPT ![g] = x],
         UNCHANGED <<generation, connected, asked, wire, readers, attempt, caller, pool, faults>>,
         \/ UNCHANGED <<backlog, waiting>>
         \/ backlog' = {} /\ waiting' = FALSE /\ g = generation /\ readers = {}
  PROVE  Inv' /\ pool' # "new"
<1>1. /\ link' \in [Generations -> LinkStates] /\ link'[g] = x
      /\ \A h \in Generations : h # g => link'[h] = link[h]
  BY DEF Inv, Typed, LinkStates
<1>2. connected # 0 => connected # g /\ connected \in Generations
  BY GenerationFacts DEF Inv, Links, Late
<1>3. Links'
  <2>1. ASSUME NEW h \in Generations, h > generation PROVE link'[h] = "none"
    <3>1. link[h] = "none"
      BY <2>1 DEF Inv, Links
    <3> QED BY <1>1, <3>1 DEF Late
  <2> QED BY <1>1, <1>2, <2>1 DEF Inv, Links, Untouched, Awaited
<1>4. Credit'
  <2>1. Due' => Due
    BY <1>1, <1>2 DEF Due
  <2> QED BY <2>1, CreditKept DEF Inv
<1>5. \/ UNCHANGED <<backlog, waiting>>
      \/ backlog' = {} /\ waiting' = FALSE /\ connected = 0 /\ readers = {}
  BY <1>2 DEF Inv, Links
<1>6. /\ TriesOK' /\ caller' \in [Callers -> CallerType] /\ attempt' \in AttemptType
      /\ faults' \in 0 .. MaxFaults /\ pool' \in {"new", "connecting", "in", "left"}
  BY DEF Inv, TriesOK, Typed
<1>7. \A h \in Generations : link'[h] \in {"none", "handshake"} => link'[h] = link[h]
  BY <1>1
<1> QED BY <1>3, <1>1, <1>4, <1>5, <1>6, <1>7, SettledInv

LEMMA LateConnectInv ==
  ASSUME ~LateClose, Inv, pool # "new", NEW g \in Generations, LateConnect(g) \/ LateConnectFail(g)
  PROVE  Inv' /\ pool' # "new"
<1>1. /\ Late(g) /\ UNCHANGED <<generation, connected, asked, wire, readers, attempt, caller, pool, faults>>
      /\ link' = [link EXCEPT ![g] = "gone"] \/ link' = [link EXCEPT ![g] = "closing"]
      /\ \/ UNCHANGED <<backlog, waiting>>
         \/ backlog' = {} /\ waiting' = FALSE /\ g = generation /\ readers = {}
  BY DEF LateConnect, LateConnectFail, Timely, net, reading
<1>2. "gone" \in {"gone", "closing"} /\ "closing" \in {"gone", "closing"}
  OBVIOUS
<1> QED BY <1>1, <1>2, LateInv

(* The attempt rejects, in time or because it takes too long. *)
LEMMA AttemptRejectsInv ==
  ASSUME Inv, pool # "new", Awaited, Fault, NEW links \in [Generations -> LinkStates],
         \A g \in Generations : links[g] = link[g] \/ (links[g] = "gone" /\ g <= generation),
         AttemptRejects(links), UNCHANGED <<generation, asked, wire, backlog, waiting, readers>>
  PROVE  Inv' /\ pool' # "new"
<1>1. /\ connected = 0 /\ attempt.pc \in {"first", "connecting"} /\ attempt \in AttemptType
      /\ caller \in [Callers -> CallerType] /\ pool \in {"new", "connecting", "in", "left"}
      /\ generation # 0 /\ TriesOK
      /\ \A g \in Generations : g > generation => links[g] = "none"
      /\ \A g \in Generations : links[g] \in {"none", "handshake"} => links[g] = link[g]
  BY GenerationFacts, NoGenerationZero DEF Inv, Links, Awaited, Typed
<1>2. faults' = faults + 1 /\ faults' \in 0 .. MaxFaults
  BY FaultFacts DEF Inv
<1>3. ASSUME pool' = pool \/ pool' = "left" PROVE Credit'
  BY <1>2, <1>3, CreditKept DEF Inv
<1>4. CASE attempt.pc = "first"
  <2>1. attempt' = NoAttempt /\ pool' = "left" /\ link' = links /\ UNCHANGED <<connected, caller>>
    BY <1>4, Zenon DEF AttemptRejects
  <2>2. Links'
    BY <1>1, <2>1, AttemptFacts DEF Links, Untouched, Awaited
  <2>3. TriesOK'
    BY <1>1, <2>1 DEF TriesOK
  <2>4. attempt' \in AttemptType /\ Credit'
    BY <1>3, <2>1, AttemptFacts
  <2>5. Inv'
    BY <1>1, <1>2, <2>1, <2>2, <2>3, <2>4, SettledInv
  <2> QED BY <2>1, <2>5
<1>5. CASE attempt.pc # "first" /\ attempt.pc = "connecting" /\ attempt.tries < ReconnectRetry
  <2>1. /\ attempt' = [pc |-> "delay", tries |-> attempt.tries + 1] /\ link' = links
        /\ UNCHANGED <<connected, caller, pool>>
    BY <1>5, Zenon DEF AttemptRejects
  <2>2. Links'
    BY <1>1, <2>1 DEF Links, Untouched, Awaited
  <2>3. TriesOK'
    BY <1>1, <2>1 DEF TriesOK
  <2>4. attempt' \in AttemptType
    <3>1. attempt.tries \in 0 .. ReconnectRetry
      BY <1>1 DEF AttemptType
    <3>2. attempt.tries + 1 \in 0 .. ReconnectRetry
      BY <1>5, <3>1, RetriesAssumption
    <3> QED BY <2>1, <3>2 DEF AttemptType
  <2>5. Credit'
    BY <1>3, <2>1
  <2>6. Inv'
    BY <1>1, <1>2, <2>1, <2>2, <2>3, <2>4, <2>5, SettledInv
  <2> QED BY <2>1, <2>6
<1>6. CASE ~ (attempt.pc = "first") /\ ~ (attempt.pc = "connecting" /\ attempt.tries < ReconnectRetry)
  <2> DEFINE lost == {c \in Callers : caller[c].pc = "gate"}
             over == {c \in Callers : caller[c].pc = "reconnecting"}
  <2>1. Reject(caller, lost, over, NoAttempt, links)
    BY <1>6, Zenon DEF AttemptRejects
  <2>2. lost \in SUBSET Callers /\ over \in SUBSET Callers
    OBVIOUS
  <2> HIDE DEF lost, over
  <2>3. NoAttempt \in AttemptType
    BY AttemptFacts
  <2>4. /\ Links' /\ pool' # "new"
        /\ pool' \in {"new", "connecting", "in", "left"}
        /\ attempt' \in AttemptType
        /\ link' \in [Generations -> LinkStates]
        /\ connected' \in {0, connected}
        /\ \A g \in Generations : link'[g] \in {"none", "handshake"} => link'[g] = link[g]
    <3>1. Typed /\ Links
      BY DEF Inv
    <3> QED BY <2>1, <2>3, <3>1, RejectLinksInv
  <2>5. /\ caller' \in [Callers -> CallerType]
        /\ \A c \in Callers : caller'[c].tries = caller[c].tries /\ caller'[c].data = caller[c].data
        /\ \A c \in lost \cup over : \/ caller'[c].pc = "failed"
                                     \/ caller'[c].pc = "reconnecting" /\ caller[c].tries < ReadBlockRetries
        /\ \A c \in Callers : c \notin lost \cup over => caller'[c] = caller[c]
    <3>1. caller \in [Callers -> CallerType]
      BY <1>1
    <3> QED BY <2>1, <2>2, <3>1, RejectCalls, Zenon
  <2>6. \A c \in Callers : /\ caller'[c].tries = caller[c].tries
                           /\ caller'[c].pc \in {"idle", "gate", "done"} => caller'[c] = caller[c]
    BY <2>5
  <2>7. TriesOK'
    BY <1>1, <2>5 DEF TriesOK
  <2>8. pool' = pool \/ pool' = "left"
    BY <2>1, RejectLinks
  <2>9. Inv'
    BY <1>2, <1>3, <2>4, <2>5, <2>6, <2>7, <2>8, SettledInv
  <2> QED BY <2>4, <2>9
<1> QED BY <1>4, <1>5, <1>6

LEMMA ConnectFailInv ==
  ASSUME Inv, pool # "new", ConnectFail \/ ConnectTimeout
  PROVE  Inv' /\ pool' # "new"
<1>1. /\ Awaited /\ Fault /\ UNCHANGED <<generation, asked, wire, backlog, waiting, readers>>
      /\ AttemptRejects([link EXCEPT ![generation] = "gone"]) \/ AttemptRejects(link)
  BY DEF ConnectFail, ConnectTimeout, net, reading
<1>2. link \in [Generations -> LinkStates]
  BY OwnCalls
<1>3. CASE AttemptRejects(link)
  BY <1>1, <1>2, <1>3, AttemptRejectsInv
<1>4. CASE AttemptRejects([link EXCEPT ![generation] = "gone"])
  <2>1. generation <= generation
    BY GenerationFacts DEF Inv
  <2>2. /\ [link EXCEPT ![generation] = "gone"] \in [Generations -> LinkStates]
        /\ \A g \in Generations : \/ [link EXCEPT ![generation] = "gone"][g] = link[g]
                                  \/ [link EXCEPT ![generation] = "gone"][g] = "gone" /\ g <= generation
    BY <1>2, <2>1, GoneLinks
  <2> QED BY <1>1, <1>4, <2>2, AttemptRejectsInv
<1> QED BY <1>1, <1>3, <1>4

(* A new attempt is paid for. *)
LEMMA NewAttemptInv ==
  ASSUME Inv, connected = 0, generation <= Spent, NEW pc \in {"first", "connecting"}, NEW tries \in 0 .. ReconnectRetry,
         NewAttempt(pc, tries), UNCHANGED <<connected, asked, wire, backlog, waiting, readers, caller, faults>>,
         pool' # "new", pool' \in {"new", "connecting", "in", "left"}, pool' = "left" <=> pool = "left",
         pc = "first" => pool' = "connecting"
  PROVE  Inv' /\ pool' # "new"
<1> DEFINE g == generation + 1
<1>1. generation' = g /\ link' = [link EXCEPT ![g] = "handshake"] /\ attempt' = [pc |-> pc, tries |-> tries]
  BY DEF NewAttempt
<1>2. generation \in Nat /\ faults \in 0 .. MaxFaults /\ Spent <= MaxFaults + 1 /\ Spent \in Nat
  BY GenerationFacts, BoundsAssumption DEF Inv, Typed, Spent
<1>3. g \in Generations
  BY <1>2, BoundsAssumption DEF Generations
<1>4. /\ link \in [Generations -> LinkStates]
      /\ link[g] = "none" /\ wire[g] = <<>> /\ asked[g] = {}
  BY <1>2, <1>3 DEF Inv, Typed, Links, Fresh
<1>5. /\ link' \in [Generations -> LinkStates] /\ link'[g] = "handshake"
      /\ \A h \in Generations : h # g => link'[h] = link[h]
  BY <1>1, <1>3, <1>4 DEF LinkStates
<1>6. attempt' \in AttemptType /\ attempt'.pc = pc
  BY <1>1 DEF AttemptType
<1>7. Typed'
  <2>1. generation' \in Generations \cup {0} /\ connected' \in 0 .. generation'
    BY <1>1, <1>2, <1>3
  <2> QED BY <1>5, <1>6, <2>1 DEF Inv, Typed
<1>8. Links'
  <2>1. ASSUME NEW h \in Generations, h > generation' PROVE link'[h] = "none"
    <3>1. h \in Nat /\ h > generation /\ h # g
      BY <1>1, <1>2, <2>1, NoGenerationZero
    <3> QED BY <1>5, <3>1 DEF Inv, Links
  <2>2. generation' # 0
    BY <1>1, <1>2
  <2> QED BY <1>6, <2>1, <2>2 DEF Links, Untouched
<1>9. Fresh'
  BY <1>4, <1>5 DEF Inv, Fresh
<1>10. ReadersOK' /\ Wires' /\ Outstanding' /\ TriesOK' /\ RightData'
  BY DEF Inv, ReadersOK, Wires, Outstanding, TriesOK, RightData, Query
<1>11. Past'
  BY DEF Inv, Past, Known, Made
<1>12. Credit'
  <2>1. ~Due'
    BY <1>6 DEF Due
  <2>2. Spent' = Spent
    BY DEF Spent
  <2>3. generation' <= Spent' + 1
    BY <1>1, <1>2, <2>2
  <2> QED BY <2>1, <2>3 DEF Credit
<1> QED BY <1>7, <1>8, <1>9, <1>10, <1>11, <1>12 DEF Inv

LEMMA ConnectInv ==
  ASSUME Inv, Connect
  PROVE  Inv' /\ pool' # "new"
<1>1. /\ pool = "new" /\ NewAttempt("first", 1) /\ pool' = "connecting"
      /\ UNCHANGED <<connected, asked, wire, backlog, waiting, readers, caller, faults>>
  BY DEF Connect, net, reading
<1>2. connected = 0 /\ generation <= Spent
  BY <1>1, BoundsAssumption DEF Inv, Links, Untouched, Spent, Typed
<1>3. 1 \in 0 .. ReconnectRetry
  BY RetriesAssumption
<1> QED BY <1>1, <1>2, <1>3, NewAttemptInv

LEMMA ReconnectInv ==
  ASSUME Inv, pool # "new", Reconnect
  PROVE  Inv' /\ pool' # "new"
<1>1. /\ attempt.pc = "delay" /\ NewAttempt("connecting", attempt.tries)
      /\ UNCHANGED <<connected, asked, wire, backlog, waiting, readers, caller, pool, faults>>
  BY DEF Reconnect, net, reading
<1>2. connected = 0 /\ generation <= Spent
  BY <1>1 DEF Inv, Links, Credit, Due
<1>3. attempt.tries \in 0 .. ReconnectRetry /\ pool' \in {"new", "connecting", "in", "left"}
  BY <1>1 DEF Inv, Typed, AttemptType
<1> QED BY <1>1, <1>2, <1>3, NewAttemptInv

(* The callers once the connection is ready. *)
Released == [c \in Callers |->
               CASE caller[c].pc = "gate" -> [caller[c] EXCEPT !.pc = "pending"]
                 [] caller[c].pc = "reconnecting" -> [caller[c] EXCEPT !.pc = "delay"]
                 [] OTHER -> caller[c]]

LEMMA ReleasedFacts ==
  ASSUME Typed
  PROVE  /\ Released \in [Callers -> CallerType]
         /\ \A c \in Callers : Released[c].tries = caller[c].tries /\ Released[c].data = caller[c].data
         /\ \A c \in Callers : \/ caller[c].pc = "gate" /\ Released[c].pc = "pending"
                               \/ caller[c].pc = "reconnecting" /\ Released[c].pc = "delay"
                               \/ caller[c].pc \notin {"gate", "reconnecting"} /\ Released[c] = caller[c]
<1>1. caller \in [Callers -> CallerType]
  BY DEF Typed
<1>2. \A x \in CallerType :
        LET y == [x EXCEPT !.pc = "pending"]
        IN y \in CallerType /\ y.pc = "pending" /\ y.tries = x.tries /\ y.data = x.data
  BY DEF CallerType
<1>3. \A x \in CallerType :
        LET y == [x EXCEPT !.pc = "delay"]
        IN y \in CallerType /\ y.pc = "delay" /\ y.tries = x.tries /\ y.data = x.data
  BY DEF CallerType
<1>4. ASSUME NEW c \in Callers
      PROVE  /\ Released[c] \in CallerType
             /\ Released[c].tries = caller[c].tries /\ Released[c].data = caller[c].data
             /\ \/ caller[c].pc = "gate" /\ Released[c].pc = "pending"
                \/ caller[c].pc = "reconnecting" /\ Released[c].pc = "delay"
                \/ caller[c].pc \notin {"gate", "reconnecting"} /\ Released[c] = caller[c]
  <2>0. caller[c] \in CallerType
    BY <1>1
  <2>1. CASE caller[c].pc = "gate"
    <3>1. Released[c] = [caller[c] EXCEPT !.pc = "pending"]
      BY <2>1 DEF Released
    <3> QED BY <1>2, <2>0, <2>1, <3>1
  <2>2. CASE caller[c].pc = "reconnecting"
    <3>1. Released[c] = [caller[c] EXCEPT !.pc = "delay"]
      BY <2>2 DEF Released
    <3> QED BY <1>3, <2>0, <2>2, <3>1
  <2>3. CASE caller[c].pc \notin {"gate", "reconnecting"}
    <3>1. Released[c] = caller[c]
      BY <2>3 DEF Released
    <3> QED BY <2>0, <2>3, <3>1
  <2> QED BY <2>1, <2>2, <2>3
<1>5. Released \in [Callers -> CallerType]
  <2>1. Released = [c \in Callers |-> Released[c]]
    BY DEF Released
  <2> QED BY <1>4, <2>1
<1> QED BY <1>4, <1>5

LEMMA ConnectOkInv ==
  ASSUME ~LateClose, Inv, pool # "new", ConnectOk
  PROVE  Inv' /\ pool' # "new"
<1> DEFINE g == generation
           qs == {Query(c) : c \in {d \in Callers : caller[d].pc = "gate"}}
<1>1. /\ Awaited /\ link[g] = "handshake" /\ readers = {}
      /\ connected' = g /\ link' = [link EXCEPT ![g] = "open"] /\ attempt' = NoAttempt
      /\ pool' = IF attempt.pc = "first" THEN "in" ELSE pool
      /\ Send(qs, g, {}, FALSE)
      /\ caller' = Released
      /\ UNCHANGED <<generation, wire, faults>>
  BY DEF ConnectOk, Timely, Released
<1>2. /\ g \in Generations /\ g # 0 /\ connected = 0 /\ wire[g] = <<>> /\ asked[g] = {}
  BY <1>1, GenerationFacts DEF Inv, Links, Fresh
<1>3. \A q \in qs : /\ q \in Queries
                    /\ \E c \in Callers : /\ caller[c].pc = "gate" /\ q[1] = c
                                          /\ q[2] = caller[c].tries /\ q[2] \in 1 .. ReadBlockRetries
  <2> SUFFICES ASSUME NEW c \in Callers, caller[c].pc = "gate"
               PROVE  /\ Query(c) \in Queries /\ Query(c)[1] = c /\ Query(c)[2] = caller[c].tries
                      /\ Query(c)[2] \in 1 .. ReadBlockRetries
    OBVIOUS
  <2>1. caller[c] \in CallerType
    BY DEF Inv, Typed
  <2>2. caller[c].tries \in 1 .. ReadBlockRetries
    BY <2>1, CallerFacts, Zenon
  <2> QED BY <2>2, QueryFacts DEF Query
<1> HIDE DEF qs
<1>4. /\ backlog' = qs /\ asked' = [asked EXCEPT ![g] = @ \cup qs] /\ waiting' = (qs # {})
      /\ qs = {} => readers' = {}
      /\ qs # {} => \E q \in qs : readers' = {Reader(g, q)}
  BY <1>1 DEF Send
<1>5. /\ asked' \in [Generations -> SUBSET Queries] /\ asked'[g] = qs
      /\ \A h \in Generations : h # g => asked'[h] = asked[h]
  BY <1>2, <1>3, <1>4 DEF Inv, Typed
<1>6. /\ link' \in [Generations -> LinkStates] /\ link'[g] = "open"
      /\ \A h \in Generations : h # g => link'[h] = link[h]
  BY <1>1, <1>2 DEF Inv, Typed, LinkStates
<1>7. /\ caller' \in [Callers -> CallerType]
      /\ \A c \in Callers : caller'[c].tries = caller[c].tries /\ caller'[c].data = caller[c].data
      /\ \A c \in Callers : \/ caller[c].pc = "gate" /\ caller'[c].pc = "pending"
                            \/ caller[c].pc = "reconnecting" /\ caller'[c].pc = "delay"
                            \/ caller[c].pc \notin {"gate", "reconnecting"} /\ caller'[c] = caller[c]
  BY <1>1, ReleasedFacts DEF Inv
<1>8. \A r \in readers' : /\ r \in ReaderType /\ r.gen = g /\ r.phase = "header" /\ r.query = NoQuery
                          /\ qs # {} /\ readers' = {r}
  <2>1. \A q \in qs : /\ Reader(g, q) \in ReaderType /\ Reader(g, q).gen = g
                      /\ Reader(g, q).phase = "header" /\ Reader(g, q).query = NoQuery
    BY <1>2, <1>3 DEF Reader, ReaderType
  <2>2. CASE qs = {}
    BY <1>4, <2>2
  <2>3. CASE qs # {}
    <3>1. PICK q \in qs : readers' = {Reader(g, q)}
      BY <1>4, <2>3
    <3> HIDE DEF Reader
    <3> QED BY <2>1, <2>3, <3>1
  <2> QED BY <2>2, <2>3
<1>9. pool' # "new" /\ pool' \in {"new", "connecting", "in", "left"} /\ (pool' = "left" <=> pool = "left")
  BY <1>1 DEF Inv, Typed, Links
<1>10. Typed'
  <2>1. connected' \in 0 .. generation'
    BY <1>1, GenerationFacts DEF Inv
  <2>2. backlog' \subseteq Queries /\ waiting' \in BOOLEAN
    BY <1>3, <1>4
  <2>3. readers' \subseteq ReaderType
    BY <1>8
  <2>4. attempt' \in AttemptType
    BY <1>1, AttemptFacts
  <2> QED BY <1>1, <1>5, <1>6, <1>7, <1>9, <2>1, <2>2, <2>3, <2>4 DEF Inv, Typed
<1>11. Links'
  <2>1. ASSUME NEW h \in Generations, h > generation PROVE link'[h] = "none"
    <3>1. link[h] = "none" /\ h # g
      BY <1>1, <2>1 DEF Inv, Links
    <3> QED BY <1>6, <3>1
  <2>2. attempt'.pc = "none"
    BY <1>1, AttemptFacts
  <2> QED BY <1>1, <1>6, <1>9, <2>1, <2>2 DEF Links, Untouched, Awaited
<1>12. Fresh'
  BY <1>1, <1>5, <1>6 DEF Inv, Fresh
<1>13. ReadersOK'
  BY <1>1, <1>4, <1>8 DEF ReadersOK
<1>14. Wires'
  BY <1>1, <1>2, <1>8, EmptyWire DEF Wires
<1>15. Outstanding'
  BY <1>1, <1>2, <1>4, <1>5, EmptyWire DEF Outstanding
<1>16. Past'
  <2> SUFFICES ASSUME NEW q \in Queries, Known(q)' PROVE Made(q)'
    BY DEF Past
  <2>1. q[1] \in Callers /\ q[2] \in 1 .. ReadBlockRetries
    BY QueryFacts
  <2>2. CASE q \in qs
    <3>1. /\ caller[q[1]].pc = "gate" /\ q[2] = caller[q[1]].tries
      BY <1>3, <2>2
    <3>2. q[2] <= q[2]
      BY <2>1
    <3> QED BY <1>7, <2>1, <3>1, <3>2 DEF Made
  <2>3. CASE q \notin qs
    <3>1. Known(q)
      BY <1>1, <1>4, <1>5, <2>3 DEF Known
    <3>2. q[2] <= caller[q[1]].tries /\ (caller[q[1]].pc \in {"idle", "gate"} => q[2] < caller[q[1]].tries)
      BY <3>1 DEF Inv, Past, Made
    <3>3. caller'[q[1]].tries = caller[q[1]].tries
          /\ (caller'[q[1]].pc \in {"idle", "gate"} => caller[q[1]].pc \in {"idle", "gate"})
      BY <1>7, <2>1
    <3> QED BY <3>2, <3>3 DEF Made
  <2> QED BY <2>2, <2>3
<1>17. TriesOK'
  BY <1>7 DEF Inv, TriesOK
<1>18. RightData'
  BY <1>7 DEF Inv, RightData, Query
<1>19. Credit'
  <2>1. ~Due'
    BY <1>1, <1>2, <1>6, AttemptFacts, EmptyWire DEF Due
  <2>2. Spent' = Spent
    BY <1>1, <1>9 DEF Spent
  <2>3. generation' <= Spent' + 1
    BY <1>1, <2>2 DEF Inv, Credit
  <2> QED BY <2>1, <2>3 DEF Credit
<1> QED BY <1>9, <1>10, <1>11, <1>12, <1>13, <1>14, <1>15, <1>16, <1>17, <1>18, <1>19 DEF Inv

(***************************************************************************)
(* Sending queries.                                                        *)
(***************************************************************************)

LEMMA HeadersMentioned == \A w : Headers(w) \subseteq Mentioned(w)
BY DEF Headers, Mentioned

(* The callers cs try, with the number of tries that calls gives them: none
   of their queries is known yet.                                          *)
LEMMA TryReadInv ==
  ASSUME Inv, pool # "new", NEW calls \in [Callers -> CallerType],
         NEW cs \in SUBSET Callers, cs # {},
         \A c \in Callers : c \notin cs => calls[c] = caller[c],
         \A c \in cs : calls[c].tries >= caller[c].tries,
         \A c \in cs : \A q \in Queries : Known(q) /\ q[1] = c => q[2] < calls[c].tries,
         TryRead(cs, calls), UNCHANGED <<generation, wire, faults>>
  PROVE  Inv' /\ pool' # "new"
<1> DEFINE qs == {<<c, calls[c].tries>> : c \in cs}
           move(pc) == [c \in Callers |-> IF c \in cs THEN [calls[c] EXCEPT !.pc = pc] ELSE calls[c]]
<1>1. \A c \in Callers : calls[c] \in CallerType /\ calls[c].tries \in 1 .. ReadBlockRetries
  BY CallerFacts
<1>2. \A q \in qs : q \in Queries /\ q[1] \in cs /\ q[2] = calls[q[1]].tries /\ ~Known(q)
  <2> SUFFICES ASSUME NEW c \in cs
               PROVE  LET q == <<c, calls[c].tries>>
                      IN q \in Queries /\ q[1] \in cs /\ q[2] = calls[q[1]].tries /\ ~Known(q)
    OBVIOUS
  <2> DEFINE q == <<c, calls[c].tries>>
  <2>1. calls[c].tries \in 1 .. ReadBlockRetries /\ c \in Callers
    BY <1>1
  <2>2. q \in Queries /\ q[1] = c /\ q[2] = calls[c].tries
    BY <2>1, QueryFacts
  <2> HIDE DEF q
  <2>3. ~Known(q)
    <3> SUFFICES ASSUME Known(q) PROVE FALSE
      OBVIOUS
    <3>1. calls[c].tries < calls[c].tries
      BY <2>2
    <3> QED BY <2>1, <3>1
  <2> QED BY <2>2, <2>3 DEF q
<1>3. qs # {}
  OBVIOUS
<1>4. ASSUME NEW pc \in {"gate", "pending"}
      PROVE  /\ move(pc) \in [Callers -> CallerType]
             /\ \A c \in cs : move(pc)[c].pc = pc /\ move(pc)[c].tries = calls[c].tries
             /\ \A c \in Callers : c \notin cs => move(pc)[c] = caller[c]
  <2>1. \A x \in CallerType : /\ [x EXCEPT !.pc = pc] \in CallerType
                              /\ [x EXCEPT !.pc = pc].pc = pc /\ [x EXCEPT !.pc = pc].tries = x.tries
    BY DEF CallerType
  <2>2. \A c \in cs : c \in Callers /\ move(pc)[c] = [calls[c] EXCEPT !.pc = pc]
    OBVIOUS
  <2>3. \A c \in Callers : c \notin cs => move(pc)[c] = caller[c]
    OBVIOUS
  <2>4. \A c \in Callers : move(pc)[c] \in CallerType
    BY <2>1
  <2> QED BY <1>1, <2>1, <2>2, <2>3, <2>4
<1>5. /\ \A q \in Queries : Known(q) => q[2] <= caller[q[1]].tries
                                        /\ (caller[q[1]].pc \in {"idle", "gate"} => q[2] < caller[q[1]].tries)
      /\ \A q \in Queries : q[1] \in Callers /\ q[2] \in 1 .. ReadBlockRetries
  BY QueryFacts DEF Inv, Past, Made
<1>6. CASE /\ attempt.pc # "none"
           /\ caller' = move("gate")
           /\ UNCHANGED <<connected, link, asked, reading, attempt, pool>>
  <2>0. UNCHANGED <<backlog, waiting, readers>>
    BY <1>6 DEF reading
  <2>1. /\ caller' \in [Callers -> CallerType]
        /\ \A c \in cs : caller'[c].pc = "gate" /\ caller'[c].tries = calls[c].tries
        /\ \A c \in Callers : c \notin cs => caller'[c] = caller[c]
    BY <1>4, <1>6
  <2>2. Typed'
    BY <1>6, <2>0, <2>1 DEF Inv, Typed
  <2>3. Links' /\ Fresh' /\ ReadersOK' /\ Wires' /\ Outstanding'
    BY <1>6, <2>0 DEF Inv, Links, Untouched, Awaited, Fresh, ReadersOK, Wires, Outstanding
  <2>4. TriesOK'
    BY <2>1 DEF Inv, TriesOK
  <2>5. RightData'
    BY <2>1 DEF Inv, RightData, Query
  <2>6. Past'
    <3> SUFFICES ASSUME NEW q \in Queries, Known(q)' PROVE Made(q)'
      BY DEF Past
    <3>1. Known(q)
      BY <1>6, <2>0 DEF Known
    <3>2. CASE q[1] \in cs
      <4>1. q[2] < calls[q[1]].tries
        BY <3>1, <3>2
      <4>2. q[2] <= calls[q[1]].tries
        BY <1>1, <1>5, <4>1
      <4> QED BY <2>1, <3>2, <4>1, <4>2 DEF Made
    <3>3. CASE q[1] \notin cs
      BY <1>5, <2>1, <3>1, <3>3 DEF Made
    <3> QED BY <3>2, <3>3
  <2>7. Credit'
    <3>1. Due' => Due
      BY <1>6 DEF Due
    <3> QED BY <1>6, <3>1, CreditKept DEF Inv
  <2> QED BY <1>6, <2>2, <2>3, <2>4, <2>5, <2>6, <2>7 DEF Inv
<1>7. CASE /\ attempt.pc = "none" /\ connected # 0
           /\ caller' = move("pending")
           /\ Send(qs, connected, backlog, waiting)
           /\ UNCHANGED <<connected, link, attempt, pool>>
  <2>0. connected \in Generations /\ link[connected] \in {"open", "gone"}
    BY <1>7, GenerationFacts DEF Inv, Links
  <2>1. /\ caller' \in [Callers -> CallerType]
        /\ \A c \in cs : caller'[c].pc = "pending" /\ caller'[c].tries = calls[c].tries
        /\ \A c \in Callers : c \notin cs => caller'[c] = caller[c]
    BY <1>4, <1>7
  <2> HIDE DEF qs, move
  <2>2. /\ backlog' = backlog \cup qs /\ waiting' = TRUE
        /\ asked' = [asked EXCEPT ![connected] = @ \cup qs] \/ asked' = asked
        /\ waiting => readers' = readers
        /\ ~waiting => \E q \in qs : readers' = readers \cup {Reader(connected, q)}
    BY <1>3, <1>7 DEF Send
  <2>3. /\ asked' \in [Generations -> SUBSET Queries]
        /\ asked[connected] \subseteq asked'[connected] /\ asked'[connected] \subseteq asked[connected] \cup qs
        /\ \A g \in Generations : g # connected => asked'[g] = asked[g]
    <3>1. asked \in [Generations -> SUBSET Queries] /\ qs \subseteq Queries
      BY <1>2 DEF Inv, Typed
    <3>2. CASE asked' = asked
      BY <3>1, <3>2
    <3>3. CASE asked' = [asked EXCEPT ![connected] = @ \cup qs]
      BY <2>0, <3>1, <3>3
    <3> QED BY <2>2, <3>2, <3>3
  <2>4. ~waiting => readers = {}
    BY <1>7 DEF Inv, ReadersOK
  <2>5. \/ waiting /\ readers' = readers
        \/ /\ ~waiting
           /\ \E r \in ReaderType : /\ readers' = {r} /\ r.gen = connected
                                    /\ r.phase = "header" /\ r.query = NoQuery
    <3>1. \A q \in qs : /\ Reader(connected, q) \in ReaderType /\ Reader(connected, q).gen = connected
                        /\ Reader(connected, q).phase = "header" /\ Reader(connected, q).query = NoQuery
      BY <1>2, <2>0 DEF Reader, ReaderType
    <3> HIDE DEF Reader
    <3>2. CASE ~waiting
      <4>1. PICK q \in qs : readers' = readers \cup {Reader(connected, q)}
        BY <2>2, <3>2
      <4>2. readers' = {Reader(connected, q)}
        BY <2>4, <3>2, <4>1
      <4> QED BY <3>1, <3>2, <4>2
    <3> QED BY <2>2, <3>2 DEF Inv, Typed
  <2>6. Typed'
    <3>1. readers' \subseteq ReaderType
      BY <2>5 DEF Inv, Typed
    <3>2. backlog' \subseteq Queries
      BY <1>2, <2>2 DEF Inv, Typed
    <3> QED BY <1>7, <2>1, <2>2, <2>3, <3>1, <3>2 DEF Inv, Typed
  <2>7. Links'
    BY <1>7 DEF Inv, Links, Untouched, Awaited
  <2>8. Fresh'
    BY <1>7, <2>0, <2>3 DEF Inv, Fresh
  <2>9. ReadersOK'
    <3>1. CASE readers' = readers /\ waiting
      BY <1>7, <2>2, <3>1 DEF Inv, ReadersOK
    <3>2. CASE \E r \in ReaderType : /\ readers' = {r} /\ r.gen = connected
                                     /\ r.phase = "header" /\ r.query = NoQuery
      BY <1>7, <2>2, <3>2 DEF ReadersOK
    <3> QED BY <2>5, <3>1, <3>2
  <2>10. Wires'
    <3>1. CASE readers' = readers /\ waiting
      BY <1>7, <2>2, <3>1 DEF Inv, Wires
    <3>2. CASE ~waiting /\ \E r \in ReaderType : /\ readers' = {r} /\ r.gen = connected
                                                 /\ r.phase = "header" /\ r.query = NoQuery
      BY <1>7, <2>2, <3>2 DEF Inv, Wires
    <3> QED BY <2>5, <3>1, <3>2
  <2>11. Outstanding'
    <3> DEFINE w == wire[connected]
    <3>1. /\ asked[connected] \cup Headers(w) \subseteq backlog
          /\ asked[connected] \cap Headers(w) = {} /\ Distinct(w)
      BY <1>7 DEF Inv, Outstanding
    <3>2. qs \cap Headers(w) = {}
      <4> SUFFICES ASSUME NEW q \in qs, q \in Headers(w) PROVE FALSE
        OBVIOUS
      <4>1. q \in Mentioned(w)
        BY HeadersMentioned
      <4>2. Known(q)
        BY <2>0, <4>1 DEF Known
      <4> QED BY <1>2, <4>2
    <3> QED BY <1>7, <2>2, <2>3, <3>1, <3>2 DEF Outstanding
  <2>12. Past'
    <3> SUFFICES ASSUME NEW q \in Queries, Known(q)' PROVE Made(q)'
      BY DEF Past
    <3>1. Known(q) \/ q \in qs
      BY <2>0, <2>2, <2>3 DEF Known
    <3>2. CASE q[1] \in cs
      <4>1. q[2] < calls[q[1]].tries \/ q[2] = calls[q[1]].tries
        BY <1>2, <3>1, <3>2
      <4>2. q[2] <= calls[q[1]].tries
        BY <1>1, <1>5, <4>1
      <4> QED BY <2>1, <3>2, <4>2 DEF Made
    <3>3. CASE q[1] \notin cs
      BY <1>2, <1>5, <2>1, <3>1, <3>3 DEF Made
    <3> QED BY <3>2, <3>3
  <2>13. TriesOK'
    BY <2>1 DEF Inv, TriesOK
  <2>14. RightData'
    BY <2>1 DEF Inv, RightData, Query
  <2>15. Credit'
    <3>1. Due' => Due
      BY <1>7 DEF Due
    <3> QED BY <1>7, <3>1, CreditKept DEF Inv
  <2> QED BY <1>7, <2>6, <2>7, <2>8, <2>9, <2>10, <2>11, <2>12, <2>13, <2>14, <2>15 DEF Inv
<1>8. CASE /\ attempt.pc = "none" /\ connected = 0
           /\ backlog' = backlog \cup qs
           /\ Reject(calls, cs, {}, attempt, link)
           /\ UNCHANGED <<asked, waiting, readers>>
  <2> HIDE DEF qs, move
  <2>1. backlog' \subseteq Queries
    BY <1>2, <1>8 DEF Inv, Typed
  <2>2. Credit'
    <3>1. Due
      BY <1>8 DEF Due
    <3> QED BY <1>8, <3>1, RejectCredit DEF Inv
  <2>3. \A q \in Queries : Known(q)' => Known(q) \/ (q[1] \in cs /\ q[2] <= calls[q[1]].tries)
    <3> SUFFICES ASSUME NEW q \in Queries, Known(q)', ~Known(q)
                 PROVE  q[1] \in cs /\ q[2] <= calls[q[1]].tries
      OBVIOUS
    <3>1. q \in qs
      BY <1>8 DEF Known
    <3>2. q[2] <= q[2]
      BY <1>5
    <3> QED BY <1>2, <3>1, <3>2
  <2>4. /\ asked' \in [Generations -> SUBSET Queries] /\ wire' \in [Generations -> Seq(Items)]
        /\ waiting' \in BOOLEAN /\ faults' \in 0 .. MaxFaults
    BY <1>8 DEF Inv, Typed
  <2> QED BY <1>8, <2>1, <2>2, <2>3, <2>4, OwnCalls, RejectInv
<1> QED BY <1>6, <1>7, <1>8 DEF TryRead, move, qs

LEMMA ReadBlockInv ==
  ASSUME Inv, NEW c \in Callers, ReadBlock(c)
  PROVE  Inv' /\ pool' # "new"
<1>1. pool = "in" /\ caller[c].pc = "idle" /\ TryRead({c}, caller) /\ UNCHANGED <<generation, wire, faults>>
  BY DEF ReadBlock
<1>2. \A q \in Queries : Known(q) /\ q[1] = c => q[2] < caller[c].tries
  BY <1>1 DEF Inv, Past, Made
<1> QED BY <1>1, <1>2, OwnCalls, TryReadInv

(* The callers whose delay has elapsed are one try further. *)
Again(cs) == [c \in Callers |-> IF c \in cs THEN [caller[c] EXCEPT !.tries = @ + 1] ELSE caller[c]]

LEMMA RetryCalls ==
  ASSUME Inv, NEW cs, cs \subseteq Delayed
  PROVE  /\ Again(cs) \in [Callers -> CallerType]
         /\ \A c \in Callers : c \notin cs => Again(cs)[c] = caller[c]
         /\ \A c \in cs : Again(cs)[c].tries >= caller[c].tries /\ Again(cs)[c].pc # "pending"
         /\ \A c \in cs : \A q \in Queries : Known(q) /\ q[1] = c => q[2] < Again(cs)[c].tries
<1>1. ASSUME NEW c \in cs
      PROVE  /\ Again(cs)[c] \in CallerType /\ Again(cs)[c].pc # "pending"
             /\ caller[c].tries \in Nat /\ Again(cs)[c].tries = caller[c].tries + 1
  <2>1. c \in Callers /\ caller[c] \in CallerType /\ caller[c].tries < ReadBlockRetries /\ caller[c].pc = "delay"
    BY DEF Inv, Typed, Delayed, TriesOK
  <2>2. caller[c].tries \in 1 .. ReadBlockRetries
    BY <2>1, CallerFacts, Zenon
  <2>3. caller[c].tries + 1 \in 1 .. ReadBlockRetries
    BY <2>1, <2>2, RetriesAssumption
  <2>4. Again(cs)[c] = [caller[c] EXCEPT !.tries = caller[c].tries + 1]
    BY <2>1 DEF Again
  <2> QED BY <2>1, <2>2, <2>3, <2>4 DEF CallerType
<1>2. Again(cs) \in [Callers -> CallerType]
  <2>1. \A c \in Callers : Again(cs)[c] \in CallerType
    <3> TAKE c \in Callers
    <3>1. CASE c \in cs
      BY <1>1, <3>1
    <3>2. CASE c \notin cs
      BY <3>2 DEF Again, Inv, Typed
    <3> QED BY <3>1, <3>2
  <2>2. Again(cs) = [c \in Callers |-> Again(cs)[c]]
    BY DEF Again
  <2> QED BY <2>1, <2>2
<1>3. \A c \in Callers : c \notin cs => Again(cs)[c] = caller[c]
  BY DEF Again
<1>4. \A c \in cs : Again(cs)[c].tries >= caller[c].tries
  BY <1>1
<1>5. ASSUME NEW c \in cs, NEW q \in Queries, Known(q), q[1] = c PROVE q[2] < Again(cs)[c].tries
  <2>1. q[2] <= caller[c].tries /\ q[2] \in 1 .. ReadBlockRetries
    BY <1>5, QueryFacts DEF Inv, Past, Made
  <2> QED BY <1>1, <2>1, RetriesAssumption
<1> QED BY <1>1, <1>2, <1>3, <1>4, <1>5

LEMMA RetryInv ==
  ASSUME Inv, pool # "new", Retry
  PROVE  Inv' /\ pool' # "new"
<1>1. UNCHANGED <<generation, wire, faults>>
  BY DEF Retry
<1>2. PICK cs \in {Delayed} \cup {{c} : c \in Delayed} : TryRead(cs, Again(cs))
  BY DEF Retry, Again
<1>3. cs # {} /\ cs \subseteq Delayed /\ cs \in SUBSET Callers
  BY DEF Retry, Delayed
<1> QED BY <1>1, <1>2, <1>3, RetryCalls, TryReadInv

(***************************************************************************)
(* The theorems.                                                           *)
(***************************************************************************)

LEMMA InitInv == Init => Inv
<1> SUFFICES ASSUME Init PROVE Inv
  OBVIOUS
<1> USE DEF Init
<1>1. Typed
  <2>1. Idle \in CallerType
    BY RetriesAssumption DEF Idle, CallerType
  <2>2. NoAttempt \in AttemptType
    BY AttemptFacts
  <2>3. link \in [Generations -> LinkStates] /\ wire \in [Generations -> Seq(Items)]
    BY EmptyWire DEF LinkStates
  <2>4. generation \in Generations \cup {0} /\ connected \in 0 .. generation /\ faults \in 0 .. MaxFaults
    BY BoundsAssumption
  <2>5. caller \in [Callers -> CallerType] /\ asked \in [Generations -> SUBSET Queries]
    BY <2>1
  <2> QED BY <2>2, <2>3, <2>4, <2>5 DEF Typed
<1>2. Links /\ TriesOK /\ RightData
  BY DEF Links, Untouched, Awaited, NoAttempt, Idle, TriesOK, RightData
<1>3. Fresh /\ ReadersOK /\ Wires /\ Outstanding
  BY DEF Fresh, ReadersOK, Wires, Outstanding
<1>4. Past
  <2>1. \A q \in Queries : ~Known(q)
    BY EmptyWire DEF Known
  <2> QED BY <2>1 DEF Past
<1>5. Credit
  BY DEF Credit, Spent, Due
<1> QED BY <1>1, <1>2, <1>3, <1>4, <1>5 DEF Inv

LEMMA InvStep ==
  ASSUME ~LateClose, Inv, [Next]_vars
  PROVE  Inv'
<1>1. CASE UNCHANGED vars
  <2>1. Typed' /\ Links' /\ TriesOK' /\ RightData'
    BY <1>1 DEF vars, Inv, Typed, Links, Untouched, Awaited, TriesOK, RightData, Query
  <2>2. Fresh' /\ ReadersOK' /\ Wires' /\ Outstanding' /\ Past'
    BY <1>1 DEF vars, Inv, Fresh, ReadersOK, Wires, Outstanding, Past, Known, Made
  <2>3. Credit'
    BY <1>1 DEF vars, Inv, Credit, Spent, Due
  <2> QED BY <2>1, <2>2, <2>3 DEF Inv
<1>2. CASE Connect
  BY <1>2, ConnectInv
<1>3. CASE Next /\ pool # "new"
  <2>1. CASE Reconnect
    BY <1>3, <2>1, ReconnectInv
  <2>2. CASE ConnectOk
    BY <1>3, <2>2, ConnectOkInv
  <2>3. CASE Retry
    BY <1>3, <2>3, RetryInv
  <2>4. ASSUME NEW g \in Generations, LateConnect(g) \/ LateConnectFail(g) PROVE Inv'
    BY <1>3, <2>4, LateConnectInv
  <2>5. ASSUME NEW r \in readers, ReadHeader(r) \/ ReadPayload(r) \/ ReadEnd(r) \/ ReadTimeout(r) PROVE Inv'
    BY <1>3, <2>5, ReadHeaderInv, ReadPayloadInv, ReadEndInv, ReadTimeoutInv
  <2>6. ASSUME NEW g \in Generations, NEW q \in Queries, Answer(g, q) \/ AnswerError(g, q) PROVE Inv'
    BY <1>3, <2>6, AnswerInv, AnswerErrorInv
  <2>7. ASSUME NEW g \in Generations, ServerClose(g) \/ TransportError(g) PROVE Inv'
    BY <1>3, <2>7, ServerCloseInv, TransportErrorInv
  <2>8. CASE ConnectFail \/ ConnectTimeout
    BY <1>3, <2>8, ConnectFailInv
  <2>9. CASE Disconnect
    BY <2>9, DisconnectInv
  <2>10. ASSUME NEW c \in Callers, ReadBlock(c) \/ WriteTimeout(c) PROVE Inv'
    BY <1>3, <2>10, ReadBlockInv, WriteTimeoutInv
  <2> QED
    BY <1>2, <1>3, <2>1, <2>2, <2>3, <2>4, <2>5, <2>6, <2>7, <2>8, <2>9, <2>10
       DEF Next, ClientStep, ServerStep
<1> QED BY <1>1, <1>2, <1>3, FirstStep DEF Inv, Links

LEMMA Invariant ==
  ASSUME ~LateClose
  PROVE  Spec => []Inv
<1>1. Inv /\ [Next]_vars => Inv'
  BY InvStep
<1> QED BY <1>1, InitInv, PTL DEF Spec

(* The state stays typed; in particular a client never starts more
   connections than faults and the user's disconnect() account for, and a
   block or a reconnection is never tried more often than it may be.       *)
THEOREM TypeCorrect ==
  ASSUME ~LateClose
  PROVE  Spec => []TypeOK
<1>1. Inv => TypeOK
  BY TypedOK DEF Inv
<1> QED BY <1>1, Invariant, PTL

(* What readBlock() resolves with is the data of the block it asked for,
   whatever the order of the answers and the failures in between: the
   coroutine finds the payload of the header it has read next on its
   transport, because nobody else reads it.                                *)
THEOREM RightDataHolds ==
  ASSUME ~LateClose
  PROVE  Spec => []RightData
<1>1. Inv => RightData
  BY DEF Inv
<1> QED BY <1>1, Invariant, PTL

(* No two coroutines read one transport: #waitingForResponse keeps the
   queries of one connection from starting a second one, and a reconnection
   resets it only once the coroutine of the previous transport is gone.    *)
THEOREM OneReaderHolds ==
  ASSUME ~LateClose
  PROVE  Spec => []OneReader
<1>1. Inv => OneReader
  BY DEF Inv, ReadersOK, OneReader
<1> QED BY <1>1, Invariant, PTL

(* A rejection touches no transport but the one it is about and the current one. *)
LEMMA RejectTouches ==
  ASSUME NEW calls, NEW lost, NEW over, NEW current, NEW links \in [Generations -> LinkStates],
         Reject(calls, lost, over, current, links), NEW g \in Generations, g # connected
  PROVE  link'[g] = links[g]
<1>1. CASE link' = links
  BY <1>1
<1>2. CASE link' = Closing(links)
  BY <1>2, ClosingType
<1> QED BY <1>1, <1>2, RejectLinks

LEMMA StaleStep ==
  ASSUME Inv, Next, NEW g \in Generations, g # connected, connected # 0, link'[g] # link[g],
         NEW c \in Pending
  PROVE  caller'[c].pc = "pending"
<1>0. /\ attempt.pc = "none" /\ pool # "new" /\ ~Awaited /\ c \in Callers /\ caller[c].pc = "pending"
      /\ link \in [Generations -> LinkStates] /\ caller \in [Callers -> CallerType]
  BY DEF Inv, Links, Untouched, Awaited, Pending, Typed
<1>1. ~Connect /\ ~Reconnect /\ ~ConnectOk /\ ~ConnectFail /\ ~ConnectTimeout
  BY <1>0 DEF Connect, Reconnect, ConnectOk, ConnectFail, ConnectTimeout
<1>2. ASSUME NEW calls, NEW lost, Reject(calls, lost, {}, attempt, link) PROVE FALSE
  BY <1>0, <1>2, RejectTouches
<1>3. ASSUME link' = link PROVE FALSE
  BY <1>3
<1>4. ~Disconnect
  BY <1>0, ClosingType DEF Disconnect
<1>5. ASSUME NEW cs, NEW calls, TryRead(cs, calls) PROVE FALSE
  BY <1>2, <1>3, <1>5 DEF TryRead
<1>6. ~Retry /\ \A d \in Callers : ~ReadBlock(d)
  BY <1>5 DEF Retry, ReadBlock
<1>7. \A d \in Callers : ~WriteTimeout(d)
  BY <1>2 DEF WriteTimeout
<1>8. ASSUME NEW r \in readers, ReadHeader(r) \/ ReadPayload(r) \/ ReadEnd(r) \/ ReadTimeout(r) PROVE FALSE
  BY <1>2, <1>3, <1>8 DEF ReadHeader, ReadPayload, ReadEnd, ReadTimeout, Throw, RejectAll
<1>9. ASSUME NEW h \in Generations, NEW q \in Queries, Answer(h, q) \/ AnswerError(h, q) PROVE FALSE
  BY <1>3, <1>9 DEF Answer, AnswerError
<1>10. ASSUME NEW h \in Generations, LateConnect(h) \/ LateConnectFail(h) \/ ServerClose(h)
       PROVE  caller'[c].pc = "pending"
  BY <1>0, <1>10 DEF LateConnect, LateConnectFail, ServerClose
<1>11. ASSUME NEW h \in Generations, TransportError(h) PROVE caller'[c].pc = "pending"
  <2> DEFINE lost == IF h = connected \/ readers # readers' THEN InBacklog ELSE {}
             links == [link EXCEPT ![h] = "gone"]
  <2>1. Reject(caller, lost, {}, attempt, links) /\ readers' = {r \in readers : r.gen # h}
    BY <1>11 DEF TransportError
  <2>2. links \in [Generations -> LinkStates] /\ \A x \in Generations : x # h => links[x] = link[x]
    BY <1>0, GoneLinks
  <2>3. h # connected
    <3> SUFFICES ASSUME h = connected PROVE FALSE
      OBVIOUS
    <3>1. link'[g] = links[g]
      <4> HIDE DEF lost, links
      <4> QED BY <2>1, <2>2, RejectTouches
    <3> QED BY <2>2, <3>1
  <2>4. readers' = readers
    BY <2>1, <2>3 DEF Inv, ReadersOK
  <2>5. lost = {}
    BY <2>3, <2>4
  <2>6. Reject(caller, {}, {}, attempt, links)
    BY <2>1, <2>5
  <2>7. \A d \in Callers : d \notin {} \cup {} => caller'[d] = caller[d]
    <3>1. {} \in SUBSET Callers
      OBVIOUS
    <3> QED BY <1>0, <2>6, <3>1, RejectCalls, Zenon
  <2> QED BY <1>0, <2>7
<1> QED
  BY <1>1, <1>4, <1>6, <1>7, <1>8, <1>9, <1>10, <1>11 DEF Next, ClientStep, ServerStep

(* What happens to another transport than the current one rejects no
   caller: #onTransportError() compares its transport with the current one,
   and the coroutine that could throw is the current transport's.          *)
THEOREM StaleErrorsIgnoredHolds ==
  ASSUME ~LateClose
  PROVE  Spec => StaleErrorsIgnored
<1>1. Inv /\ [Next]_vars =>
        [\A g \in Generations \ {connected} :
           link'[g] # link[g] /\ connected # 0 => \A c \in Pending : caller'[c].pc = "pending"]_vars
  BY StaleStep
<1> QED BY <1>1, Invariant, PTL DEF Spec, StaleErrorsIgnored

(***************************************************************************)
(* Nobody waits for an answer in vain.                                     *)
(***************************************************************************)

\* a first attempt is all there is until it ends
Opening ==
  pool = "connecting" => /\ attempt.pc = "first" /\ readers = {}
                         /\ \A c \in Callers : caller[c].pc = "idle"
                         /\ \A g \in Generations : link[g] = "none" \/ (link[g] = "handshake" /\ g = generation)

\* when no fault hits between a header and its payload, a coroutine is
\* there for every caller that awaits an answer, and the backlog of the
\* current transport holds nothing else
Attended ==
  pool = "in" =>
    /\ Pending # {} => readers # {}
    /\ \A c \in Pending : Query(c) \in backlog \/ \E r \in readers : r.query = Query(c)
    /\ connected # 0 =>
         /\ waiting => readers # {}
         /\ \A q \in backlog : \E c \in Pending : q = Query(c)
         /\ \A r \in readers : r.query \notin backlog /\ (r.phase = "header" => backlog # {})

LEMMA SecondStep ==
  ASSUME Opening, pool = "connecting", Next
  PROVE  ConnectOk \/ ConnectFail \/ ConnectTimeout
<1>1. Awaited /\ attempt.pc = "first"
  BY DEF Opening, Awaited
<1>2. \A g \in Generations : link[g] = "none" \/ (link[g] = "handshake" /\ g = generation)
  BY DEF Opening
<1>3. readers = {} /\ Delayed = {} /\ Pending = {}
  BY DEF Opening, Delayed, Pending
<1>4. ~Connect /\ ~Reconnect /\ ~Retry /\ ~Disconnect
  BY <1>1, <1>3 DEF Connect, Reconnect, Retry, Disconnect
<1>5. \A g \in Generations : /\ ~LateConnect(g) /\ ~LateConnectFail(g) /\ ~ServerClose(g) /\ ~TransportError(g)
                             /\ \A q : ~Answer(g, q) /\ ~AnswerError(g, q)
  BY <1>1, <1>2 DEF LateConnect, LateConnectFail, Late, ServerClose, TransportError, Answer, AnswerError
<1>6. \A c \in Callers : ~ReadBlock(c) /\ ~WriteTimeout(c)
  BY <1>3 DEF ReadBlock, WriteTimeout
<1> QED BY <1>3, <1>4, <1>5, <1>6 DEF Next, ClientStep, ServerStep

(* A client that is in the pool, or has left it, does not join it again. *)
LEMMA PoolStep ==
  ASSUME Inv, Next, pool \in {"in", "left"}
  PROVE  pool' = pool \/ pool' = "left"
<1>0. attempt.pc # "first"
  BY DEF Inv, Links
<1>1. ASSUME NEW calls, NEW lost, NEW over, NEW current, NEW links, Reject(calls, lost, over, current, links)
      PROVE  pool' = pool \/ pool' = "left"
  BY <1>1, RejectLinks
<1>2. ASSUME NEW links, AttemptRejects(links) PROVE pool' = pool \/ pool' = "left"
  BY <1>1, <1>2 DEF AttemptRejects
<1>3. ASSUME NEW cs, NEW calls, TryRead(cs, calls) PROVE pool' = pool \/ pool' = "left"
  BY <1>1, <1>3 DEF TryRead
<1>4. CASE Connect \/ Reconnect \/ ConnectOk \/ Disconnect
  BY <1>0, <1>4 DEF Connect, Reconnect, ConnectOk, Disconnect
<1>5. CASE ConnectFail \/ ConnectTimeout
  BY <1>2, <1>5 DEF ConnectFail, ConnectTimeout
<1>6. CASE Retry \/ \E c \in Callers : ReadBlock(c) \/ WriteTimeout(c)
  BY <1>1, <1>3, <1>6 DEF Retry, ReadBlock, WriteTimeout
<1>7. ASSUME NEW r \in readers, ReadHeader(r) \/ ReadPayload(r) \/ ReadEnd(r) \/ ReadTimeout(r)
      PROVE  pool' = pool \/ pool' = "left"
  BY <1>1, <1>7 DEF ReadHeader, ReadPayload, ReadEnd, ReadTimeout, Throw, RejectAll
<1>8. ASSUME NEW g \in Generations, LateConnect(g) \/ LateConnectFail(g) \/ ServerClose(g)
      PROVE  pool' = pool
  BY <1>8 DEF LateConnect, LateConnectFail, ServerClose
<1>9. ASSUME NEW g \in Generations, NEW q \in Queries, Answer(g, q) \/ AnswerError(g, q) PROVE pool' = pool
  BY <1>9 DEF Answer, AnswerError
<1>10. ASSUME NEW g \in Generations, TransportError(g) PROVE pool' = pool \/ pool' = "left"
  BY <1>1, <1>10 DEF TransportError
<1> QED BY <1>4, <1>5, <1>6, <1>7, <1>8, <1>9, <1>10 DEF Next, ClientStep, ServerStep

(* What is left of the callers that await an answer is attended as before. *)
LEMMA AttendedOnly ==
  ASSUME Attended, pool = "in", readers' = readers, backlog \subseteq backlog',
         connected' = 0,
         \A c \in Pending' : c \in Pending /\ Query(c)' = Query(c)
  PROVE  Attended'
BY DEF Attended

LEMMA AttendedSame ==
  ASSUME Attended, pool = "in", UNCHANGED <<readers, backlog, waiting, connected, caller>>
  PROVE  Attended'
BY DEF Attended, Pending, Query

(* Nobody is left to await an answer. *)
LEMMA AttendedNone ==
  ASSUME Pending' = {}, connected' = 0
  PROVE  Attended'
BY DEF Attended

(* The callers a rejection leaves pending were pending, and not rejected. *)
LEMMA RejectPending ==
  ASSUME Inv, NEW calls \in [Callers -> CallerType], NEW lost \in SUBSET Callers, NEW over \in SUBSET Callers,
         NEW current, NEW links, Reject(calls, lost, over, current, links)
  PROVE  \A c \in Pending' : /\ c \in Callers /\ c \notin lost /\ c \notin over
                             /\ calls[c].pc = "pending" /\ Query(c)' = <<c, calls[c].tries>>
<1>1. /\ \A c \in Callers : caller'[c].tries = calls[c].tries
      /\ \A c \in lost \cup over : caller'[c].pc \in {"failed", "reconnecting"}
      /\ \A c \in Callers : c \notin lost \cup over => caller'[c] = calls[c]
  <2>1. /\ \A c \in Callers : caller'[c].tries = calls[c].tries /\ caller'[c].data = calls[c].data
        /\ \A c \in lost \cup over : \/ caller'[c].pc = "failed"
                                     \/ caller'[c].pc = "reconnecting" /\ calls[c].tries < ReadBlockRetries
        /\ \A c \in Callers : c \notin lost \cup over => caller'[c] = calls[c]
    BY RejectCalls
  <2> QED BY <2>1
<1> QED BY <1>1 DEF Pending, Query

(* The coroutine throws before a header: it rejects every caller. *)
LEMMA ThrowAttended ==
  ASSUME Inv, Attended, pool = "in", NEW r \in readers, r.phase = "header",
         NEW links \in [Generations -> LinkStates], Reject(caller, InBacklog, {}, attempt, links)
  PROVE  Pending' = {} /\ connected' = 0
<1>1. readers = {r} /\ r.query = NoQuery
  BY ReaderFacts
<1>2. InBacklog \in SUBSET Callers /\ {} \in SUBSET Callers /\ caller \in [Callers -> CallerType]
  BY OwnCalls DEF InBacklog, Pending
<1>3. ASSUME NEW c \in Pending PROVE c \in InBacklog
  <2>1. c \in Callers /\ caller[c] \in CallerType
    BY <1>2 DEF Pending
  <2>2. caller[c].tries \in 1 .. ReadBlockRetries
    BY <2>1, CallerFacts, Zenon
  <2>3. Query(c) # NoQuery
    BY <2>1, <2>2, QueryFacts DEF Query
  <2>4. Query(c) \in backlog
    BY <1>1, <2>3 DEF Attended
  <2> QED BY <2>4 DEF InBacklog
<1>4. Pending' = {}
  <2>1. \A c \in Pending' : c \in Callers /\ c \notin InBacklog /\ caller[c].pc = "pending"
    <3> HIDE DEF InBacklog
    <3> QED BY <1>2, RejectPending, Zenon
  <2> QED BY <1>3, <2>1 DEF Pending
<1>5. connected' = 0
  <2>1. CASE connected = 0
    BY <2>1, RejectLinks
  <2>2. CASE connected # 0
    <3>1. attempt.pc = "none"
      BY <2>2 DEF Inv, Links
    <3>2. backlog # {} /\ \A q \in backlog : \E c \in Pending : q = Query(c)
      BY <2>2 DEF Attended
    <3>3. InBacklog # {}
      BY <1>3, <3>2
    <3> QED BY <3>1, <3>3, RejectLinks
  <2> QED BY <2>1, <2>2
<1> QED BY <1>4, <1>5

LEMMA ReadAttended ==
  ASSUME ~PayloadFaults, Inv, Attended, pool = "in", NEW r \in readers,
         ReadHeader(r) \/ ReadEnd(r) \/ ReadTimeout(r)
  PROVE  Attended'
<1>0. /\ r.gen \in Generations /\ wire[r.gen] \in Seq(Items)
      /\ WellFormed(wire[r.gen], r.query)
      /\ r.phase = "header" <=> r.query = NoQuery
      /\ r.phase = "payload" => r.query \in Queries
      /\ readers = {r}
      /\ r.phase \in {"header", "payload"}
  BY ReaderFacts DEF ReaderType
<1>1. r.phase = "header"
  <2>1. CASE ReadHeader(r)
    BY <2>1 DEF ReadHeader
  <2>2. CASE ReadEnd(r)
    <3>1. wire[r.gen] = <<>>
      BY <2>2 DEF ReadEnd
    <3> QED BY <1>0, <3>1, PayloadWire
  <2>3. CASE ReadTimeout(r)
    BY <2>3 DEF ReadTimeout, Spares
  <2> QED BY <2>1, <2>2, <2>3
<1>2. ASSUME Throw(r) PROVE Attended'
  <2>1. Reject(caller, InBacklog, {}, attempt, link)
    BY <1>2 DEF Throw, RejectAll
  <2>2. Pending' = {} /\ connected' = 0
    BY <1>1, <2>1, OwnCalls, ThrowAttended
  <2> QED BY <2>2, AttendedNone
<1>3. ASSUME ReadHeader(r), ~Throw(r) PROVE Attended'
  <2> DEFINE q == Head(wire[r.gen]).query
             s == [r EXCEPT !.phase = "payload", !.query = q]
  <2>1. /\ q \in backlog /\ backlog' = backlog \ {q}
        /\ readers' = (readers \ {r}) \cup {s}
        /\ UNCHANGED <<waiting, connected, link, attempt, caller, pool>>
    BY <1>3, Zenon DEF ReadHeader
  <2>2. readers' = {s}
    BY <1>0, <2>1
  <2>3. s.phase = "payload" /\ s.query = q
    BY ReaderFacts DEF ReaderType
  <2> HIDE DEF s, q
  <2>4. Pending' = Pending /\ \A c : Query(c)' = Query(c)
    BY <2>1 DEF Pending, Query
  <2>5. ASSUME NEW c \in Pending PROVE Query(c) \in backlog \/ r.query = Query(c)
    BY <1>0 DEF Attended
  <2>6. ASSUME NEW c \in Pending PROVE Query(c) \in backlog
    <3>1. c \in Callers /\ caller[c] \in CallerType
      BY DEF Inv, Typed, Pending
    <3>2. caller[c].tries \in 1 .. ReadBlockRetries
      BY <3>1, CallerFacts, Zenon
    <3>3. Query(c) # NoQuery
      BY <3>1, <3>2, QueryFacts DEF Query
    <3> QED BY <1>0, <1>1, <2>5, <3>3
  <2>7. \A c \in Pending : Query(c) \in backlog' \/ s.query = Query(c)
    BY <2>1, <2>3, <2>6
  <2>8. connected # 0 => \A p \in backlog' : \E c \in Pending : p = Query(c)
    BY <2>1 DEF Attended
  <2> QED BY <2>1, <2>2, <2>3, <2>4, <2>7, <2>8 DEF Attended
<1> QED BY <1>2, <1>3 DEF ReadEnd, ReadTimeout

LEMMA ReadPayloadAttended ==
  ASSUME Inv, Attended, pool = "in", NEW r \in readers, ReadPayload(r)
  PROVE  Attended'
<1> DEFINE done == Resolved(r)
<1>1. /\ r.phase = "payload" /\ waiting' = (backlog # {}) /\ UNCHANGED backlog
  BY ReadPayloadParts
<1>2. readers = {r} /\ r.query \in Queries
  BY <1>1, ReaderFacts
<1>3. /\ done \in [Callers -> CallerType]
      /\ \A c \in Callers : done[c].tries = caller[c].tries
      /\ \A c \in Callers : done[c] = caller[c] \/ done[c].pc = "done"
      /\ \A c \in Pending : done[c].pc = "pending" => Query(c) # r.query
  BY <1>1, ResolvedFacts
<1>4. ASSUME NEW c \in Callers, done[c].pc = "pending"
      PROVE  c \in Pending /\ Query(c) \in backlog /\ <<c, done[c].tries>> = Query(c)
  <2>1. done[c] = caller[c] /\ c \in Pending
    BY <1>3, <1>4 DEF Pending
  <2>2. Query(c) # r.query
    BY <1>3, <1>4, <2>1
  <2> QED BY <1>2, <1>3, <2>1, <2>2 DEF Attended, Query
<1> HIDE DEF done
<1>5. CASE /\ backlog = {} \/ connected # 0
           /\ readers' = (readers \ {r}) \cup (IF backlog = {} THEN {} ELSE {Reader(connected, r.query)})
           /\ caller' = done
           /\ UNCHANGED <<connected, link, attempt, pool>>
  <2>1. \A c \in Pending' : /\ c \in Pending /\ Query(c) \in backlog /\ Query(c)' = Query(c)
    BY <1>4, <1>5 DEF Pending, Query
  <2>2. CASE backlog = {}
    <3>1. Pending' = {} /\ readers' = {}
      BY <1>2, <1>5, <2>1, <2>2
    <3> QED BY <1>1, <2>2, <3>1 DEF Attended
  <2>3. CASE backlog # {}
    <3> DEFINE s == Reader(connected, r.query)
    <3>1. readers' = {s} /\ connected # 0 /\ s.query = NoQuery
      BY <1>2, <1>5, <2>3 DEF Reader
    <3> HIDE DEF s
    <3>2. NoQuery \notin backlog
      BY QueryFacts DEF Inv, Typed
    <3>3. ASSUME NEW q \in backlog PROVE \E c \in Pending' : q = Query(c)'
      <4>1. PICK c \in Pending : q = Query(c)
        BY <3>1 DEF Attended
      <4>2. Query(c) # r.query
        BY <1>2, <3>1, <4>1 DEF Attended
      <4>3. c \in Callers /\ done[c] = caller[c]
        <5>1. c \in Callers
          BY DEF Pending
        <5>2. done[c].pc # "pending" => Query(c) = r.query
          BY <5>1 DEF done, Resolved, Pending, Inv, Typed
        <5> QED BY <1>3, <4>2, <5>1, <5>2
      <4>4. c \in Pending' /\ Query(c)' = Query(c)
        BY <1>5, <4>3 DEF Pending, Query
      <4> QED BY <4>1, <4>4
    <3> QED BY <1>1, <2>1, <2>3, <3>1, <3>2, <3>3 DEF Attended
  <2> QED BY <2>2, <2>3
<1>6. CASE /\ backlog # {} /\ connected = 0
           /\ readers' = readers \ {r}
           /\ Reject(done, InBacklog, {}, attempt, link)
  <2>1. InBacklog \in SUBSET Callers /\ {} \in SUBSET Callers
    BY DEF InBacklog, Pending
  <2>2. \A c \in Pending' : c \in Callers /\ c \notin InBacklog /\ done[c].pc = "pending"
    <3> HIDE DEF InBacklog
    <3> QED BY <1>3, <1>6, <2>1, RejectPending, Zenon
  <2>3. Pending' = {}
    BY <1>4, <2>2 DEF InBacklog
  <2>4. connected' = 0
    BY <1>6, RejectLinks
  <2> QED BY <2>3, <2>4, AttendedNone
<1> QED BY <1>5, <1>6, ReadPayloadParts DEF done

LEMMA TryReadAttended ==
  ASSUME Inv, Attended, pool = "in", NEW calls \in [Callers -> CallerType],
         NEW cs \in SUBSET Callers, cs # {}, cs \cap Pending = {},
         \A c \in cs : calls[c].pc # "pending",
         \A c \in Callers : c \notin cs => calls[c] = caller[c],
         \A c \in cs : \A q \in Queries : Known(q) /\ q[1] = c => q[2] < calls[c].tries,
         TryRead(cs, calls)
  PROVE  Attended'
<1> DEFINE qs == {<<c, calls[c].tries>> : c \in cs}
           move(pc) == [c \in Callers |-> IF c \in cs THEN [calls[c] EXCEPT !.pc = pc] ELSE calls[c]]
<1>0. \A pc : /\ \A c \in cs : move(pc)[c].pc = pc /\ move(pc)[c].tries = calls[c].tries
              /\ \A c \in Callers : c \notin cs => move(pc)[c] = caller[c]
  BY CallerFields
<1>1. CASE /\ attempt.pc # "none"
           /\ caller' = move("gate")
           /\ UNCHANGED <<connected, link, asked, reading, attempt, pool>>
  <2>1. UNCHANGED <<backlog, waiting, readers>> /\ connected' = 0
    BY <1>1 DEF reading, Inv, Links
  <2>2. \A c \in Callers : c \in cs => caller'[c].pc = "gate"
    BY <1>0, <1>1
  <2>3. \A c \in Callers : c \notin cs => caller'[c] = caller[c]
    BY <1>0, <1>1
  <2>4. \A c \in Pending' : c \in Pending /\ Query(c)' = Query(c)
    BY <2>2, <2>3 DEF Pending, Query
  <2> QED BY <2>1, <2>4, AttendedOnly
<1>2. CASE /\ attempt.pc = "none" /\ connected # 0
           /\ caller' = move("pending")
           /\ Send(qs, connected, backlog, waiting)
           /\ UNCHANGED <<connected, link, attempt, pool>>
  <2>1. \A c \in cs : c \in Callers /\ caller'[c].pc = "pending" /\ caller'[c].tries = calls[c].tries
    BY <1>0, <1>2
  <2>2. \A c \in Callers : c \notin cs => caller'[c] = caller[c]
    BY <1>0, <1>2
  <2>3. \A c \in cs : c \in Pending' /\ Query(c)' = <<c, calls[c].tries>>
    BY <2>1 DEF Pending, Query
  <2>4. \A c \in Pending : c \in Pending' /\ Query(c)' = Query(c)
    BY <2>2 DEF Pending, Query
  <2>5. \A c \in Pending' : c \in cs \/ c \in Pending
    BY <2>2 DEF Pending
  <2>6. \A q \in qs : \E c \in Pending' : q = Query(c)'
    BY <2>3
  <2>7. \A c \in cs : Query(c)' \in qs
    BY <2>3
  <2>8. \A q \in qs : ~Known(q)
    <3> SUFFICES ASSUME NEW c \in cs, Known(<<c, calls[c].tries>>) PROVE FALSE
      OBVIOUS
    <3>1. calls[c] \in CallerType
      OBVIOUS
    <3>2. calls[c].tries \in 1 .. ReadBlockRetries
      BY <3>1, CallerFacts, Zenon
    <3> DEFINE q == <<c, calls[c].tries>>
    <3>3. q \in Queries /\ q[1] = c /\ q[2] = calls[c].tries
      BY <3>2, QueryFacts
    <3> HIDE DEF q
    <3>4. Known(q)
      BY DEF q
    <3>5. calls[c].tries < calls[c].tries
      BY <3>3, <3>4
    <3> QED BY <3>2, <3>5
  <2>9. qs # {}
    OBVIOUS
  <2> HIDE DEF qs, move
  <2>10. /\ backlog' = backlog \cup qs /\ waiting' = TRUE
         /\ waiting => readers' = readers
         /\ ~waiting => \E q \in qs : readers' = readers \cup {Reader(connected, q)}
    BY <1>2, <2>9 DEF Send
  <2>11. readers' # {} /\ readers \subseteq readers'
    <3>1. CASE waiting
      BY <1>2, <2>10, <3>1 DEF Attended
    <3>2. CASE ~waiting
      BY <2>10, <3>2
    <3> QED BY <3>1, <3>2
  <2>12. \A r \in readers' : r.query \notin backlog'
    <3>1. \A r \in readers : r.query \notin backlog
      BY <1>2 DEF Attended
    <3>2. ASSUME NEW r \in readers PROVE r.query \notin qs
      <4>1. CASE r.phase = "payload"
        <5>1. r.gen \in Generations /\ r.query \in Queries /\ wire[r.gen] \in Seq(Items) /\ WellFormed(wire[r.gen], r.query)
          BY <4>1, ReaderFacts
        <5>2. wire[r.gen] # <<>> /\ Head(wire[r.gen]).query = r.query
          BY <5>1, PayloadWire
        <5>3. r.query \in Mentioned(wire[r.gen])
          BY <5>1, <5>2, TailWire
        <5>4. Known(r.query)
          BY <5>1, <5>3 DEF Known
        <5> QED BY <2>8, <5>4
      <4>2. CASE r.phase # "payload"
        <5>1. r.query = NoQuery
          BY <4>2, ReaderFacts DEF ReaderType
        <5>2. qs \subseteq Queries
          <6>1. \A c \in cs : calls[c] \in CallerType
            OBVIOUS
          <6>2. \A c \in cs : calls[c].tries \in 1 .. ReadBlockRetries
            BY <6>1, CallerFacts
          <6> QED BY <6>2, QueryFacts DEF qs
        <5> QED BY <5>1, <5>2, QueryFacts
      <4> QED BY <4>1, <4>2
    <3>3. \A q : Reader(connected, q).query = NoQuery
      BY DEF Reader
    <3>4. NoQuery \notin backlog'
      <4>1. \A c \in cs : calls[c] \in CallerType
        OBVIOUS
      <4>2. \A c \in cs : calls[c].tries \in 1 .. ReadBlockRetries
        BY <4>1, CallerFacts
      <4>3. qs \subseteq Queries
        BY <4>2, QueryFacts DEF qs
      <4> QED BY <2>10, <4>3, QueryFacts DEF Inv, Typed
    <3> HIDE DEF Reader
    <3>5. CASE waiting
      BY <2>10, <3>1, <3>2, <3>5
    <3>6. CASE ~waiting
      <4>1. PICK q \in qs : readers' = readers \cup {Reader(connected, q)}
        BY <2>10, <3>6
      <4> QED BY <2>10, <3>1, <3>2, <3>3, <3>4, <4>1
    <3> QED BY <3>5, <3>6
  <2>13. \A q \in backlog' : \E c \in Pending' : q = Query(c)'
    <3>1. \A q \in backlog : \E c \in Pending : q = Query(c)
      BY <1>2 DEF Attended
    <3> QED BY <2>4, <2>6, <2>10, <3>1
  <2>14. \A c \in Pending' : Query(c)' \in backlog' \/ \E r \in readers' : r.query = Query(c)'
    <3> TAKE c \in Pending'
    <3>1. CASE c \in cs
      BY <2>7, <2>10, <3>1
    <3>2. CASE c \in Pending
      BY <2>4, <2>10, <2>11, <3>2 DEF Attended
    <3> QED BY <2>5, <3>1, <3>2
  <2>15. backlog' # {}
    BY <2>9, <2>10
  <2> QED BY <2>11, <2>12, <2>13, <2>14, <2>15 DEF Attended
<1>3. CASE /\ attempt.pc = "none" /\ connected = 0
           /\ backlog' = backlog \cup qs
           /\ Reject(calls, cs, {}, attempt, link)
           /\ UNCHANGED <<asked, waiting, readers>>
  <2>1. \A c \in Pending' : /\ c \in Callers /\ c \notin cs
                            /\ calls[c].pc = "pending" /\ Query(c)' = <<c, calls[c].tries>>
    <3>1. {} \in SUBSET Callers
      OBVIOUS
    <3> QED BY <1>3, <3>1, RejectPending
  <2>2. \A c \in Pending' : c \in Pending /\ Query(c)' = Query(c)
    BY <2>1 DEF Pending, Query
  <2>3. connected' = 0
    BY <1>3, RejectLinks
  <2> QED BY <1>3, <2>2, <2>3, AttendedOnly
<1> QED BY <1>1, <1>2, <1>3 DEF TryRead, move, qs

LEMMA ConnectOkAttended ==
  ASSUME ~LateClose, Inv, Opening, Attended, pool \in {"connecting", "in"}, ConnectOk
  PROVE  Attended'
<1> DEFINE g == generation
           gate == {d \in Callers : caller[d].pc = "gate"}
           qs == {Query(c) : c \in gate}
<1>1. /\ readers = {} /\ Send(qs, g, {}, FALSE) /\ caller' = Released
  BY DEF ConnectOk, Timely, Released
<1>2. Pending = {}
  <2>1. CASE pool = "in"
    BY <1>1, <2>1 DEF Attended
  <2>2. CASE pool = "connecting"
    BY <2>2 DEF Opening, Pending
  <2> QED BY <2>1, <2>2
<1>3. /\ \A c \in Callers : caller'[c].tries = caller[c].tries
      /\ \A c \in Callers : \/ caller[c].pc = "gate" /\ caller'[c].pc = "pending"
                            \/ caller[c].pc = "reconnecting" /\ caller'[c].pc = "delay"
                            \/ caller[c].pc \notin {"gate", "reconnecting"} /\ caller'[c] = caller[c]
  BY <1>1, ReleasedFacts DEF Inv
<1>4. Pending' = gate /\ \A c \in gate : Query(c)' = Query(c)
  BY <1>2, <1>3 DEF Pending, Query
<1>5. NoQuery \notin qs
  BY DEF Query, NoQuery
<1> HIDE DEF gate
<1>6. /\ backlog' = qs /\ waiting' = (qs # {})
      /\ qs = {} => readers' = {}
      /\ qs # {} => \E q \in qs : readers' = {Reader(g, q)}
  BY <1>1 DEF Send
<1>7. \A r \in readers' : r.query = NoQuery /\ qs # {}
  BY <1>6 DEF Reader
<1>8. qs # {} => readers' # {}
  BY <1>6
<1>9. Pending' # {} => qs # {}
  BY <1>4
<1>10. \A c \in Pending' : Query(c)' \in backlog'
  BY <1>4, <1>6
<1>11. \A q \in backlog' : \E c \in Pending' : q = Query(c)'
  BY <1>4, <1>6
<1> QED BY <1>5, <1>6, <1>7, <1>8, <1>9, <1>10, <1>11 DEF Attended

LEMMA AttemptRejectsAttended ==
  ASSUME Inv, Attended, pool = "in", Awaited, NEW links, AttemptRejects(links), UNCHANGED <<backlog, readers>>
  PROVE  Attended'
<1>1. connected = 0 /\ attempt.pc # "first"
  BY DEF Inv, Links, Awaited
<1>2. CASE UNCHANGED <<connected, caller>>
  <2>1. \A c \in Pending' : c \in Pending /\ Query(c)' = Query(c)
    BY <1>2 DEF Pending, Query
  <2> QED BY <1>1, <1>2, <2>1, AttendedOnly
<1>3. ASSUME NEW lost \in SUBSET Callers, NEW over \in SUBSET Callers, Reject(caller, lost, over, NoAttempt, links)
      PROVE  Attended'
  <2>1. \A c \in Pending' : c \in Callers /\ caller[c].pc = "pending" /\ Query(c)' = <<c, caller[c].tries>>
    BY <1>3, OwnCalls, RejectPending
  <2>2. \A c \in Pending' : c \in Pending /\ Query(c)' = Query(c)
    BY <2>1 DEF Pending, Query
  <2>3. connected' = 0
    BY <1>1, <1>3, RejectLinks
  <2> QED BY <2>2, <2>3, AttendedOnly
<1>4. /\ {c \in Callers : caller[c].pc = "gate"} \in SUBSET Callers
      /\ {c \in Callers : caller[c].pc = "reconnecting"} \in SUBSET Callers
  OBVIOUS
<1> QED BY <1>1, <1>2, <1>3, <1>4 DEF AttemptRejects

LEMMA WriteTimeoutAttended ==
  ASSUME Inv, Attended, pool = "in", NEW c \in Callers, WriteTimeout(c)
  PROVE  Attended'
<1>1. Reject(caller, {c}, {}, attempt, link) /\ UNCHANGED <<backlog, readers>>
  BY DEF WriteTimeout, reading
<1>2. \A d \in Pending' : d \in Callers /\ caller[d].pc = "pending" /\ Query(d)' = <<d, caller[d].tries>>
  <2>1. {c} \in SUBSET Callers /\ {} \in SUBSET Callers
    OBVIOUS
  <2> QED BY <1>1, <2>1, OwnCalls, RejectPending
<1>3. \A d \in Pending' : d \in Pending /\ Query(d)' = Query(d)
  BY <1>2 DEF Pending, Query
<1>4. connected' = 0
  <2>1. CASE attempt.pc = "none"
    BY <1>1, <2>1, RejectLinks
  <2>2. CASE attempt.pc # "none"
    <3>1. connected = 0
      BY <2>2 DEF Inv, Links
    <3> QED BY <1>1, <3>1, RejectLinks
  <2> QED BY <2>1, <2>2
<1> QED BY <1>1, <1>3, <1>4, AttendedOnly

LEMMA TransportErrorAttended ==
  ASSUME ~PayloadFaults, Inv, Attended, pool = "in", NEW g \in Generations, TransportError(g)
  PROVE  Attended'
<1> DEFINE lost == IF g = connected \/ readers # readers' THEN InBacklog ELSE {}
           links == [link EXCEPT ![g] = "gone"]
<1>1. /\ Spares(g) /\ readers' = {r \in readers : r.gen # g}
      /\ Reject(caller, lost, {}, attempt, links)
      /\ UNCHANGED <<backlog, waiting>>
  BY DEF TransportError
<1>2. links \in [Generations -> LinkStates]
  BY OwnCalls, GoneLinks
<1> HIDE DEF links
<1>3. CASE \E r \in readers : r.gen = g
  <2>1. PICK r \in readers : r.gen = g
    BY <1>3
  <2>2. r.phase = "header"
    BY <1>1, <2>1 DEF Spares
  <2>3. readers # readers'
    BY <1>1, <2>1
  <2>4. Reject(caller, InBacklog, {}, attempt, links)
    BY <1>1, <2>3
  <2>5. Pending' = {} /\ connected' = 0
    BY <1>2, <2>2, <2>4, ThrowAttended
  <2> QED BY <2>5, AttendedNone
<1>4. CASE ~ \E r \in readers : r.gen = g
  <2>1. readers' = readers
    BY <1>1, <1>4
  <2>2. lost = {}
    <3>1. CASE g # connected
      BY <2>1, <3>1
    <3>2. CASE g = connected
      <4>1. connected # 0
        BY <3>2, NoGenerationZero
      <4>2. readers = {}
        BY <1>4, <3>2, <4>1 DEF Inv, ReadersOK
      <4>3. Pending = {}
        BY <4>2 DEF Attended
      <4> QED BY <4>3 DEF InBacklog
    <3> QED BY <3>1, <3>2
  <2>3. Reject(caller, {}, {}, attempt, links)
    BY <1>1, <2>2
  <2>4. connected' = connected
    BY <2>3, RejectLinks
  <2>5. \A c \in Callers : caller'[c] = caller[c]
    <3>1. {} \in SUBSET Callers
      OBVIOUS
    <3>2. \A c \in Callers : c \notin {} \cup {} => caller'[c] = caller[c]
      BY <2>3, <3>1, OwnCalls, RejectCalls, Zenon
    <3> QED BY <3>2
  <2>6. Pending' = Pending /\ \A c \in Pending : Query(c)' = Query(c)
    BY <2>5 DEF Pending, Query
  <2> QED BY <1>1, <2>1, <2>4, <2>6 DEF Attended
<1> QED BY <1>3, <1>4

LEMMA AttendedStep ==
  ASSUME ~LateClose, ~PayloadFaults, Inv, Opening, Attended, Next, pool = "in"
  PROVE  Attended'
<1>1. CASE Connect \/ Disconnect
  BY <1>1 DEF Connect, Disconnect, Attended
<1>2. CASE Reconnect
  BY <1>2, AttendedSame DEF Reconnect, reading
<1>3. CASE ConnectOk
  BY <1>3, ConnectOkAttended
<1>4. CASE Retry
  <2>1. PICK cs \in {Delayed} \cup {{c} : c \in Delayed} : TryRead(cs, Again(cs))
    BY <1>4 DEF Retry, Again
  <2>2. cs # {} /\ cs \subseteq Delayed /\ cs \in SUBSET Callers
    BY <1>4 DEF Retry, Delayed
  <2>3. /\ Again(cs) \in [Callers -> CallerType]
        /\ \A c \in Callers : c \notin cs => Again(cs)[c] = caller[c]
        /\ \A c \in cs : Again(cs)[c].pc # "pending"
        /\ \A c \in cs : \A q \in Queries : Known(q) /\ q[1] = c => q[2] < Again(cs)[c].tries
    BY <2>2, RetryCalls
  <2>4. cs \cap Pending = {}
    BY <2>2 DEF Delayed, Pending
  <2> QED BY <2>1, <2>2, <2>3, <2>4, TryReadAttended
<1>5. ASSUME NEW g \in Generations, LateConnect(g) PROVE Attended'
  <2>1. Late(g) /\ UNCHANGED <<connected, readers, caller, pool>>
    BY <1>5 DEF LateConnect
  <2>2. CASE UNCHANGED <<backlog, waiting>>
    BY <2>1, <2>2, AttendedSame
  <2>3. CASE g = generation /\ readers = {}
    <3>1. connected = 0
      BY <2>1, <2>3 DEF Inv, Links, Late
    <3>2. Pending' = {}
      BY <2>1, <2>3 DEF Attended, Pending
    <3> QED BY <2>1, <3>1, <3>2, AttendedNone
  <2> QED BY <1>5, <2>2, <2>3 DEF LateConnect, Timely
<1>6. ASSUME NEW r \in readers, ReadHeader(r) \/ ReadEnd(r) \/ ReadTimeout(r) PROVE Attended'
  BY <1>6, ReadAttended
<1>7. ASSUME NEW r \in readers, ReadPayload(r) PROVE Attended'
  BY <1>7, ReadPayloadAttended
<1>8. ASSUME NEW g \in Generations, NEW q \in Queries, Answer(g, q) \/ AnswerError(g, q) PROVE Attended'
  BY <1>8, AttendedSame DEF Answer, AnswerError, reading
<1>9. ASSUME NEW g \in Generations, ServerClose(g) \/ LateConnectFail(g) PROVE Attended'
  BY <1>9, AttendedSame DEF ServerClose, LateConnectFail, reading
<1>10. ASSUME NEW g \in Generations, TransportError(g) PROVE Attended'
  BY <1>10, TransportErrorAttended
<1>11. CASE ConnectFail \/ ConnectTimeout
  BY <1>11, AttemptRejectsAttended DEF ConnectFail, ConnectTimeout, reading
<1>12. ASSUME NEW c \in Callers, ReadBlock(c) PROVE Attended'
  <2>1. caller[c].pc = "idle" /\ TryRead({c}, caller)
    BY <1>12 DEF ReadBlock
  <2>2. \A q \in Queries : Known(q) /\ q[1] = c => q[2] < caller[c].tries
    BY <2>1 DEF Inv, Past, Made
  <2>3. {c} \cap Pending = {}
    BY <2>1 DEF Pending
  <2> QED BY <2>1, <2>2, <2>3, OwnCalls, TryReadAttended
<1>13. ASSUME NEW c \in Callers, WriteTimeout(c) PROVE Attended'
  BY <1>13, WriteTimeoutAttended
<1> QED
  BY <1>1, <1>2, <1>3, <1>4, <1>5, <1>6, <1>7, <1>8, <1>9, <1>10, <1>11, <1>12, <1>13
     DEF Next, ClientStep, ServerStep

LEMMA OpeningStep ==
  ASSUME ~LateClose, ~PayloadFaults, Inv, Opening, Attended, [Next]_vars
  PROVE  Opening' /\ Attended'
<1>1. CASE UNCHANGED vars
  BY <1>1 DEF vars, Opening, Attended, Pending, Query
<1>2. CASE Next /\ pool = "new"
  <2>1. Connect
    BY <1>2, FirstStep DEF Inv, Links
  <2>2. /\ pool' = "connecting" /\ attempt' = [pc |-> "first", tries |-> 1]
        /\ link' = [link EXCEPT ![generation + 1] = "handshake"] /\ generation' = generation + 1
        /\ UNCHANGED <<readers, caller>>
    BY <2>1 DEF Connect, NewAttempt, reading
  <2>3. /\ readers = {} /\ \A c \in Callers : caller[c].pc = "idle"
        /\ link = [g \in Generations |-> "none"]
    BY <1>2 DEF Inv, Links, Untouched
  <2>4. \A g \in Generations : link'[g] = "none" \/ (link'[g] = "handshake" /\ g = generation')
    BY <2>2, <2>3
  <2> QED BY <2>2, <2>3, <2>4 DEF Opening, Attended
<1>3. CASE Next /\ pool = "connecting"
  <2>1. ConnectOk \/ ConnectFail \/ ConnectTimeout
    BY <1>3, SecondStep
  <2>2. attempt.pc = "first"
    BY <1>3 DEF Opening
  <2>3. CASE ConnectOk
    <3>1. pool' = "in"
      BY <2>2, <2>3 DEF ConnectOk
    <3> QED BY <1>3, <2>3, <3>1, ConnectOkAttended DEF Opening
  <2>4. CASE ConnectFail \/ ConnectTimeout
    <3>1. pool' = "left"
      BY <2>2, <2>4 DEF ConnectFail, ConnectTimeout, AttemptRejects
    <3> QED BY <3>1 DEF Opening, Attended
  <2> QED BY <2>1, <2>3, <2>4
<1>4. CASE Next /\ pool \in {"in", "left"}
  <2>1. pool' = pool \/ pool' = "left"
    BY <1>4, PoolStep
  <2>2. Opening'
    BY <1>4, <2>1 DEF Opening
  <2>3. CASE pool = "in"
    BY <1>4, <2>2, <2>3, AttendedStep
  <2>4. CASE pool = "left"
    BY <2>1, <2>2, <2>4 DEF Attended
  <2> QED BY <1>4, <2>3, <2>4
<1> QED BY <1>1, <1>2, <1>3, <1>4 DEF Inv, Typed

(* As long as the client is in the pool, every caller that awaits an answer
   has a coroutine that will resolve or reject its promise: the coroutine
   goes on while the backlog is not empty, and one that throws rejects the
   whole backlog.  A fault between a header and its payload is left out: it
   does leave a caller behind.                                             *)
THEOREM NoOrphanHolds ==
  ASSUME ~LateClose, ~PayloadFaults
  PROVE  Spec => []NoOrphan
<1>1. Init => Opening /\ Attended
  BY DEF Init, Opening, Attended
<1>2. Inv /\ Opening /\ Attended /\ [Next]_vars => Opening' /\ Attended'
  BY OpeningStep
<1>3. Attended => NoOrphan
  <2> SUFFICES ASSUME Attended, pool = "in", NEW c \in Pending PROVE Served(c)
    BY DEF NoOrphan
  <2> QED BY DEF Attended, Served
<1> QED BY <1>1, <1>2, <1>3, Invariant, PTL DEF Spec
=============================================================================
