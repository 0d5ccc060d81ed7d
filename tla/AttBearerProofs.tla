-------------------------- MODULE AttBearerProofs --------------------------
(***************************************************************************)
(* The request tracker for any number of requests, and the ATT bearer for  *)
(* any number of callers, characteristics and fragments.  The callers, the *)
(* peer and the connection use the tracker as its own specification        *)
(* allows, so what is proved of the tracker holds on a connection.         *)
(***************************************************************************)
EXTENDS AttBearer, FiniteSetTheorems, SequenceTheorems, TLAPS

\* Numbers are handed out in order: what lies beyond count was never used.
Started ==
  /\ \A i \in Requests : outcome[i] = "unused" <=> i > count
  /\ expired <= count
  /\ taken \subseteq 1 .. expired

\* The pending request's own goroutine has not finished: it has yet to look at the
\* slot, it waits for the request's own timer, or it is about to time it out.
OwnGoroutine ==
  HasPending =>
    \/ gpc[pending] \in {"starting", "fired"}
    \/ gpc[pending] = "waiting" /\ timer[pending] = pending

\* If the pending request's timer was taken, whoever took it is about to return.
TakenIsFired ==
  HasPending /\ pending \in taken => \E g \in Requests : gpc[g] = "fired"

NewestPending == HasPending => pending = count

TrackerIInv ==
  /\ TrackerTypeOK
  /\ Started
  /\ OpenIsPending
  /\ NewestPending
  /\ OwnGoroutine
  /\ TakenIsFired

-----------------------------------------------------------------------------
\* The inductive invariant implies the property the run checks: a pending request
\* always has a goroutine that will come back for it.
LEMMA WatchedByIInv == TrackerIInv => PendingWatched
<1> SUFFICES ASSUME TrackerIInv, HasPending PROVE PendingWatched
  BY DEF PendingWatched
<1> USE DEF TrackerIInv, HasPending, None, Requests
<1>1. pending \in Requests
  BY DEF TrackerTypeOK
<1>2. pending = count
  BY DEF NewestPending
<1>3. outcome[pending] = "open"
  BY <1>1 DEF OpenIsPending
<1>4. \E g \in Requests : WillReturn(g, pending)
  BY <1>1 DEF OwnGoroutine, TakenIsFired, WillReturn
<1> QED  BY <1>2, <1>3, <1>4 DEF PendingWatched

LEMMA InitIInv == TrackerInit => TrackerIInv
BY TrackerAssumption
   DEF TrackerInit, TrackerIInv, TrackerTypeOK, Outcomes, Started, OpenIsPending, NewestPending,
       OwnGoroutine, TakenIsFired, HasPending, None, Requests

\* Every way to end the pending request leaves a slot without obligations.
LEMMA ResolveKeepsIInv ==
  ASSUME TrackerIInv, HasPending, expired' = expired, taken' = taken,
         gpc' \in [Requests -> {"none", "starting", "waiting", "fired", "done"}],
         timer' = timer,
         NEW how \in {"reply", "error", "timeout", "failed", "cancelled"}, Resolve(how)
  PROVE  TrackerIInv'
<1> USE DEF TrackerIInv, Resolve, HasPending, None, Requests
<1>1. pending \in Requests /\ pending <= count
  BY DEF TrackerTypeOK, NewestPending
<1>2. TrackerTypeOK'
  <2>1. outcome' \in [Requests -> Outcomes]
    BY DEF TrackerTypeOK, Outcomes
  <2>2. pending' \in 0 .. MaxRequests
    BY TrackerAssumption
  <2> QED  BY <2>1, <2>2 DEF TrackerTypeOK
<1>3. Started'
  BY <1>1 DEF Started, TrackerTypeOK, Outcomes
<1>4. OpenIsPending'
  BY <1>1 DEF OpenIsPending, TrackerTypeOK, Outcomes
<1> QED  BY <1>2, <1>3, <1>4 DEF NewestPending, OwnGoroutine, TakenIsFired

-----------------------------------------------------------------------------
LEMMA StartRequestIInv ==
  ASSUME TrackerIInv, NEW op \in Opcode, StartRequest(op)
  PROVE  TrackerIInv'
<1> USE DEF TrackerIInv, StartRequest, CanStart, None, Requests
<1>1. count + 1 \in Requests /\ count \in Nat
  BY TrackerAssumption DEF TrackerTypeOK
<1>2. TrackerTypeOK'
  BY <1>1 DEF TrackerTypeOK, Outcomes
<1>3. Started'
  BY <1>1 DEF Started, TrackerTypeOK
<1>4. OpenIsPending'
  BY <1>1 DEF OpenIsPending, TrackerTypeOK
<1>5. NewestPending' /\ OwnGoroutine'
  BY <1>1 DEF NewestPending, OwnGoroutine, TrackerTypeOK, HasPending
<1>6. TakenIsFired'
  <2>1. count + 1 \notin taken
    BY <1>1 DEF Started, TrackerTypeOK
  <2> QED  BY <2>1 DEF TakenIsFired, HasPending
<1> QED  BY <1>2, <1>3, <1>4, <1>5, <1>6

LEMMA ArmTimeoutIInv ==
  ASSUME TrackerIInv, NEW g \in Requests, ArmTimeout(g)
  PROVE  TrackerIInv'
<1> USE DEF TrackerIInv, ArmTimeout, slot
<1>1. TrackerTypeOK'
  BY DEF TrackerTypeOK
<1>2. Started' /\ OpenIsPending' /\ NewestPending'
  BY DEF Started, OpenIsPending, NewestPending, HasPending
<1>3. OwnGoroutine'
  BY DEF OwnGoroutine, HasPending, None, TrackerTypeOK
<1>4. TakenIsFired'
  <2> SUFFICES ASSUME HasPending, pending \in taken
               PROVE  \E x \in Requests : gpc'[x] = "fired"
    BY DEF TakenIsFired, HasPending
  <2>1. PICK x \in Requests : gpc[x] = "fired"
    BY DEF TakenIsFired
  <2> QED  BY <2>1 DEF TrackerTypeOK
<1> QED  BY <1>1, <1>2, <1>3, <1>4

LEMMA ReceiveTimerIInv ==
  ASSUME TrackerIInv, NEW g \in Requests, ReceiveTimer(g)
  PROVE  TrackerIInv'
<1> USE DEF TrackerIInv, ReceiveTimer, slot
<1>1. TrackerTypeOK'
  <2>1. timer[g] \in 1 .. MaxRequests
    <3>1. expired \in 0 .. MaxRequests /\ timer[g] \in 1 .. expired
      BY DEF TrackerTypeOK
    <3> QED  BY <3>1, TrackerAssumption
  <2>2. taken' \subseteq Requests
    BY <2>1 DEF TrackerTypeOK, Requests
  <2>3. gpc' \in [Requests -> {"none", "starting", "waiting", "fired", "done"}]
    BY DEF TrackerTypeOK
  <2> QED  BY <2>2, <2>3 DEF TrackerTypeOK
<1>2. Started' /\ OpenIsPending' /\ NewestPending'
  BY DEF Started, OpenIsPending, NewestPending, HasPending
<1>3. gpc'[g] = "fired" /\ \A x \in Requests : x # g => gpc'[x] = gpc[x]
  BY DEF TrackerTypeOK
<1>4. OwnGoroutine'
  BY <1>3 DEF OwnGoroutine, HasPending, None, TrackerTypeOK, Requests
<1>5. TakenIsFired'
  BY <1>3 DEF TakenIsFired
<1> QED  BY <1>1, <1>2, <1>4, <1>5

LEMMA FireTimeoutIInv ==
  ASSUME TrackerIInv, NEW g \in Requests, FireTimeout(g)
  PROVE  TrackerIInv'
<1> USE DEF FireTimeout
<1>1. gpc' \in [Requests -> {"none", "starting", "waiting", "fired", "done"}]
  BY DEF TrackerIInv, TrackerTypeOK
<1>2. CASE HasPending
  BY <1>1, <1>2, ResolveKeepsIInv
<1>3. CASE ~HasPending
  BY <1>1, <1>3
     DEF TrackerIInv, slot, TrackerTypeOK, Started, OpenIsPending, NewestPending, OwnGoroutine,
         TakenIsFired, HasPending
<1> QED  BY <1>2, <1>3

LEMMA NextIInv == TrackerIInv /\ [TrackerNext]_tracker => TrackerIInv'
<1> SUFFICES ASSUME TrackerIInv, [TrackerNext]_tracker PROVE TrackerIInv'
  OBVIOUS
<1>1. ASSUME NEW op \in Opcode, StartRequest(op) PROVE TrackerIInv'
  BY <1>1, StartRequestIInv
<1>2. ASSUME NEW op \in Opcode, CompleteRequest(op) PROVE TrackerIInv'
  BY <1>2, ResolveKeepsIInv DEF CompleteRequest, goroutines, TrackerIInv, TrackerTypeOK
<1>3. CASE CompleteWithError
  BY <1>3, ResolveKeepsIInv DEF CompleteWithError, goroutines, TrackerIInv, TrackerTypeOK
<1>4. CASE FailRequest
  BY <1>4, ResolveKeepsIInv DEF FailRequest, goroutines, TrackerIInv, TrackerTypeOK
<1>5. CASE CancelPending
  BY <1>5, ResolveKeepsIInv DEF CancelPending, goroutines, TrackerIInv, TrackerTypeOK
<1>6. ASSUME NEW g \in Requests, ArmTimeout(g) PROVE TrackerIInv'
  BY <1>6, ArmTimeoutIInv
<1>7. ASSUME NEW g \in Requests, ReceiveTimer(g) PROVE TrackerIInv'
  BY <1>7, ReceiveTimerIInv
<1>8. ASSUME NEW g \in Requests, FireTimeout(g) PROVE TrackerIInv'
  BY <1>8, FireTimeoutIInv
<1>9. CASE Expire
  <2> USE DEF Expire, TrackerIInv, slot, goroutines
  <2>1. TrackerTypeOK'
    BY <1>9, TrackerAssumption DEF TrackerTypeOK
  <2>2. Started'
    BY <1>9, TrackerAssumption DEF Started, TrackerTypeOK
  <2>3. OpenIsPending' /\ NewestPending' /\ OwnGoroutine' /\ TakenIsFired'
    BY <1>9 DEF OpenIsPending, NewestPending, OwnGoroutine, TakenIsFired, HasPending
  <2> QED  BY <2>1, <2>2, <2>3
<1>10. CASE UNCHANGED tracker
  BY <1>10 DEF tracker, TrackerIInv, slot, goroutines, TrackerTypeOK, Started, OpenIsPending,
               NewestPending, OwnGoroutine, TakenIsFired, HasPending
<1> QED  BY <1>1, <1>2, <1>3, <1>4, <1>5, <1>6, <1>7, <1>8, <1>9, <1>10
            DEF TrackerNext, Timeouts

LEMMA TrackerInvariant == TrackerSpec => []TrackerIInv
BY InitIInv, NextIInv, PTL DEF TrackerSpec

-----------------------------------------------------------------------------
\* Every reachable state of request_tracker.go is of its type.
THEOREM TrackerTypeCorrect == TrackerSpec => []TrackerTypeOK
<1>1. TrackerIInv => TrackerTypeOK
  BY DEF TrackerIInv
<1> QED  BY <1>1, TrackerInvariant, PTL

\* However many timeout goroutines pile up and whosever timers they take, the
\* pending request is watched by one that will come back to the slot: no caller
\* waits on a response channel that nobody is left to answer.
THEOREM PendingIsWatched == TrackerSpec => []PendingWatched
BY WatchedByIInv, TrackerInvariant, PTL

\* A channel is open exactly while its request is in the slot.
THEOREM OpenExactlyPending == TrackerSpec => []OpenIsPending
<1>1. TrackerIInv => OpenIsPending
  BY DEF TrackerIInv
<1> QED  BY <1>1, TrackerInvariant, PTL

LEMMA HoldsByIInv == TrackerIInv => TrackerInv
BY WatchedByIInv DEF TrackerIInv, TrackerInv

\* The slot, the channels and the timeout goroutines agree in every state.
THEOREM TrackerHolds == TrackerSpec => []TrackerInv
BY HoldsByIInv, TrackerInvariant, PTL

LEMMA ResolveOnce ==
  ASSUME TrackerIInv, HasPending, NEW how, Resolve(how), NEW i \in Requests, Ended(i)
  PROVE  outcome'[i] = outcome[i]
BY DEF TrackerIInv, TrackerTypeOK, OpenIsPending, Ended, Resolve, HasPending, None, Requests

\* No response channel is sent on twice, which would panic on the closed channel.
THEOREM ChannelsAnsweredOnce == TrackerSpec => AnsweredOnce
<1>1. ASSUME TrackerIInv, [TrackerNext]_tracker, NEW i \in Requests, Ended(i)
      PROVE  outcome'[i] = outcome[i]
  <2>1. ASSUME NEW op \in Opcode, StartRequest(op) PROVE outcome'[i] = outcome[i]
    BY <1>1, <2>1, TrackerAssumption
       DEF StartRequest, CanStart, Ended, TrackerIInv, Started, TrackerTypeOK, Requests
  <2>2. ASSUME NEW op \in Opcode, CompleteRequest(op) PROVE outcome'[i] = outcome[i]
    BY <1>1, <2>2, ResolveOnce DEF CompleteRequest
  <2>3. ASSUME CompleteWithError \/ FailRequest \/ CancelPending
        PROVE  outcome'[i] = outcome[i]
    BY <1>1, <2>3, ResolveOnce DEF CompleteWithError, FailRequest, CancelPending
  <2>4. ASSUME NEW g \in Requests, FireTimeout(g) PROVE outcome'[i] = outcome[i]
    BY <1>1, <2>4, ResolveOnce DEF FireTimeout, slot
  <2>5. ASSUME NEW g \in Requests, ArmTimeout(g) \/ ReceiveTimer(g)
        PROVE  outcome'[i] = outcome[i]
    BY <2>5 DEF ArmTimeout, ReceiveTimer, slot
  <2>6. CASE Expire \/ UNCHANGED tracker
    BY <2>6 DEF Expire, tracker, slot
  <2> QED  BY <1>1, <2>1, <2>2, <2>3, <2>4, <2>5, <2>6 DEF TrackerNext, Timeouts
<1>2. TrackerIInv /\ [TrackerNext]_tracker
        => [\A i \in Requests : Ended(i) => outcome'[i] = outcome[i]]_tracker
  BY <1>1
<1> QED  BY <1>2, TrackerInvariant, PTL DEF TrackerSpec, AnsweredOnce

-----------------------------------------------------------------------------
LEMMA OpcodeOfCaller == ASSUME NEW c PROVE OpcodeOf(c) \in Opcode
BY BearerAssumption DEF OpcodeOf

LEMMA CallerDrives ==
  ASSUME NEW c \in Caller, CallerStep(c)
  PROVE  [TrackerNext]_tracker
<1>1. CASE Start(c)
  BY <1>1, OpcodeOfCaller DEF Start, TrackerNext
<1>2. CASE Register(c)
  BY <1>2, OpcodeOfCaller DEF Register, TrackerNext
<1>3. CASE Fail(c)
  BY <1>3 DEF Fail, TrackerNext
<1>4. CASE Check(c) \/ Compare(c) \/ Send(c) \/ ReceiveEcho(c) \/ ReceiveAnswer(c) \/ GiveUp(c)
  BY <1>4 DEF Check, Compare, Send, ReceiveEcho, ReceiveAnswer, GiveUp
<1> QED  BY <1>1, <1>2, <1>3, <1>4 DEF CallerStep

\* A response completes a request of its own opcode, so the tracker sees no
\* opcode that is not one of the requests'.
LEMMA DeliverDrives ==
  ASSUME Deliver, TrackerTypeOK, pending # None => opcode[pending] \in Opcode
  PROVE  [TrackerNext]_tracker
<1> DEFINE m == Head(down)
<1>1. CASE CompleteRequest(m.op)
  <2>1. m.op \in Opcode
    BY <1>1 DEF CompleteRequest, HasPending
  <2> QED  BY <1>1, <2>1 DEF TrackerNext
<1>2. CASE CompleteWithError
  BY <1>2 DEF TrackerNext
<1>3. CASE UNCHANGED tracker
  BY <1>3
<1> QED  BY <1>1, <1>2, <1>3 DEF Deliver

LEMMA StepDrives ==
  ASSUME TrackerTypeOK, pending # None => opcode[pending] \in Opcode, [Next]_vars
  PROVE  [TrackerNext]_tracker
<1>1. ASSUME NEW c \in Caller, Begin(c) PROVE [TrackerNext]_tracker
  BY <1>1 DEF Begin
<1>2. ASSUME NEW c \in Caller, CallerStep(c) PROVE [TrackerNext]_tracker
  BY <1>2, CallerDrives
<1>3. CASE Serve
  BY <1>3 DEF Serve, ServePrepare, ServeExecute, ServeDiscover, ServeWrite
<1>4. CASE Deliver
  BY <1>4, DeliverDrives
<1>5. CASE Disconnect
  BY <1>5 DEF Disconnect, TrackerNext
<1>6. CASE PeerCloses
  BY <1>6 DEF PeerCloses
<1>7. CASE Clock
  BY <1>7 DEF Clock, TrackerNext
<1>8. CASE UNCHANGED vars
  BY <1>8 DEF vars
<1> QED  BY <1>1, <1>2, <1>3, <1>4, <1>5, <1>6, <1>7, <1>8 DEF Next

\* The opcode of a pending request is one that a caller passed to StartRequest.
OpcodeKnown == pending # None => opcode[pending] \in Opcode

LEMMA OpcodeStaysKnown ==
  ASSUME TrackerIInv, OpcodeKnown, [TrackerNext]_tracker
  PROVE  OpcodeKnown'
<1>1. ASSUME NEW op \in Opcode, StartRequest(op) PROVE OpcodeKnown'
  <2>1. count + 1 \in Requests
    BY <1>1, TrackerAssumption
       DEF StartRequest, CanStart, TrackerIInv, TrackerTypeOK, Requests
  <2> QED  BY <1>1, <2>1 DEF StartRequest, OpcodeKnown, TrackerIInv, TrackerTypeOK
<1>2. ASSUME NEW op \in Opcode, CompleteRequest(op) PROVE OpcodeKnown'
  BY <1>2 DEF CompleteRequest, Resolve, OpcodeKnown
<1>3. ASSUME CompleteWithError \/ FailRequest \/ CancelPending PROVE OpcodeKnown'
  BY <1>3 DEF CompleteWithError, FailRequest, CancelPending, Resolve, OpcodeKnown
<1>4. ASSUME NEW g \in Requests, ArmTimeout(g) \/ ReceiveTimer(g) \/ FireTimeout(g)
      PROVE  OpcodeKnown'
  BY <1>4 DEF ArmTimeout, ReceiveTimer, FireTimeout, Resolve, OpcodeKnown, slot
<1>5. CASE Expire \/ UNCHANGED tracker
  BY <1>5 DEF Expire, tracker, slot, OpcodeKnown
<1> QED  BY <1>1, <1>2, <1>3, <1>4, <1>5 DEF TrackerNext, Timeouts

-----------------------------------------------------------------------------
LEMMA BearerInvariant == Spec => [](TrackerIInv /\ OpcodeKnown)
<1>1. Init => TrackerIInv /\ OpcodeKnown
  BY InitIInv DEF Init, TrackerInit, OpcodeKnown
<1>2. TrackerIInv /\ OpcodeKnown /\ [Next]_vars => (TrackerIInv /\ OpcodeKnown)'
  BY StepDrives, NextIInv, OpcodeStaysKnown DEF OpcodeKnown, TrackerIInv
<1> QED  BY <1>1, <1>2, PTL DEF Spec

\* Every behaviour of a connection is one of request_tracker.go.
THEOREM BearerDrivesTracker == Spec => TrackerDriven
<1>1. Init => TrackerInit
  BY DEF Init
<1>2. TrackerIInv /\ OpcodeKnown /\ [Next]_vars => [TrackerNext]_tracker
  BY StepDrives DEF OpcodeKnown, TrackerIInv
<1> QED  BY <1>1, <1>2, BearerInvariant, PTL DEF Spec, TrackerDriven, TrackerSpec

\* On a connection, too, a request that some goroutine waits for is always watched
\* by a timeout goroutine: neither a refused caller that fails the pending request
\* of another, nor a disconnect, nor a lost answer leaves it without.
THEOREM BearerRequestsWatched == Spec => []PendingWatched
BY WatchedByIInv, BearerInvariant, PTL

\* The tracker's invariant, on a connection.
THEOREM BearerHolds == Spec => []TrackerInv
BY HoldsByIInv, BearerInvariant, PTL
-----------------------------------------------------------------------------
\* The packets: a Prepare Write names a characteristic and one of its fragments.
Fragmentary(m) == m.op = "prepare" => m.handle \in Handle /\ m.part <= Fragments

Ops == {"write", "discover", "prepare", "execute"}

Request ==
  {m \in [op : Ops, kind : Kinds, from : Caller, handle : Handle \cup {NoHandle},
          part : 1 .. Fragments + 1] : Fragmentary(m)}

Response ==
  {m \in [op : Ops, result : {"reply", "error"}, handle : Handle \cup {NoHandle},
          part : 1 .. Fragments + 1] : Fragmentary(m)}

StreamTypes ==
  /\ up \in Seq(Request)
  /\ down \in Seq(Response)
  /\ queue \in [Handle -> Seq(Fragment)]
  /\ written \in Seq(Seq(Fragment))

CallerTypes ==
  /\ cpc \in [Caller -> {"idle", "start", "check", "compare", "register", "send",
                         "wait", "fail", "ok", "failed"}]
  /\ kind \in [Caller -> Kinds]
  /\ handle \in [Caller -> Handle \cup {NoHandle}]
  /\ part \in [Caller -> 1 .. Fragments + 1]
  /\ req \in [Caller -> 0 .. MaxRequests]
  /\ answer \in [Requests -> [handle : Handle \cup {NoHandle}, part : 0 .. Fragments]]
  /\ alive \in BOOLEAN
  /\ \A c \in Caller : LongWriter(c) => handle[c] \in Handle

BearerTypes == CallerTypes /\ StreamTypes

LEMMA TypesByBearerTypes == TrackerTypeOK /\ BearerTypes => AttTypeOK
BY DEF BearerTypes, CallerTypes, StreamTypes, AttTypeOK, Range

\* What a caller and the server write to the streams.
RequestOf(c) ==
  [op |-> OpcodeOf(c), kind |-> kind[c], from |-> c, handle |-> handle[c], part |-> part[c]]

ResponseOf(m, result) == [op |-> m.op, result |-> result, handle |-> m.handle, part |-> m.part]

LEMMA Opcodes ==
  ASSUME NEW c
  PROVE  /\ OpcodeOf(c) \in Ops
         /\ OpcodeOf(c) = "prepare" <=> LongWriter(c) /\ ~(part[c] > Fragments)
         /\ OpcodeOf(c) = "execute" <=> LongWriter(c) /\ part[c] > Fragments
         /\ OpcodeOf(c) = "discover" <=> kind[c] = "discover"
         /\ OpcodeOf(c) = "write" <=> kind[c] \notin Explicit
<1>1. CASE LongWriter(c) /\ part[c] > Fragments
  BY <1>1 DEF OpcodeOf, Ops, LongWriter, Explicit
<1>2. CASE LongWriter(c) /\ ~(part[c] > Fragments)
  BY <1>2 DEF OpcodeOf, Ops, LongWriter, Explicit
<1>3. CASE ~LongWriter(c)
  BY <1>3 DEF OpcodeOf, Ops, LongWriter, Explicit
<1> QED
  BY <1>1, <1>2, <1>3

LEMMA RequestTypes ==
  ASSUME CallerTypes, NEW c \in Caller
  PROVE  RequestOf(c) \in Request
<1>1. OpcodeOf(c) = "prepare" => handle[c] \in Handle /\ part[c] <= Fragments
  BY Opcodes, BearerAssumption DEF CallerTypes, BearerAssumption
<1> QED
  BY <1>1, Opcodes DEF RequestOf, Request, CallerTypes, Fragmentary

LEMMA ResponseTypes ==
  ASSUME NEW m \in Request, NEW result \in {"reply", "error"}
  PROVE  ResponseOf(m, result) \in Response
BY DEF Request, Response, ResponseOf, Fragmentary

LEMMA TailTypes ==
  ASSUME NEW S, NEW q \in Seq(S), q # <<>>
  PROVE  /\ Head(q) \in S /\ Head(q) = q[1]
         /\ Tail(q) \in Seq(S)
         /\ Len(q) \in Nat \ {0}
         /\ Len(Tail(q)) = Len(q) - 1
         /\ \A i \in 1 .. Len(q) - 1 : Tail(q)[i] = q[i + 1]
OBVIOUS

LEMMA InitTypes == Init => BearerTypes
<1> SUFFICES ASSUME Init
             PROVE  BearerTypes
  OBVIOUS
<1>1. CallerTypes
  BY BearerAssumption, TrackerAssumption
  DEF Init, BearerAssumption, TrackerAssumption, CallerTypes, Kinds, LongWriter, NoAnswer, None
<1>2. StreamTypes
  BY DEF Init, StreamTypes
<1> QED
  BY <1>1, <1>2 DEF BearerTypes

\* Steps of the callers.
LEMMA CallerKeepsTypes ==
  ASSUME TrackerTypeOK, BearerTypes, NEW c \in Caller, Begin(c) \/ CallerStep(c)
  PROVE  BearerTypes'
<1>0. CallerTypes /\ StreamTypes
  BY DEF BearerTypes
<1>1. CASE Begin(c)
  <2>1. UNCHANGED <<up, down, queue, written, part, req, answer, alive>>
    BY <1>1 DEF Begin, link, server
  <2>2. CallerTypes'
    BY <1>0, <1>1, <2>1 DEF Begin, CallerTypes, LongWriter
  <2> QED
    BY <1>0, <2>1, <2>2 DEF BearerTypes, StreamTypes
<1>2. CASE Start(c)
  <2>1. UNCHANGED <<up, down, queue, written, kind, handle, part, answer, alive>>
    BY <1>2 DEF Start, link, server
  <2>2. req' \in [Caller -> 0 .. MaxRequests]
    <3>1. CASE CanStart
      <4>1. count + 1 \in 0 .. MaxRequests
        BY <3>1, TrackerAssumption DEF CanStart, TrackerTypeOK, TrackerAssumption
      <4> QED
        BY <1>0, <1>2, <3>1, <4>1 DEF Start, CallerTypes
    <3>2. CASE ~CanStart
      BY <1>0, <1>2, <3>2 DEF Start, CallerTypes
    <3> QED
      BY <3>1, <3>2
  <2>3. CallerTypes'
    BY <1>0, <1>2, <2>1, <2>2 DEF Start, Goto, CallerTypes, LongWriter
  <2> QED
    BY <1>0, <2>1, <2>3 DEF BearerTypes, StreamTypes
<1>3. CASE Check(c) \/ Compare(c) \/ Register(c) \/ Fail(c) \/ ReceiveAnswer(c) \/ GiveUp(c)
  <2>1. UNCHANGED <<up, down, queue, written, kind, handle, part, req, answer, alive>>
    BY <1>3 DEF Check, Compare, Register, Fail, ReceiveAnswer, GiveUp, link, server
  <2>2. \E where \in {"compare", "register", "send", "ok", "fail", "failed"} : Goto(c, where)
    BY <1>3 DEF Check, Compare, Register, Fail, ReceiveAnswer, GiveUp
  <2>3. CallerTypes'
    BY <1>0, <2>1, <2>2 DEF Goto, CallerTypes, LongWriter
  <2> QED
    BY <1>0, <2>1, <2>3 DEF BearerTypes, StreamTypes
<1>4. CASE Send(c)
  <2>1. UNCHANGED <<down, queue, written, kind, handle, part, req, answer, alive>>
    BY <1>4 DEF Send, server
  <2>2. up' = up \/ up' = Append(up, RequestOf(c))
    BY <1>4 DEF Send, RequestOf
  <2>3. \E where \in {"wait", "ok", "fail"} : Goto(c, where)
    BY <1>4 DEF Send
  <2>4. CallerTypes'
    BY <1>0, <2>1, <2>3 DEF Goto, CallerTypes, LongWriter
  <2>5. up' \in Seq(Request)
    <3>1. up \in Seq(Request) /\ RequestOf(c) \in Request
      BY <1>0, RequestTypes DEF StreamTypes
    <3> QED
      BY <2>2, <3>1, AppendProperties
  <2> QED
    BY <1>0, <2>1, <2>4, <2>5 DEF BearerTypes, StreamTypes
<1>5. CASE ReceiveEcho(c)
  <2>1. UNCHANGED <<up, down, queue, written, kind, handle, req, answer, alive>>
    BY <1>5 DEF ReceiveEcho, link, server
  <2>2. LongWriter(c) /\ part[c] <= Fragments
    BY <1>0, <1>5, Opcodes, BearerAssumption DEF ReceiveEcho, CallerTypes, BearerAssumption
  <2>3. part' = part \/ part' = [part EXCEPT ![c] = @ + 1]
    BY <1>5 DEF ReceiveEcho
  <2>4. part' \in [Caller -> 1 .. Fragments + 1]
    BY <1>0, <2>2, <2>3, BearerAssumption DEF CallerTypes, BearerAssumption
  <2>5. Goto(c, "start") \/ Goto(c, "failed")
    BY <1>5 DEF ReceiveEcho
  <2>6. CallerTypes'
    BY <1>0, <2>1, <2>4, <2>5 DEF Goto, CallerTypes, LongWriter
  <2> QED
    BY <1>0, <2>1, <2>6 DEF BearerTypes, StreamTypes
<1> QED
  BY <1>1, <1>2, <1>3, <1>4, <1>5 DEF CallerStep

\* The server's and the client's read loops.
LEMMA ServeKeepsTypes ==
  ASSUME BearerTypes, Serve
  PROVE  BearerTypes'
<1> DEFINE m == Head(up)
<1>0. CallerTypes /\ StreamTypes
  BY DEF BearerTypes
<1>1. /\ UNCHANGED <<cpc, kind, handle, part, req, answer, alive>>
      /\ up # <<>> /\ up' = Tail(up)
  BY DEF Serve, ServePrepare, ServeExecute, ServeDiscover, ServeWrite, callers
<1>2. CallerTypes'
  BY <1>0, <1>1 DEF CallerTypes, LongWriter
<1>3. m \in Request /\ up' \in Seq(Request)
  BY <1>0, <1>1, TailTypes DEF StreamTypes
<1>4. down' = down \/ \E result \in {"reply", "error"} : down' = Append(down, ResponseOf(m, result))
  BY DEF Serve, ServePrepare, ServeExecute, ServeDiscover, ServeWrite, Reply, ResponseOf
<1>5. down' \in Seq(Response)
  <2>1. ASSUME NEW result \in {"reply", "error"}
        PROVE  Append(down, ResponseOf(m, result)) \in Seq(Response)
    BY <1>0, <1>3, ResponseTypes, AppendProperties DEF StreamTypes
  <2> QED
    BY <1>0, <1>4, <2>1 DEF StreamTypes
<1>6. queue' \in [Handle -> Seq(Fragment)] /\ written' \in Seq(Seq(Fragment))
  <2>1. CASE ServePrepare
    <3>1. m.handle \in Handle /\ <<m.from, m.part>> \in Fragment
      BY <1>3, <2>1, BearerAssumption DEF ServePrepare, Request, Fragmentary, Fragment, BearerAssumption
    <3>2. queue' = queue \/ queue' = [queue EXCEPT ![m.handle] = Append(@, <<m.from, m.part>>)]
      BY <2>1 DEF ServePrepare
    <3>3. Append(queue[m.handle], <<m.from, m.part>>) \in Seq(Fragment)
      BY <1>0, <3>1, AppendProperties DEF StreamTypes
    <3> QED
      BY <1>0, <2>1, <3>1, <3>2, <3>3 DEF ServePrepare, StreamTypes
  <2>2. CASE ServeExecute
    <3>1. PICK order \in SetToSeqs({h \in Handle : queue[h] # <<>>}) :
            written' = written \o [k \in 1 .. Len(order) |-> queue[order[k]]]
      BY <2>2 DEF ServeExecute
    <3>2. order \in Seq(Handle)
      <4> DEFINE S == {h \in Handle : queue[h] # <<>>}
      <4>1. IsFiniteSet(S)
        BY BearerAssumption, FS_Subset DEF BearerAssumption
      <4>2. Cardinality(S) \in Nat
        BY <4>1, FS_CardinalityType
      <4>3. order \in [1 .. Cardinality(S) -> S]
        BY <3>1 DEF SetToSeqs
      <4>4. order \in Seq(S)
        BY <4>2, <4>3, SeqDef
      <4> QED
        BY <4>4, SeqMonotonic
    <3>3. [k \in 1 .. Len(order) |-> queue[order[k]]] \in Seq(Seq(Fragment))
      BY <1>0, <3>2 DEF StreamTypes
    <3>4. queue' \in [Handle -> Seq(Fragment)]
      BY <2>2 DEF ServeExecute
    <3> QED
      BY <1>0, <3>1, <3>3, <3>4 DEF StreamTypes
  <2>3. CASE ServeDiscover \/ ServeWrite
    BY <1>0, <2>3 DEF ServeDiscover, ServeWrite, server, StreamTypes
  <2> QED
    BY <2>1, <2>2, <2>3 DEF Serve
<1> QED
  BY <1>2, <1>3, <1>5, <1>6 DEF BearerTypes, StreamTypes

LEMMA DeliverKeepsTypes ==
  ASSUME TrackerTypeOK, BearerTypes, Deliver
  PROVE  BearerTypes'
<1> DEFINE m == Head(down)
<1>0. CallerTypes /\ StreamTypes
  BY DEF BearerTypes
<1>1. /\ UNCHANGED <<cpc, kind, handle, part, req, alive, up, queue, written>>
      /\ down # <<>> /\ down' = Tail(down)
  BY DEF Deliver, callers, server
<1>2. m \in Response /\ down' \in Seq(Response)
  BY <1>0, <1>1, TailTypes DEF StreamTypes
<1>3. \/ answer' = answer
      \/ /\ pending # None /\ m.op = "prepare"
         /\ answer' = [answer EXCEPT ![pending] = [handle |-> m.handle, part |-> m.part]]
  BY DEF Deliver, CompleteRequest, HasPending
<1>4. answer' \in [Requests -> [handle : Handle \cup {NoHandle}, part : 0 .. Fragments]]
  <2>1. CASE answer' = answer
    BY <1>0, <2>1 DEF CallerTypes
  <2>2. CASE answer' # answer
    <3>1. m.handle \in Handle /\ m.part \in 0 .. Fragments
      BY <1>2, <1>3, <2>2, BearerAssumption DEF Response, Fragmentary, BearerAssumption
    <3> QED
      BY <1>0, <1>3, <2>2, <3>1 DEF CallerTypes
  <2> QED
    BY <2>1, <2>2
<1>5. CallerTypes'
  BY <1>0, <1>1, <1>4 DEF CallerTypes, LongWriter
<1> QED
  BY <1>0, <1>1, <1>2, <1>5 DEF BearerTypes, StreamTypes

LEMMA StepKeepsTypes ==
  ASSUME TrackerTypeOK, BearerTypes, [Next]_vars
  PROVE  BearerTypes'
<1>0. CallerTypes /\ StreamTypes
  BY DEF BearerTypes
<1>1. CASE Disconnect \/ PeerCloses
  <2>1. /\ UNCHANGED <<cpc, kind, handle, part, req, answer, written>> /\ alive' = FALSE
        /\ up' = <<>> /\ down' = <<>> /\ queue' = [h \in Handle |-> <<>>]
    BY <1>1 DEF Disconnect, PeerCloses, Drop, callers
  <2>2. CallerTypes'
    BY <1>0, <2>1 DEF CallerTypes, LongWriter
  <2>3. StreamTypes'
    BY <1>0, <2>1 DEF StreamTypes
  <2> QED
    BY <2>2, <2>3 DEF BearerTypes
<1>2. CASE Clock \/ UNCHANGED vars
  <2>1. UNCHANGED <<cpc, kind, handle, part, req, answer, alive, up, down, queue, written>>
    BY <1>2 DEF Clock, vars, callers, link, server
  <2> QED
    BY <1>0, <2>1 DEF BearerTypes, CallerTypes, StreamTypes, LongWriter
<1> QED
  BY <1>1, <1>2, CallerKeepsTypes, ServeKeepsTypes, DeliverKeepsTypes DEF Next

LEMMA BearerTypesHold == Spec => []BearerTypes
<1>1. TrackerIInv => TrackerTypeOK
  BY DEF TrackerIInv
<1>2. TrackerTypeOK /\ BearerTypes /\ [Next]_vars => BearerTypes'
  BY StepKeepsTypes
<1> QED
  BY <1>1, <1>2, InitTypes, BearerInvariant, PTL DEF Spec

\* Whatever the callers, the peer and the connection do, the requests, the streams and
\* the Fragmenter of wire_gatt.go stay of their types.
THEOREM BearerTypeCorrect == Spec => []AttTypeOK
<1>1. TrackerIInv => TrackerTypeOK
  BY DEF TrackerIInv
<1> QED
  BY <1>1, TypesByBearerTypes, BearerTypesHold, BearerInvariant, PTL

-----------------------------------------------------------------------------
\* The packets of whose requests somebody waits for the end.
Big(m) == m.op # "write"

Clear(q) == \A i \in 1 .. Len(q) : ~Big(q[i])

\* m is the one such packet in q.
Carries(q, m) ==
  /\ Big(m)
  /\ \E i \in 1 .. Len(q) : q[i] = m /\ \A j \in 1 .. Len(q) : Big(q[j]) => j = i

LEMMA EmptyIsClear == Clear(<<>>)
BY DEF Clear

LEMMA AppendSmall ==
  ASSUME NEW S, NEW q \in Seq(S), NEW m \in S, ~Big(m)
  PROVE  /\ Clear(q) => Clear(Append(q, m))
         /\ \A x : Carries(q, x) <=> Carries(Append(q, m), x)
<1> DEFINE r == Append(q, m)
<1>1. /\ Len(r) = Len(q) + 1 /\ Len(q) \in Nat
      /\ \A i \in 1 .. Len(q) : r[i] = q[i]
      /\ r[Len(q) + 1] = m
  BY AppendProperties, LenProperties
<1> HIDE DEF r
<1>2. Clear(q) => Clear(r)
  BY <1>1 DEF Clear
<1>3. \A x : Carries(q, x) <=> Carries(r, x)
  BY <1>1 DEF Carries
<1> QED
  BY <1>2, <1>3 DEF r

LEMMA AppendBig ==
  ASSUME NEW S, NEW q \in Seq(S), NEW m \in S, Big(m), Clear(q)
  PROVE  Carries(Append(q, m), m)
<1> DEFINE r == Append(q, m)
<1>1. /\ Len(r) = Len(q) + 1 /\ Len(q) \in Nat
      /\ \A i \in 1 .. Len(q) : r[i] = q[i]
      /\ r[Len(q) + 1] = m
  BY AppendProperties, LenProperties
<1> HIDE DEF r
<1>2. Carries(r, m)
  BY <1>1 DEF Clear, Carries
<1> QED
  BY <1>2 DEF r

LEMMA TakeSmall ==
  ASSUME NEW S, NEW q \in Seq(S), q # <<>>, ~Big(Head(q))
  PROVE  /\ Clear(q) => Clear(Tail(q))
         /\ \A x : Carries(q, x) <=> Carries(Tail(q), x)
<1> DEFINE r == Tail(q)
<1>1. /\ Len(r) = Len(q) - 1 /\ Len(q) \in Nat \ {0} /\ Head(q) = q[1]
      /\ \A i \in 1 .. Len(q) - 1 : r[i] = q[i + 1]
  BY TailTypes
<1> HIDE DEF r
<1>2. Clear(q) => Clear(r)
  BY <1>1 DEF Clear
<1>3. ASSUME NEW x, Carries(q, x)
      PROVE  Carries(r, x)
  <2>1. PICK i \in 1 .. Len(q) : q[i] = x /\ \A j \in 1 .. Len(q) : Big(q[j]) => j = i
    BY <1>3 DEF Carries
  <2>2. Big(x) /\ i # 1
    BY <1>1, <1>3, <2>1 DEF Carries
  <2>3. i - 1 \in 1 .. Len(r) /\ r[i - 1] = x
    BY <1>1, <2>1, <2>2
  <2>4. \A j \in 1 .. Len(r) : Big(r[j]) => j = i - 1
    BY <1>1, <2>1
  <2> QED
    BY <2>2, <2>3, <2>4 DEF Carries
<1>4. ASSUME NEW x, Carries(r, x)
      PROVE  Carries(q, x)
  <2>1. PICK i \in 1 .. Len(r) : r[i] = x /\ \A j \in 1 .. Len(r) : Big(r[j]) => j = i
    BY <1>4 DEF Carries
  <2>2. i + 1 \in 1 .. Len(q) /\ q[i + 1] = x
    BY <1>1, <2>1
  <2>3. ASSUME NEW j \in 1 .. Len(q), Big(q[j])
        PROVE  j = i + 1
    <3>1. j # 1
      BY <1>1, <2>3
    <3>2. j - 1 \in 1 .. Len(r) /\ r[j - 1] = q[j]
      BY <1>1, <3>1
    <3> QED
      BY <2>1, <2>3, <3>2
  <2> QED
    BY <1>4, <2>2, <2>3 DEF Carries
<1> QED
  BY <1>2, <1>3, <1>4 DEF r

LEMMA TakeBig ==
  ASSUME NEW S, NEW q \in Seq(S), q # <<>>, Big(Head(q)), NEW x, Carries(q, x)
  PROVE  Head(q) = x /\ Clear(Tail(q))
<1> DEFINE r == Tail(q)
<1>1. /\ Len(r) = Len(q) - 1 /\ Len(q) \in Nat \ {0} /\ Head(q) = q[1]
      /\ \A i \in 1 .. Len(q) - 1 : r[i] = q[i + 1]
  BY TailTypes
<1> HIDE DEF r
<1>2. Head(q) = x /\ Clear(r)
  BY <1>1 DEF Carries, Clear
<1> QED
  BY <1>2 DEF r

LEMMA ClearHead ==
  ASSUME NEW S, NEW q \in Seq(S), q # <<>>, Clear(q)
  PROVE  ~Big(Head(q))
BY TailTypes DEF Clear

LEMMA CarriesOne ==
  ASSUME NEW q, NEW x, Carries(q, x)
  PROVE  ~Clear(q) /\ \A y : Carries(q, y) => y = x
BY DEF Carries, Clear

-----------------------------------------------------------------------------
\* The first 30 seconds of a connection.  The request that is pending is the one that
\* the caller under way has started, and its packet is the only one on the streams that
\* anybody waits for.
ResponseTo(c, result) == ResponseOf(RequestOf(c), result)

Holds(c) == pending = req[c] /\ opcode[req[c]] = OpcodeOf(c)

UnderWay(c) == kind[c] \in Explicit /\ cpc[c] = "wait" /\ Holds(c)

Traffic ==
  \/ Clear(up) /\ Clear(down)
  \/ \E c \in Caller :
       /\ UnderWay(c)
       /\ \/ Carries(up, RequestOf(c)) /\ Clear(down)
          \/ \E result \in {"reply", "error"} : Clear(up) /\ Carries(down, ResponseTo(c, result))

ReqsDiffer ==
  \A c, d \in Caller : c # d /\ req[c] # None => req[c] # req[d]

CallerInv(c) ==
  /\ req[c] <= count
  /\ kind[c] \in Explicit =>
       /\ cpc[c] # "register"
       /\ cpc[c] = "fail" => ~alive
       /\ cpc[c] \in {"check", "compare", "send", "wait"} => req[c] # None
       /\ alive /\ cpc[c] \in {"check", "compare", "send"} => Holds(c)
       /\ cpc[c] = "wait" => Holds(c) \/ Ended(req[c])
  /\ kind[c] \notin Explicit => cpc[c] \notin {"start", "wait"}
  /\ cpc[c] = "idle" => kind[c] = "none"

StreamInv ==
  /\ ~alive => up = <<>> /\ down = <<>>
  /\ \A i \in 1 .. Len(down) : ~Big(down[i]) => down[i].result = "reply"

BearerIInv ==
  /\ expired = 0
  /\ ReqsDiffer
  /\ \A c \in Caller : CallerInv(c)
  /\ StreamInv
  /\ Traffic

\* Everything known of a state.
Known == TrackerIInv /\ BearerTypes /\ BearerIInv

LEMMA KnownTypes ==
  ASSUME Known
  PROVE  /\ CallerTypes /\ StreamTypes /\ TrackerTypeOK /\ TrackerIInv
         /\ ReqsDiffer /\ StreamInv /\ Traffic /\ expired = 0
         /\ \A c \in Caller : CallerInv(c)
         /\ count \in Nat /\ pending \in Nat
         /\ \A c \in Caller : req[c] \in Nat /\ (req[c] # None => req[c] \in Requests)
<1>1. /\ CallerTypes /\ StreamTypes /\ TrackerTypeOK /\ TrackerIInv
      /\ ReqsDiffer /\ StreamInv /\ Traffic /\ expired = 0
      /\ \A c \in Caller : CallerInv(c)
  BY DEF Known, BearerTypes, BearerIInv, TrackerIInv
<1>2. count \in Nat /\ pending \in Nat
  BY <1>1, TrackerAssumption DEF TrackerTypeOK, TrackerAssumption
<1>3. \A c \in Caller : req[c] \in Nat /\ (req[c] # None => req[c] \in Requests)
  BY <1>1, TrackerAssumption DEF CallerTypes, TrackerAssumption, Requests, None
<1> QED
  BY <1>1, <1>2, <1>3

\* A caller whose own variables a step leaves alone.
Untouched(c) ==
  /\ cpc'[c] = cpc[c] /\ kind'[c] = kind[c] /\ handle'[c] = handle[c]
  /\ part'[c] = part[c] /\ req'[c] = req[c]

LEMMA UntouchedPackets ==
  ASSUME NEW c, Untouched(c)
  PROVE  /\ OpcodeOf(c)' = OpcodeOf(c)
         /\ RequestOf(c)' = RequestOf(c)
         /\ \A result : ResponseTo(c, result)' = ResponseTo(c, result)
BY DEF Untouched, OpcodeOf, RequestOf, ResponseTo, ResponseOf

\* Nothing that anybody waits for is on the streams unless a request is pending.
LEMMA QuietStreams ==
  ASSUME Known, pending = None
  PROVE  Clear(up) /\ Clear(down)
BY KnownTypes DEF Traffic, UnderWay, Holds, CallerInv

LEMMA TrafficStays ==
  ASSUME Traffic, UNCHANGED <<up, down>>,
         \A c \in Caller : UnderWay(c) => Untouched(c) /\ UnderWay(c)'
  PROVE  Traffic'
<1>1. CASE Clear(up) /\ Clear(down)
  BY <1>1 DEF Traffic, Clear
<1>2. ASSUME NEW c \in Caller, UnderWay(c), Carries(up, RequestOf(c)), Clear(down)
      PROVE  Traffic'
  <2>1. UnderWay(c)' /\ Carries(up', RequestOf(c)') /\ Clear(down')
    BY <1>2, UntouchedPackets
  <2> QED
    BY <2>1 DEF Traffic, Carries, Clear
<1>3. ASSUME NEW c \in Caller, UnderWay(c), NEW result \in {"reply", "error"},
             Clear(up), Carries(down, ResponseTo(c, result))
      PROVE  Traffic'
  <2>1. UnderWay(c)' /\ Clear(up') /\ Carries(down', ResponseTo(c, result)')
    BY <1>3, UntouchedPackets
  <2> QED
    BY <2>1 DEF Traffic, Carries, Clear
<1> QED
  BY <1>1, <1>2, <1>3 DEF Traffic

LEMMA OthersUntouched ==
  ASSUME CallerTypes, NEW c \in Caller, Begin(c) \/ CallerStep(c)
  PROVE  /\ \A d \in Caller : d # c => Untouched(d)
         /\ alive' = alive /\ down' = down
<1>1. CASE Begin(c)
  BY <1>1 DEF Begin, Untouched, CallerTypes, link
<1>2. CASE Start(c)
  BY <1>2 DEF Start, Goto, Untouched, CallerTypes, link
<1>3. CASE Check(c) \/ Compare(c) \/ Register(c) \/ Fail(c) \/ ReceiveAnswer(c) \/ GiveUp(c)
  <2>1. /\ UNCHANGED <<kind, handle, part, req, alive, down>>
        /\ \E where : Goto(c, where)
    BY <1>3 DEF Check, Compare, Register, Fail, ReceiveAnswer, GiveUp, link
  <2> QED
    BY <2>1 DEF Goto, Untouched, CallerTypes
<1>4. CASE Send(c)
  <2>1. /\ UNCHANGED <<kind, handle, part, req, alive, down>>
        /\ \E where : Goto(c, where)
    BY <1>4 DEF Send
  <2> QED
    BY <2>1 DEF Goto, Untouched, CallerTypes
<1>5. CASE ReceiveEcho(c)
  <2>1. /\ UNCHANGED <<kind, handle, req, alive, down>>
        /\ \E where : Goto(c, where)
        /\ part' = part \/ part' = [part EXCEPT ![c] = @ + 1]
    BY <1>5 DEF ReceiveEcho, link
  <2> QED
    BY <2>1 DEF Goto, Untouched, CallerTypes
<1> QED
  BY <1>1, <1>2, <1>3, <1>4, <1>5 DEF CallerStep

LEMMA InvStays ==
  ASSUME NEW d \in Caller, CallerInv(d), Untouched(d), alive' = alive, UNCHANGED tracker
  PROVE  CallerInv(d)'
BY UntouchedPackets DEF CallerInv, Untouched, Holds, Ended, tracker, slot

\* A new request is started when nobody holds the pending one.
LEMMA InvStaysAtStart ==
  ASSUME Known, NEW d \in Caller, Untouched(d), alive' = alive, NEW op \in Opcode, StartRequest(op)
  PROVE  CallerInv(d)'
<1>1. pending = None /\ CallerInv(d) /\ count \in Nat /\ req[d] \in Nat
  BY KnownTypes DEF StartRequest, CanStart
<1>2. req[d] # None => ~Holds(d) /\ (Ended(req[d]) => Ended(req[d])')
  <2> SUFFICES ASSUME req[d] # None
               PROVE  ~Holds(d) /\ (Ended(req[d]) => Ended(req[d])')
    OBVIOUS
  <2>1. req[d] \in Requests /\ req[d] # count + 1
    BY <1>1, KnownTypes DEF CallerInv
  <2>2. outcome'[req[d]] = outcome[req[d]] /\ req'[d] = req[d]
    BY <2>1, KnownTypes DEF StartRequest, TrackerTypeOK, Untouched
  <2>3. ~Holds(d)
    BY <1>1 DEF Holds
  <2> QED
    BY <2>2, <2>3 DEF Ended
<1>3. count' = count + 1
  BY DEF StartRequest
<1> QED
  BY <1>1, <1>2, <1>3, UntouchedPackets DEF CallerInv, Untouched, Ended

\* However the pending request ends, who waits for it learns it.
LEMMA WaitersLearn ==
  ASSUME Known, NEW d \in Caller, req[d] # None, NEW how \in Outcomes \ {"unused", "open"}, Resolve(how),
         Holds(d) \/ Ended(req[d])
  PROVE  outcome'[req[d]] \notin {"unused", "open"}
BY KnownTypes DEF Holds, Ended, Resolve, TrackerTypeOK, Outcomes

\* Without the connection nobody needs to hold the pending request.
LEMMA InvStaysWhenDropped ==
  ASSUME Known, NEW d \in Caller, Untouched(d), ~alive',
         \/ UNCHANGED tracker
         \/ \E how \in Outcomes \ {"unused", "open"} : Resolve(how)
  PROVE  CallerInv(d)'
<1>1. CallerInv(d)
  BY KnownTypes
<1>2. CASE UNCHANGED tracker
  BY <1>1, <1>2, UntouchedPackets DEF CallerInv, Untouched, Holds, Ended, tracker, slot
<1>3. ASSUME NEW how \in Outcomes \ {"unused", "open"}, Resolve(how)
      PROVE  CallerInv(d)'
  <2>1. count' = count
    BY <1>3 DEF Resolve
  <2>2. /\ kind[d] \in Explicit /\ cpc[d] = "wait" => Ended(req[d])'
    BY <1>1, <1>3, WaitersLearn DEF CallerInv, Ended, Untouched
  <2> QED
    BY <1>1, <2>1, <2>2 DEF CallerInv, Untouched
<1> QED
  BY <1>2, <1>3

\* The steps of a caller that neither start a request nor write to the bearer.
LEMMA LocalStepKeeps ==
  ASSUME Known, NEW c \in Caller,
         \A d \in Caller : d # c => Untouched(d),
         alive' = alive, UNCHANGED <<up, down, tracker, req>>,
         ~UnderWay(c), CallerInv(c)'
  PROVE  BearerIInv'
<1>1. \A d \in Caller : CallerInv(d)'
  BY KnownTypes, InvStays
<1>2. expired' = 0 /\ ReqsDiffer' /\ StreamInv'
  BY KnownTypes DEF tracker, ReqsDiffer, StreamInv, Big
<1>3. Traffic'
  <2>1. \A d \in Caller : UnderWay(d) => Untouched(d) /\ UnderWay(d)'
    BY UntouchedPackets DEF UnderWay, Holds, Untouched, tracker, slot
  <2> QED
    BY <2>1, TrafficStays, KnownTypes
<1> QED
  BY <1>1, <1>2, <1>3 DEF BearerIInv

LEMMA StartKeeps ==
  ASSUME Known, NEW c \in Caller, Start(c)
  PROVE  BearerIInv'
<1>0. /\ \A d \in Caller : d # c => Untouched(d)
      /\ alive' = alive /\ UNCHANGED <<up, down, kind, part, handle>>
  BY KnownTypes, OthersUntouched DEF Start, link, CallerStep
<1>1. CASE ~CanStart
  <2>1. UNCHANGED <<tracker, req>> /\ Goto(c, "failed")
    BY <1>1 DEF Start
  <2>2. CallerInv(c)'
    BY <1>0, <2>1, KnownTypes DEF CallerInv, Goto, CallerTypes, tracker, slot
  <2>3. ~UnderWay(c)
    BY DEF Start, UnderWay
  <2> QED
    BY <1>0, <2>1, <2>2, <2>3, LocalStepKeeps
<1>2. CASE CanStart
  <2>1. /\ pending = None /\ count + 1 \in Requests /\ cpc[c] = "start"
        /\ StartRequest(OpcodeOf(c)) /\ req' = [req EXCEPT ![c] = count + 1] /\ Goto(c, "check")
    BY <1>2, KnownTypes, TrackerAssumption
    DEF Start, CanStart, TrackerTypeOK, TrackerAssumption, Requests
  <2>2. /\ req'[c] = count + 1 /\ cpc'[c] = "check" /\ count' = count + 1 /\ pending' = count + 1
        /\ opcode'[count + 1] = OpcodeOf(c) /\ OpcodeOf(c)' = OpcodeOf(c)
    BY <1>0, <2>1, KnownTypes DEF StartRequest, Goto, CallerTypes, TrackerTypeOK, OpcodeOf
  <2>3. CallerInv(c)'
    <3>1. kind'[c] \in Explicit
      BY <1>0, <2>1, KnownTypes DEF CallerInv
    <3> QED
      BY <2>2, <3>1, KnownTypes DEF CallerInv, Holds, None
  <2>4. \A d \in Caller : CallerInv(d)'
    BY <1>0, <2>1, <2>3, InvStaysAtStart, OpcodeOfCaller
  <2>5. ReqsDiffer'
    <3>1. \A d \in Caller : d # c => req'[d] = req[d] /\ req[d] # count + 1
      BY <1>0, KnownTypes DEF Untouched, CallerInv
    <3> QED
      BY <2>2, <3>1, KnownTypes DEF ReqsDiffer
  <2>6. expired' = 0 /\ StreamInv'
    BY <1>0, <2>1, KnownTypes DEF StartRequest, StreamInv, Big
  <2>7. Traffic'
    BY <1>0, <2>1, QuietStreams DEF Traffic, Clear
  <2> QED
    BY <2>4, <2>5, <2>6, <2>7 DEF BearerIInv
<1> QED
  BY <1>1, <1>2

LEMMA RegisterKeeps ==
  ASSUME Known, NEW c \in Caller, Register(c)
  PROVE  BearerIInv'
<1>0. /\ \A d \in Caller : d # c => Untouched(d)
      /\ alive' = alive /\ UNCHANGED <<up, down, kind, part, handle, req>>
  BY KnownTypes, OthersUntouched DEF Register, link, CallerStep
<1>1. kind[c] \notin Explicit /\ ~UnderWay(c)
  BY KnownTypes DEF Register, CallerInv, UnderWay
<1>2. \E where \in {"send", "fail"} : Goto(c, where)
  BY DEF Register
<1>3. count' \in {count, count + 1} => CallerInv(c)'
  <2>1. cpc'[c] \in {"send", "fail"} /\ req[c] <= count
    BY <1>2, KnownTypes DEF Goto, CallerTypes, CallerInv
  <2> QED
    BY <1>0, <1>1, <2>1, KnownTypes DEF CallerInv
<1>4. CASE ~CanStart
  <2>1. UNCHANGED tracker
    BY <1>4 DEF Register
  <2> QED
    BY <1>0, <1>1, <1>3, <2>1, LocalStepKeeps, KnownTypes DEF tracker, slot
<1>5. CASE CanStart
  <2>1. StartRequest(OpcodeOf(c)) /\ pending = None /\ count' = count + 1
    BY <1>5 DEF Register, CanStart, StartRequest
  <2>2. CallerInv(c)'
    BY <1>3, <2>1, KnownTypes
  <2>3. \A d \in Caller : CallerInv(d)'
    BY <1>0, <2>1, <2>2, InvStaysAtStart, OpcodeOfCaller
  <2>4. expired' = 0 /\ StreamInv' /\ ReqsDiffer'
    BY <1>0, <2>1, KnownTypes DEF StartRequest, StreamInv, Big, ReqsDiffer
  <2>5. Traffic'
    BY <1>0, <2>1, QuietStreams DEF Traffic, Clear
  <2> QED
    BY <2>3, <2>4, <2>5 DEF BearerIInv
<1> QED
  BY <1>4, <1>5

LEMMA SendKeeps ==
  ASSUME Known, NEW c \in Caller, Send(c)
  PROVE  BearerIInv'
<1>0. /\ \A d \in Caller : d # c => Untouched(d)
      /\ alive' = alive /\ UNCHANGED <<down, tracker, kind, part, handle, req>>
      /\ ~UnderWay(c)
  BY KnownTypes, OthersUntouched DEF Send, CallerStep, UnderWay
<1>1. CASE ~alive
  <2>1. Goto(c, "fail") /\ up' = up
    BY <1>1 DEF Send
  <2>2. CallerInv(c)'
    BY <1>0, <1>1, <2>1, KnownTypes DEF CallerInv, Goto, CallerTypes, tracker, slot
  <2> QED
    BY <1>0, <2>1, <2>2, LocalStepKeeps
<1>2. CASE alive
  <2> DEFINE m == RequestOf(c)
  <2>1. /\ up' = Append(up, m) /\ cpc[c] = "send"
        /\ Goto(c, IF kind[c] \in Explicit THEN "wait" ELSE "ok")
    BY <1>2 DEF Send, RequestOf
  <2>2. cpc'[c] = IF kind[c] \in Explicit THEN "wait" ELSE "ok"
    BY <2>1, KnownTypes DEF Goto, CallerTypes
  <2>3. up \in Seq(Request) /\ m \in Request /\ (Big(m) <=> kind[c] \in Explicit)
    BY KnownTypes, RequestTypes, Opcodes DEF StreamTypes, Big, RequestOf
  <2>4. RequestOf(c)' = m /\ OpcodeOf(c)' = OpcodeOf(c)
    BY <1>0 DEF RequestOf, OpcodeOf
  <2>5. CallerInv(c)'
    BY <1>0, <1>2, <2>1, <2>2, <2>4, KnownTypes DEF CallerInv, Holds, tracker, slot
  <2>6. \A d \in Caller : CallerInv(d)'
    BY <1>0, <2>5, InvStays, KnownTypes
  <2>7. expired' = 0 /\ StreamInv' /\ ReqsDiffer'
    BY <1>0, <1>2, KnownTypes DEF StreamInv, Big, ReqsDiffer, tracker
  <2>8. CASE kind[c] \in Explicit
    <3>1. Holds(c) /\ req[c] # None
      BY <1>2, <2>1, <2>8, KnownTypes DEF CallerInv
    <3>2. ASSUME NEW d \in Caller
          PROVE  ~UnderWay(d)
      <4>1. CASE d = c
        BY <1>0, <4>1
      <4>2. CASE d # c
        BY <3>1, <4>2, KnownTypes DEF ReqsDiffer, UnderWay, Holds
      <4> QED
        BY <4>1, <4>2
    <3>3. Clear(up) /\ Clear(down)
      BY <3>2, KnownTypes DEF Traffic
    <3>4. Carries(up', m)
      BY <2>1, <2>3, <2>8, <3>3, AppendBig
    <3>5. UnderWay(c)'
      BY <1>0, <2>2, <2>4, <2>8, <3>1 DEF UnderWay, Holds, tracker, slot
    <3>6. Carries(up', RequestOf(c)') /\ Clear(down')
      BY <1>0, <2>4, <3>3, <3>4
    <3> QED
      BY <2>6, <2>7, <3>5, <3>6 DEF BearerIInv, Traffic, Carries, Clear
  <2>9. CASE kind[c] \notin Explicit
    <3>1. /\ Clear(up) => Clear(up')
          /\ \A x : Carries(up, x) => Carries(up', x)
      BY <2>1, <2>3, <2>9, AppendSmall
    <3>2. \A d \in Caller : UnderWay(d) => UnderWay(d)' /\ RequestOf(d)' = RequestOf(d)
                                        /\ \A result : ResponseTo(d, result)' = ResponseTo(d, result)
      BY <1>0, UntouchedPackets DEF UnderWay, Holds, Untouched, tracker, slot
    <3>3. Traffic'
      <4>1. CASE Clear(up) /\ Clear(down)
        BY <1>0, <3>1, <4>1 DEF Traffic, Clear
      <4>2. ASSUME NEW d \in Caller, UnderWay(d), Carries(up, RequestOf(d)), Clear(down)
            PROVE  Traffic'
        <5>1. UnderWay(d)' /\ Carries(up', RequestOf(d)') /\ Clear(down')
          BY <1>0, <3>1, <3>2, <4>2
        <5> QED
          BY <5>1 DEF Traffic, Carries, Clear
      <4>3. ASSUME NEW d \in Caller, UnderWay(d), NEW result \in {"reply", "error"},
                   Clear(up), Carries(down, ResponseTo(d, result))
            PROVE  Traffic'
        <5>1. UnderWay(d)' /\ Clear(up') /\ Carries(down', ResponseTo(d, result)')
          BY <1>0, <3>1, <3>2, <4>3
        <5> QED
          BY <5>1 DEF Traffic, Carries, Clear
      <4> QED
        BY <4>1, <4>2, <4>3, KnownTypes DEF Traffic
    <3> QED
      BY <2>6, <2>7, <3>3 DEF BearerIInv
  <2> QED
    BY <2>8, <2>9
<1> QED
  BY <1>1, <1>2

\* An explicit caller whose request has ended no longer waits for a packet.
LEMMA EndedIsNotUnderWay ==
  ASSUME Known, NEW c \in Caller, cpc[c] = "wait", Ended(req[c])
  PROVE  ~UnderWay(c)
<1>1. kind[c] \in Explicit => req[c] \in Requests
  BY KnownTypes DEF CallerInv
<1> QED
  BY <1>1, KnownTypes DEF UnderWay, Holds, Ended, TrackerIInv, OpenIsPending

LEMMA CallerKeeps ==
  ASSUME Known, NEW c \in Caller, Begin(c) \/ CallerStep(c)
  PROVE  BearerIInv'
<1>0. /\ \A d \in Caller : d # c => Untouched(d)
      /\ alive' = alive /\ down' = down
  BY KnownTypes, OthersUntouched
<1>1. CASE Begin(c)
  <2>1. UNCHANGED <<up, tracker, req>> /\ ~UnderWay(c)
    BY <1>1 DEF Begin, link, UnderWay
  <2>2. CallerInv(c)'
    <3>1. /\ kind'[c] \in Kinds \ {"none"}
          /\ cpc'[c] = IF kind'[c] \in Explicit THEN "start" ELSE "check"
      BY <1>1, KnownTypes DEF Begin, CallerTypes
    <3> QED
      BY <2>1, <3>1, KnownTypes DEF CallerInv, tracker, slot
  <2> QED
    BY <1>0, <2>1, <2>2, LocalStepKeeps
<1>2. CASE Check(c) \/ Compare(c)
  <2>1. UNCHANGED <<up, tracker, req, kind, part>> /\ ~UnderWay(c)
    BY <1>2 DEF Check, Compare, link, UnderWay
  <2>2. CallerInv(c)'
    <3>1. OpcodeOf(c)' = OpcodeOf(c)
      BY <2>1 DEF OpcodeOf
    <3>2. CallerInv(c) /\ cpc \in [Caller -> {"idle", "start", "check", "compare", "register", "send",
                                              "wait", "fail", "ok", "failed"}]
      BY KnownTypes DEF CallerTypes
    <3>3. CASE Check(c)
      <4>1. cpc'[c] = IF ~alive THEN "fail" ELSE IF HasPending THEN "compare" ELSE "register"
        BY <3>2, <3>3 DEF Check, Goto
      <4> QED
        BY <1>0, <2>1, <3>1, <3>2, <3>3, <4>1 DEF Check, CallerInv, Holds, HasPending, tracker, slot
    <3>4. CASE Compare(c)
      <4>1. cpc'[c] = IF HasPending /\ opcode[pending] = OpcodeOf(c) THEN "send" ELSE "fail"
        BY <3>2, <3>4 DEF Compare, Goto
      <4> QED
        BY <1>0, <2>1, <3>1, <3>2, <3>4, <4>1 DEF Compare, CallerInv, Holds, HasPending, tracker, slot
    <3> QED
      BY <1>2, <3>3, <3>4
  <2> QED
    BY <1>0, <2>1, <2>2, LocalStepKeeps
<1>3. CASE Fail(c)
  <2>1. UNCHANGED <<up, req, kind, part>> /\ ~UnderWay(c) /\ cpc'[c] = "failed" /\ cpc[c] = "fail"
    BY <1>3, KnownTypes DEF Fail, link, UnderWay, Goto, CallerTypes
  <2>2. CASE UNCHANGED tracker
    <3>1. CallerInv(c)'
      BY <2>1, <2>2, KnownTypes DEF CallerInv, tracker, slot
    <3> QED
      BY <1>0, <2>1, <2>2, <3>1, LocalStepKeeps
  <2>3. CASE FailRequest /\ kind[c] \in Explicit
    <3>1. ~alive /\ up = <<>> /\ down = <<>>
      BY <2>1, <2>3, KnownTypes DEF CallerInv, StreamInv
    <3>2. Resolve("failed") /\ "failed" \in Outcomes \ {"unused", "open"} /\ expired' = expired /\ count' = count
      BY <2>3 DEF FailRequest, Resolve, Outcomes
    <3>3. CallerInv(c)'
      BY <2>1, <3>2, KnownTypes DEF CallerInv
    <3>4. \A d \in Caller : CallerInv(d)'
      BY <1>0, <3>1, <3>2, <3>3, InvStaysWhenDropped
    <3>5. expired' = 0 /\ StreamInv' /\ ReqsDiffer'
      BY <1>0, <2>1, <3>1, <3>2, KnownTypes DEF StreamInv, Big, ReqsDiffer
    <3>6. Traffic'
      BY <1>0, <2>1, <3>1, EmptyIsClear DEF Traffic, Clear
    <3> QED
      BY <3>4, <3>5, <3>6 DEF BearerIInv
  <2> QED
    BY <1>3, <2>2, <2>3 DEF Fail
<1>4. CASE ReceiveEcho(c) \/ ReceiveAnswer(c)
  <2>1. UNCHANGED <<up, req, kind, tracker>> /\ ~UnderWay(c) /\ cpc[c] = "wait"
    BY <1>4, EndedIsNotUnderWay DEF ReceiveEcho, ReceiveAnswer, link
  <2>2. cpc'[c] \in {"start", "ok", "failed"}
    BY <1>4, KnownTypes DEF ReceiveEcho, ReceiveAnswer, Goto, CallerTypes
  <2>3. CallerInv(c)'
    BY <2>1, <2>2, KnownTypes DEF CallerInv, tracker, slot
  <2> QED
    BY <1>0, <2>1, <2>3, LocalStepKeeps
<1>5. CASE GiveUp(c)
  <2>1. kind[c] \in Explicit /\ cpc[c] = "wait" /\ req[c] <= 0
    BY <1>5, KnownTypes DEF GiveUp, Explicit
  <2>2. FALSE
    BY <2>1, KnownTypes DEF CallerInv, None
  <2> QED
    BY <2>2
<1> QED
  BY <1>1, <1>2, <1>3, <1>4, <1>5, StartKeeps, RegisterKeeps, SendKeeps DEF CallerStep

\* The server reads the packet m; it answers every packet that somebody waits for.
LEMMA ServeEffect ==
  ASSUME Known, Serve
  PROVE  /\ up # <<>> /\ up' = Tail(up) /\ alive
         /\ UNCHANGED <<tracker, cpc, kind, handle, part, req, answer, alive>>
         /\ Head(up) \in Request
         /\ \/ /\ Big(Head(up))
               /\ \E result \in {"reply", "error"} : down' = Append(down, ResponseOf(Head(up), result))
            \/ /\ ~Big(Head(up))
               /\ down' = down \/ down' = Append(down, ResponseOf(Head(up), "reply"))
<1>1. up # <<>> /\ up' = Tail(up) /\ UNCHANGED <<tracker, cpc, kind, handle, part, req, answer, alive>>
  BY DEF Serve, ServePrepare, ServeExecute, ServeDiscover, ServeWrite, callers
<1>2. alive /\ Head(up) \in Request
  BY <1>1, KnownTypes, TailTypes DEF StreamInv, StreamTypes
<1>3. CASE ServePrepare \/ ServeExecute \/ ServeDiscover
  <2>1. Big(Head(up))
    BY <1>3 DEF ServePrepare, ServeExecute, ServeDiscover, Big
  <2>2. \E result \in {"reply", "error"} : down' = Append(down, ResponseOf(Head(up), result))
    BY <1>3 DEF ServePrepare, ServeExecute, ServeDiscover, Reply, ResponseOf
  <2> QED
    BY <1>1, <1>2, <2>1, <2>2
<1>4. CASE ServeWrite
  BY <1>1, <1>2, <1>4 DEF ServeWrite, Big, Reply, ResponseOf
<1> QED
  BY <1>3, <1>4 DEF Serve

LEMMA ServeKeeps ==
  ASSUME Known, Serve
  PROVE  BearerIInv'
<1> DEFINE m == Head(up)
<1>0. /\ up # <<>> /\ up' = Tail(up) /\ alive /\ m \in Request
      /\ UNCHANGED <<tracker, cpc, kind, handle, part, req, answer, alive>>
      /\ \/ Big(m) /\ \E result \in {"reply", "error"} : down' = Append(down, ResponseOf(m, result))
         \/ ~Big(m) /\ (down' = down \/ down' = Append(down, ResponseOf(m, "reply")))
      /\ up \in Seq(Request) /\ down \in Seq(Response)
      /\ \A result \in {"reply", "error"} : ResponseOf(m, result) \in Response
      /\ \A result : Big(ResponseOf(m, result)) <=> Big(m)
  BY ServeEffect, ResponseTypes, KnownTypes DEF StreamTypes, Big, ResponseOf
<1> HIDE DEF m
<1>1. \A c : Untouched(c)
  BY <1>0 DEF Untouched
<1>2. \A c \in Caller : CallerInv(c)'
  BY <1>0, <1>1, InvStays, KnownTypes
<1>3. \A c \in Caller : /\ UnderWay(c) => UnderWay(c)'
                        /\ RequestOf(c)' = RequestOf(c)
                        /\ \A result : ResponseTo(c, result)' = ResponseTo(c, result)
  BY <1>0, <1>1, UntouchedPackets DEF UnderWay, Holds, Untouched, tracker, slot
<1>4. expired' = 0 /\ ReqsDiffer'
  BY <1>0, KnownTypes DEF ReqsDiffer, tracker
<1>5. StreamInv'
  <2>1. ASSUME NEW r \in Response, down' = Append(down, r), ~Big(r) => r.result = "reply"
        PROVE  StreamInv'
    BY <1>0, <2>1, AppendProperties, LenProperties, KnownTypes DEF StreamInv, Big
  <2>2. (ResponseOf(m, "reply")).result = "reply"
    BY DEF ResponseOf
  <2>3. CASE Big(m)
    BY <1>0, <2>1, <2>3
  <2>4. CASE ~Big(m) /\ down' = down
    BY <1>0, <2>4, KnownTypes DEF StreamInv, Big
  <2>5. CASE ~Big(m) /\ down' = Append(down, ResponseOf(m, "reply"))
    BY <1>0, <2>1, <2>2, <2>5
  <2> QED
    BY <1>0, <2>3, <2>4, <2>5
<1>6. CASE Big(m)
  <2>1. PICK result \in {"reply", "error"} : down' = Append(down, ResponseOf(m, result))
    BY <1>0, <1>6
  <2>2. ~Clear(up)
    BY <1>0, <1>6, ClearHead DEF m
  <2>3. PICK c \in Caller : UnderWay(c) /\ Carries(up, RequestOf(c)) /\ Clear(down)
    BY <2>2, KnownTypes DEF Traffic
  <2>4. m = RequestOf(c) /\ Clear(up')
    BY <1>0, <1>6, <2>3, TakeBig DEF m
  <2>5. Carries(down', ResponseTo(c, result))
    BY <1>0, <1>6, <2>1, <2>3, <2>4, AppendBig DEF ResponseTo
  <2>6. UnderWay(c)' /\ Clear(up') /\ Carries(down', ResponseTo(c, result)')
    BY <1>3, <2>3, <2>4, <2>5
  <2>7. Traffic'
    BY <2>6 DEF Traffic, Carries, Clear
  <2> QED
    BY <1>2, <1>4, <1>5, <2>7 DEF BearerIInv
<1>7. CASE ~Big(m)
  <2>1. /\ Clear(up) => Clear(up')
        /\ \A x : Carries(up, x) => Carries(up', x)
    BY <1>0, <1>7, TakeSmall DEF m
  <2>2. /\ Clear(down) => Clear(down')
        /\ \A x : Carries(down, x) => Carries(down', x)
    <3>1. CASE down' = down
      BY <3>1 DEF Clear, Carries
    <3>2. CASE down' = Append(down, ResponseOf(m, "reply"))
      BY <1>0, <1>7, <3>2, AppendSmall
    <3> QED
      BY <1>0, <1>7, <3>1, <3>2
  <2>3. ASSUME Clear(up), Clear(down)
        PROVE  Traffic'
    BY <2>1, <2>2, <2>3 DEF Traffic, Clear
  <2>4. ASSUME NEW c \in Caller, UnderWay(c), Carries(up, RequestOf(c)), Clear(down)
        PROVE  Traffic'
    <3>1. UnderWay(c)' /\ Carries(up', RequestOf(c)') /\ Clear(down')
      BY <1>3, <2>1, <2>2, <2>4
    <3> QED
      BY <3>1 DEF Traffic, Carries, Clear
  <2>5. ASSUME NEW c \in Caller, UnderWay(c), NEW result \in {"reply", "error"},
               Clear(up), Carries(down, ResponseTo(c, result))
        PROVE  Traffic'
    <3>1. UnderWay(c)' /\ Clear(up') /\ Carries(down', ResponseTo(c, result)')
      BY <1>3, <2>1, <2>2, <2>5
    <3> QED
      BY <3>1 DEF Traffic, Carries, Clear
  <2>6. Traffic'
    BY <2>3, <2>4, <2>5, KnownTypes DEF Traffic
  <2> QED
    BY <1>2, <1>4, <1>5, <2>6 DEF BearerIInv
<1> QED
  BY <1>6, <1>7

\* A response that somebody waits for ends the pending request.
LEMMA DeliverEffect ==
  ASSUME Known, Deliver
  PROVE  /\ down # <<>> /\ down' = Tail(down) /\ alive
         /\ UNCHANGED <<up, cpc, kind, handle, part, req, alive, expired, queue, written>>
         /\ Head(down) \in Response
         /\ Big(Head(down)) =>
              \E c \in Caller, result \in {"reply", "error"} :
                /\ UnderWay(c) /\ Clear(up) /\ Clear(down') /\ Head(down) = ResponseTo(c, result)
                /\ Resolve(result)
         /\ ~Big(Head(down)) =>
              \/ UNCHANGED tracker
              \/ pending # None /\ opcode[pending] = "write" /\ Resolve("reply")
<1> DEFINE m == Head(down)
<1>1. /\ down # <<>> /\ down' = Tail(down)
      /\ UNCHANGED <<up, cpc, kind, handle, part, req, alive, expired, queue, written>>
  BY DEF Deliver, callers, server, CompleteRequest, CompleteWithError, tracker
<1>2. /\ alive /\ m \in Response /\ down \in Seq(Response)
      /\ ~Big(m) => m.result = "reply"
  BY <1>1, KnownTypes, TailTypes DEF StreamInv, StreamTypes
<1>3. ASSUME Big(m)
      PROVE  \E c \in Caller, result \in {"reply", "error"} :
               /\ UnderWay(c) /\ Clear(up) /\ Clear(down') /\ m = ResponseTo(c, result)
               /\ Resolve(result)
  <2>1. ~Clear(down)
    BY <1>1, <1>2, <1>3, ClearHead
  <2>2. PICK c \in Caller, result \in {"reply", "error"} :
          UnderWay(c) /\ Clear(up) /\ Carries(down, ResponseTo(c, result))
    BY <2>1, KnownTypes DEF Traffic
  <2>3. m = ResponseTo(c, result) /\ Clear(down')
    BY <1>1, <1>2, <1>3, <2>2, TakeBig
  <2>4. m.result = result /\ m.op = OpcodeOf(c)
    BY <2>3 DEF ResponseTo, ResponseOf, RequestOf
  <2>5. HasPending /\ opcode[pending] = m.op
    BY <2>2, <2>4, KnownTypes DEF UnderWay, Holds, CallerInv, HasPending
  <2>6. Resolve(result)
    BY <2>4, <2>5 DEF Deliver, CompleteRequest, CompleteWithError
  <2> QED
    BY <2>2, <2>3, <2>6
<1>4. ASSUME ~Big(m)
      PROVE  \/ UNCHANGED tracker
             \/ pending # None /\ opcode[pending] = "write" /\ Resolve("reply")
  BY <1>2, <1>4 DEF Deliver, CompleteRequest, HasPending, Big
<1> QED
  BY <1>1, <1>2, <1>3, <1>4

LEMMA DeliverKeeps ==
  ASSUME Known, Deliver
  PROVE  BearerIInv'
<1> DEFINE m == Head(down)
<1>0. /\ down # <<>> /\ down' = Tail(down) /\ alive /\ down \in Seq(Response)
      /\ UNCHANGED <<up, cpc, kind, handle, part, req, alive, expired>>
  BY DeliverEffect, KnownTypes DEF StreamTypes
<1>1. \A c : Untouched(c)
  BY <1>0 DEF Untouched
<1>2. StreamInv'
  <2>1. /\ Len(down') = Len(down) - 1 /\ Len(down) \in Nat
        /\ \A i \in 1 .. Len(down) - 1 : down'[i] = down[i + 1]
    BY <1>0, TailTypes
  <2> QED
    BY <1>0, <2>1, KnownTypes DEF StreamInv, Big
<1>3. expired' = 0 /\ ReqsDiffer'
  BY <1>0, KnownTypes DEF ReqsDiffer
<1>4. ASSUME NEW how \in {"reply", "error"}, Resolve(how), NEW c \in Caller,
             cpc[c] \in {"check", "compare", "send"} /\ kind[c] \in Explicit => ~Holds(c)
      PROVE  CallerInv(c)'
  <2>1. CallerInv(c) /\ count' = count /\ how \in Outcomes \ {"unused", "open"}
    BY <1>4, KnownTypes DEF Resolve, Outcomes
  <2>2. kind[c] \in Explicit /\ cpc[c] = "wait" => Ended(req[c])'
    BY <1>0, <1>4, <2>1, WaitersLearn DEF CallerInv, Ended
  <2> QED
    BY <1>0, <1>4, <2>1, <2>2 DEF CallerInv
<1>5. CASE Big(m)
  <2>1. PICK c \in Caller, result \in {"reply", "error"} :
          UnderWay(c) /\ Clear(up) /\ Clear(down') /\ Resolve(result)
    BY <1>5, DeliverEffect
  <2>2. ASSUME NEW d \in Caller, cpc[d] \in {"check", "compare", "send"}, kind[d] \in Explicit
        PROVE  ~Holds(d)
    BY <2>1, <2>2, KnownTypes DEF UnderWay, Holds, ReqsDiffer, CallerInv
  <2>3. \A d \in Caller : CallerInv(d)'
    BY <1>4, <2>1, <2>2
  <2>4. Traffic'
    BY <1>0, <2>1 DEF Traffic, Clear
  <2> QED
    BY <1>2, <1>3, <2>3, <2>4 DEF BearerIInv
<1>6. CASE ~Big(m)
  <2>1. \/ UNCHANGED tracker
        \/ pending # None /\ opcode[pending] = "write" /\ Resolve("reply")
    BY <1>6, DeliverEffect
  <2>2. opcode[pending] = "write" => \A d \in Caller : kind[d] \in Explicit => ~Holds(d)
    BY Opcodes DEF Holds
  <2>3. \A d \in Caller : CallerInv(d)'
    <3>1. CASE UNCHANGED tracker
      BY <1>0, <1>1, <3>1, InvStays, KnownTypes
    <3>2. CASE opcode[pending] = "write" /\ Resolve("reply")
      BY <1>4, <2>2, <3>2
    <3> QED
      BY <2>1, <3>1, <3>2
  <2>4. \A d \in Caller : /\ UnderWay(d) => UnderWay(d)'
                          /\ RequestOf(d)' = RequestOf(d)
                          /\ \A result : ResponseTo(d, result)' = ResponseTo(d, result)
    BY <1>0, <1>1, <2>1, <2>2, UntouchedPackets DEF UnderWay, Holds, Untouched, tracker, slot
  <2>5. /\ Clear(down) => Clear(down')
        /\ \A x : Carries(down, x) => Carries(down', x)
    BY <1>0, <1>6, TakeSmall
  <2>6. ASSUME Clear(up), Clear(down)
        PROVE  Traffic'
    BY <1>0, <2>5, <2>6 DEF Traffic, Clear
  <2>7. ASSUME NEW c \in Caller, UnderWay(c), Carries(up, RequestOf(c)), Clear(down)
        PROVE  Traffic'
    <3>1. UnderWay(c)' /\ Carries(up', RequestOf(c)') /\ Clear(down')
      BY <1>0, <2>4, <2>5, <2>7
    <3> QED
      BY <3>1 DEF Traffic, Carries, Clear
  <2>8. ASSUME NEW c \in Caller, UnderWay(c), NEW result \in {"reply", "error"},
               Clear(up), Carries(down, ResponseTo(c, result))
        PROVE  Traffic'
    <3>1. UnderWay(c)' /\ Clear(up') /\ Carries(down', ResponseTo(c, result)')
      BY <1>0, <2>4, <2>5, <2>8
    <3> QED
      BY <3>1 DEF Traffic, Carries, Clear
  <2>9. Traffic'
    BY <2>6, <2>7, <2>8, KnownTypes DEF Traffic
  <2> QED
    BY <1>2, <1>3, <2>3, <2>9 DEF BearerIInv
<1> QED
  BY <1>5, <1>6

LEMMA DropKeeps ==
  ASSUME Known, Disconnect \/ PeerCloses
  PROVE  BearerIInv'
<1>1. /\ UNCHANGED <<cpc, kind, handle, part, req, expired>>
      /\ ~alive' /\ up' = <<>> /\ down' = <<>>
      /\ \/ UNCHANGED tracker
         \/ \E how \in Outcomes \ {"unused", "open"} : Resolve(how)
  BY DEF Disconnect, PeerCloses, Drop, callers, CancelPending, Outcomes, tracker
<1>2. \A c \in Caller : CallerInv(c)'
  BY <1>1, InvStaysWhenDropped DEF Untouched
<1>3. Traffic'
  BY <1>1 DEF Traffic, Clear
<1> QED
  BY <1>1, <1>2, <1>3, KnownTypes DEF BearerIInv, StreamInv, ReqsDiffer

LEMMA BearerInit == Init => BearerIInv
<1> SUFFICES ASSUME Init
             PROVE  BearerIInv
  OBVIOUS
<1>1. expired = 0 /\ ReqsDiffer /\ StreamInv
  BY DEF Init, TrackerInit, ReqsDiffer, StreamInv
<1>2. \A c \in Caller : CallerInv(c)
  BY DEF Init, TrackerInit, CallerInv, Explicit, None
<1>3. Traffic
  BY EmptyIsClear DEF Init, Traffic
<1> QED
  BY <1>1, <1>2, <1>3 DEF BearerIInv

LEMMA BearerStepKeeps ==
  ASSUME MaxExpired = 0, Known, [Next]_vars
  PROVE  BearerIInv'
<1>1. CASE UNCHANGED vars
  <2>1. UNCHANGED <<tracker, cpc, kind, handle, part, req, alive, up, down>>
    BY <1>1 DEF vars, callers, link
  <2>2. \A c \in Caller : Untouched(c) /\ CallerInv(c)'
    BY <2>1, InvStays, KnownTypes DEF Untouched
  <2>3. Traffic'
    BY <2>1, <2>2, TrafficStays, KnownTypes DEF UnderWay, Holds, OpcodeOf, tracker, slot
  <2> QED
    BY <2>1, <2>2, <2>3, KnownTypes DEF BearerIInv, StreamInv, Big, ReqsDiffer, tracker
<1>2. ~Clock
  BY DEF Clock
<1> QED
  BY <1>1, <1>2, CallerKeeps, ServeKeeps, DeliverKeeps, DropKeeps DEF Next

\* The streams carry one packet of a long write at most.
LEMMA OneLongWritePacket ==
  ASSUME StreamTypes, Traffic
  PROVE  LongWriteSerial
<1>1. /\ up \in Seq(Request) /\ down \in Seq(Response)
      /\ DOMAIN up = 1 .. Len(up) /\ DOMAIN down = 1 .. Len(down)
  BY LenProperties DEF StreamTypes
<1>2. ASSUME NEW q, DOMAIN q = 1 .. Len(q), Clear(q)
      PROVE  Cardinality(LongWritePackets(q)) = 0
  <2>1. LongWritePackets(q) = {}
    BY <1>2 DEF Clear, Big, LongWritePackets
  <2> QED
    BY <2>1, FS_EmptySet
<1>3. ASSUME NEW q, DOMAIN q = 1 .. Len(q), NEW x, Carries(q, x)
      PROVE  Cardinality(LongWritePackets(q)) \in {0, 1}
  <2>1. \A i, j \in LongWritePackets(q) : i = j
    BY <1>3 DEF Carries, Big, LongWritePackets
  <2>2. LongWritePackets(q) = {} \/ \E i : LongWritePackets(q) = {i}
    BY <2>1
  <2> QED
    BY <2>2, FS_EmptySet, FS_Singleton
<1> QED
  BY <1>1, <1>2, <1>3 DEF Traffic, LongWriteSerial

LEMMA KnownInvariant ==
  ASSUME MaxExpired = 0
  PROVE  Spec => []Known
<1>1. TrackerIInv /\ BearerTypes /\ BearerIInv /\ [Next]_vars => BearerIInv'
  BY BearerStepKeeps DEF Known
<1>2. TrackerIInv /\ BearerTypes /\ BearerIInv => Known
  BY DEF Known
<1> QED
  BY <1>1, <1>2, BearerInit, BearerTypesHold, BearerInvariant, PTL DEF Spec

\* wire_gatt.go: in the first 30 seconds of a connection, sendATTPacket and the tracker
\* let at most one Prepare or Execute Write onto the bearer, for any number of callers,
\* characteristics and fragments, and whatever writes, discoveries and disconnects come
\* in between.
THEOREM BearerSerial ==
  ASSUME MaxExpired = 0
  PROVE  Spec => []AttInv
<1>1. Known => AttInv
  BY KnownTypes, TypesByBearerTypes, OneLongWritePacket DEF Known, AttInv
<1> QED
  BY <1>1, KnownInvariant, PTL

-----------------------------------------------------------------------------
\* Long writes to one characteristic.  The fragments of c up to n, as the server queues
\* them.
Prefix(c, n) == [k \in 1 .. n |-> <<c, k>>]

Delivered(c) == Value(c) \in Range(written)

Stored(c) == \A h \in Handle : queue[h] = Prefix(c, part[c])

\* The queue holds what has been answered, perhaps the fragment under way, and no other
\* caller's fragments.
Queued(c) ==
  \A h \in Handle :
    \/ queue[h] = Prefix(c, part[c] - 1)
    \/ part[c] <= Fragments /\ queue[h] = Prefix(c, part[c])

\* The response to c's request is on its way or in the channel.
Echoed(c) ==
  /\ OpcodeOf(c) = "prepare"
  /\ \/ UnderWay(c) /\ Carries(down, ResponseTo(c, "reply"))
     \/ cpc[c] = "wait" /\ outcome[req[c]] = "reply"

Accepted(c) ==
  /\ OpcodeOf(c) = "execute"
  /\ \/ UnderWay(c) /\ \E result \in {"reply", "error"} : Carries(down, ResponseTo(c, result))
     \/ cpc[c] = "wait" /\ Answered(c)

WriteInv(c) ==
  LongWriter(c) =>
    /\ alive /\ part[c] > 1 /\ ~Delivered(c) => Queued(c)
    /\ alive /\ Echoed(c) => Stored(c)
    /\ Accepted(c) => Delivered(c)
    /\ Carries(up, RequestOf(c)) => ~Delivered(c)

DeliveredLate ==
  \A c \in Caller : Delivered(c) =>
    LongWriter(c) /\ part[c] = Fragments + 1 /\ cpc[c] \in {"wait", "ok", "failed"}

OthersAtFirst == \A c \in Caller : ~LongWriter(c) => part[c] = 1

WriteIInv ==
  /\ \A c \in Caller : WriteInv(c)
  /\ DeliveredLate
  /\ OthersAtFirst

LEMMA PrefixFacts ==
  ASSUME NEW c, NEW n \in Nat
  PROVE  /\ Prefix(c, n) \in Seq({c} \X Nat) /\ Len(Prefix(c, n)) = n
         /\ Append(Prefix(c, n), <<c, n + 1>>) = Prefix(c, n + 1)
<1> DEFINE p == Prefix(c, n)
           q == Append(p, <<c, n + 1>>)
<1>1. p \in Seq({c} \X Nat)
  BY IsASeq DEF Prefix
<1>2. Len(p) = n
  BY <1>1, LenProperties DEF Prefix
<1>3. /\ q \in Seq({c} \X Nat) /\ Len(q) = n + 1
      /\ \A k \in 1 .. n : q[k] = p[k]
      /\ q[n + 1] = <<c, n + 1>>
  BY <1>1, <1>2, AppendProperties
<1>4. DOMAIN q = 1 .. n + 1
  BY <1>3, LenProperties
<1>5. q = [k \in 1 .. n + 1 |-> q[k]]
  BY <1>3, <1>4
<1>6. \A k \in 1 .. n + 1 : q[k] = <<c, k>>
  BY <1>3 DEF Prefix
<1>7. q = Prefix(c, n + 1)
  BY <1>5, <1>6 DEF Prefix
<1> QED
  BY <1>1, <1>2, <1>7

LEMMA PrefixesDiffer ==
  \A c, d : \A n \in Nat \ {0}, k \in Nat : Prefix(c, n) = Prefix(d, k) => c = d /\ n = k
<1> SUFFICES ASSUME NEW c, NEW d, NEW n \in Nat \ {0}, NEW k \in Nat, Prefix(c, n) = Prefix(d, k)
             PROVE  c = d /\ n = k
  OBVIOUS
<1>1. n = k
  <2>1. Len(Prefix(c, n)) = n
    BY PrefixFacts
  <2>2. Len(Prefix(d, k)) = k
    BY PrefixFacts
  <2> QED
    BY <2>1, <2>2
<1>2. Prefix(c, n)[1] = <<c, 1>> /\ Prefix(d, n)[1] = <<d, 1>>
  BY DEF Prefix
<1> QED
  BY <1>1, <1>2

LEMMA Values ==
  /\ \A c : Value(c) = Prefix(c, Fragments)
  /\ \A c, d : Value(c) = Value(d) => c = d
<1>1. \A c : Value(c) = Prefix(c, Fragments)
  BY DEF Value, Prefix
<1>2. Fragments \in Nat \ {0}
  BY BearerAssumption DEF BearerAssumption
<1> QED
  BY <1>1, <1>2, PrefixesDiffer

LEMMA AppendedRange ==
  ASSUME NEW S, NEW q \in Seq(S), NEW x \in S
  PROVE  Range(Append(q, x)) = Range(q) \cup {x}
BY AppendProperties, LenProperties DEF Range

-----------------------------------------------------------------------------
LEMMA WriteStays ==
  ASSUME NEW c \in Caller, WriteInv(c),
         UNCHANGED written, alive' => alive /\ queue' = queue,
         LongWriter(c)' = LongWriter(c), part'[c] = part[c],
         LongWriter(c) => /\ Echoed(c)' => Echoed(c)
                          /\ Accepted(c)' => Accepted(c)
                          /\ Carries(up, RequestOf(c))' => Carries(up, RequestOf(c))
  PROVE  WriteInv(c)'
<1>1. Delivered(c)' = Delivered(c)
  BY DEF Delivered, Value
<1>2. alive' => Queued(c)' = Queued(c) /\ Stored(c)' = Stored(c)
  BY DEF Queued, Stored, Prefix
<1> QED
  BY <1>1, <1>2 DEF WriteInv

\* A step that leaves c alone does not answer its request.
LEMMA NoNewAnswer ==
  ASSUME NEW c \in Caller, Untouched(c),
         cpc[c] = "wait" =>
           \/ outcome'[req[c]] = outcome[req[c]]
           \/ outcome'[req[c]] \notin {"reply", "error"},
         \A result \in {"reply", "error"} :
           UnderWay(c)' /\ Carries(down', ResponseTo(c, result))
             => UnderWay(c) /\ Carries(down, ResponseTo(c, result))
  PROVE  (Echoed(c)' => Echoed(c)) /\ (Accepted(c)' => Accepted(c))
<1>1. /\ OpcodeOf(c)' = OpcodeOf(c) /\ cpc'[c] = cpc[c] /\ req'[c] = req[c]
      /\ \A result : ResponseTo(c, result)' = ResponseTo(c, result)
  BY UntouchedPackets DEF Untouched
<1>2. \A result \in {"reply", "error"} :
        (UnderWay(c) /\ Carries(down, ResponseTo(c, result)))'
          => UnderWay(c) /\ Carries(down, ResponseTo(c, result))
  BY <1>1
<1>3. cpc'[c] = "wait" => /\ outcome'[req'[c]] = "reply" => outcome[req[c]] = "reply"
                          /\ Answered(c)' => Answered(c)
  BY <1>1 DEF Answered
<1>4. Echoed(c)' => Echoed(c)
  BY <1>1, <1>2, <1>3 DEF Echoed
<1>5. Accepted(c)' => Accepted(c)
  BY <1>1, <1>2, <1>3 DEF Accepted
<1> QED
  BY <1>4, <1>5

\* A caller that does not wait has no answer yet.
LEMMA NotAnswered ==
  ASSUME NEW c, cpc[c] # "wait"
  PROVE  ~Echoed(c) /\ ~Accepted(c)
<1>1. ~UnderWay(c)
  BY DEF UnderWay
<1> QED
  BY <1>1 DEF Echoed, Accepted

LEMMA LateStays ==
  ASSUME DeliveredLate, UNCHANGED written,
         \A c \in Caller : Delivered(c) =>
           /\ LongWriter(c)' = LongWriter(c) /\ part'[c] = part[c]
           /\ cpc'[c] = cpc[c] \/ cpc'[c] \in {"wait", "ok", "failed"}
  PROVE  DeliveredLate'
<1>1. \A c \in Caller : Delivered(c)' = Delivered(c)
  BY DEF Delivered, Value
<1> QED
  BY <1>1 DEF DeliveredLate

\* The tracker's steps of one caller, seen by another.
LEMMA OthersAnswers ==
  ASSUME Known, NEW c \in Caller, NEW d \in Caller, d # c, Begin(c) \/ CallerStep(c)
  PROVE  /\ cpc[d] = "wait" =>
              \/ outcome'[req[d]] = outcome[req[d]]
              \/ outcome'[req[d]] \notin {"reply", "error"}
         /\ UnderWay(d)' => UnderWay(d)
<1>0. Untouched(d) /\ OpcodeOf(d)' = OpcodeOf(d) /\ CallerInv(d)
  BY KnownTypes, OthersUntouched, UntouchedPackets
<1>1. cpc[d] = "wait" => req[d] \in Requests /\ req[d] <= count
  BY <1>0, KnownTypes DEF CallerInv
<1>2. ASSUME UNCHANGED slot
      PROVE  outcome' = outcome /\ (UnderWay(d)' => UnderWay(d))
  BY <1>0, <1>2 DEF slot, UnderWay, Holds, Untouched
<1>3. ASSUME NEW op \in Opcode, StartRequest(op), cpc[d] = "wait"
      PROVE  outcome'[req[d]] = outcome[req[d]] /\ ~UnderWay(d)'
  <2>1. req[d] # count + 1 /\ pending' = count + 1
    BY <1>1, <1>3, KnownTypes DEF StartRequest
  <2> QED
    BY <1>0, <1>1, <1>3, <2>1, KnownTypes DEF StartRequest, TrackerTypeOK, UnderWay, Holds, Untouched
<1>4. ASSUME Resolve("failed"), cpc[d] = "wait"
      PROVE  /\ outcome'[req[d]] = outcome[req[d]] \/ outcome'[req[d]] = "failed"
             /\ ~UnderWay(d)'
  BY <1>0, <1>1, <1>4, KnownTypes DEF Resolve, TrackerTypeOK, UnderWay, Holds, Untouched, None, Requests
<1>5. cpc[d] # "wait" => ~UnderWay(d)'
  BY <1>0 DEF UnderWay, Untouched
<1>6. \/ UNCHANGED slot
      \/ \E op \in Opcode : StartRequest(op)
      \/ Resolve("failed")
  <2>1. CASE Begin(c) \/ Check(c) \/ Compare(c) \/ Send(c) \/ ReceiveEcho(c) \/ ReceiveAnswer(c) \/ GiveUp(c)
    BY <2>1 DEF Begin, Check, Compare, Send, ReceiveEcho, ReceiveAnswer, GiveUp, tracker
  <2>2. CASE Start(c) \/ Register(c)
    BY <2>2, OpcodeOfCaller DEF Start, Register, tracker
  <2>3. CASE Fail(c)
    BY <2>3 DEF Fail, FailRequest, tracker
  <2> QED
    BY <2>1, <2>2, <2>3 DEF CallerStep
<1> QED
  BY <1>2, <1>3, <1>4, <1>5, <1>6

\* What a caller writes to the bearer is its own request.
LEMMA SentByCaller ==
  ASSUME Known, NEW c \in Caller, Begin(c) \/ CallerStep(c), NEW x, Carries(up', x)
  PROVE  Carries(up, x) \/ x = RequestOf(c)
<1>1. CASE up' = up
  BY <1>1
<1>2. CASE up' # up
  <2>1. Send(c) /\ alive /\ up' = Append(up, RequestOf(c))
    BY <1>2 DEF Begin, CallerStep, Start, Check, Compare, Register, Send, Fail, ReceiveEcho,
                ReceiveAnswer, GiveUp, link, RequestOf
  <2>2. up \in Seq(Request) /\ RequestOf(c) \in Request
    BY KnownTypes, RequestTypes DEF StreamTypes
  <2>3. CASE ~Big(RequestOf(c))
    BY <2>1, <2>2, <2>3, AppendSmall
  <2>4. CASE Big(RequestOf(c))
    <3>1. kind[c] \in Explicit
      BY <2>4, Opcodes DEF Big, RequestOf
    <3>2. Holds(c) /\ req[c] # None /\ cpc[c] = "send"
      BY <2>1, <3>1, KnownTypes DEF CallerInv, Send
    <3>3. \A d \in Caller : ~UnderWay(d)
      BY <3>2, KnownTypes DEF ReqsDiffer, UnderWay, Holds
    <3>4. Clear(up)
      BY <3>3, KnownTypes DEF Traffic
    <3> QED
      BY <2>1, <2>2, <2>4, <3>4, AppendBig, CarriesOne
  <2> QED
    BY <2>3, <2>4
<1> QED
  BY <1>1, <1>2

LEMMA OthersWrites ==
  ASSUME Known, WriteIInv, NEW c \in Caller, NEW d \in Caller, d # c, Begin(c) \/ CallerStep(c),
         UNCHANGED <<queue, written>>
  PROVE  WriteInv(d)'
<1>1. Untouched(d) /\ alive' = alive /\ down' = down /\ RequestOf(d)' = RequestOf(d)
  BY KnownTypes, OthersUntouched, UntouchedPackets
<1>2. (Echoed(d)' => Echoed(d)) /\ (Accepted(d)' => Accepted(d))
  BY <1>1, OthersAnswers, NoNewAnswer
<1>3. Carries(up', RequestOf(d)) => Carries(up, RequestOf(d))
  BY SentByCaller DEF RequestOf
<1>4. LongWriter(d)' = LongWriter(d) /\ part'[d] = part[d]
  BY <1>1 DEF Untouched, LongWriter
<1>5. WriteInv(d)
  BY DEF WriteIInv
<1> QED
  BY <1>1, <1>2, <1>3, <1>4, <1>5, WriteStays

\* The steps of c up to its packet, and the ends that it learns without an answer.
LEMMA OwnWrite ==
  ASSUME WriteIInv, NEW c \in Caller, CallerTypes,
         UNCHANGED <<queue, written, alive, kind, handle, part, up>>,
         cpc'[c] # "wait"
  PROVE  WriteInv(c)'
<1>1. ~Echoed(c)' /\ ~Accepted(c)'
  <2>1. ~UnderWay(c)'
    BY DEF UnderWay
  <2> QED
    BY <2>1 DEF Echoed, Accepted
<1>2. /\ LongWriter(c)' = LongWriter(c) /\ part'[c] = part[c]
      /\ RequestOf(c)' = RequestOf(c) /\ WriteInv(c)
  BY DEF LongWriter, RequestOf, OpcodeOf, WriteIInv
<1> QED
  BY <1>1, <1>2, WriteStays

LEMMA CallerKeepsWrites ==
  ASSUME Known, WriteIInv, NEW c \in Caller, Begin(c) \/ CallerStep(c)
  PROVE  WriteIInv'
<1>0. /\ UNCHANGED <<queue, written>> /\ alive' = alive /\ down' = down
      /\ \A d \in Caller : d # c => Untouched(d)
      /\ CallerTypes /\ CallerInv(c) /\ WriteInv(c)
  <2>1. UNCHANGED <<queue, written>>
    BY DEF Begin, CallerStep, Start, Check, Compare, Register, Send, Fail, ReceiveEcho,
           ReceiveAnswer, GiveUp, server
  <2> QED
    BY <2>1, KnownTypes, OthersUntouched DEF WriteIInv
<1>1. \A d \in Caller : d # c => WriteInv(d)'
  BY <1>0, OthersWrites
<1>2. ASSUME WriteInv(c)',
             Delivered(c) => /\ LongWriter(c)' = LongWriter(c) /\ part'[c] = part[c]
                             /\ cpc'[c] = cpc[c] \/ cpc'[c] \in {"wait", "ok", "failed"},
             ~LongWriter(c)' => part'[c] = 1
      PROVE  WriteIInv'
  <2>1. \A d \in Caller : d # c => /\ LongWriter(d)' = LongWriter(d) /\ part'[d] = part[d]
                                  /\ cpc'[d] = cpc[d]
    BY <1>0 DEF Untouched, LongWriter
  <2>2. DeliveredLate'
    BY <1>0, <1>2, <2>1, LateStays DEF WriteIInv
  <2>3. OthersAtFirst'
    BY <1>2, <2>1 DEF WriteIInv, OthersAtFirst
  <2> QED
    BY <1>1, <1>2, <2>2, <2>3 DEF WriteIInv
<1>3. cpc[c] \notin {"wait", "ok", "failed"} => ~Delivered(c)
  BY DEF WriteIInv, DeliveredLate
<1>4. ~LongWriter(c) => part[c] = 1 /\ ~Delivered(c)
  BY DEF WriteIInv, DeliveredLate, OthersAtFirst
<1>5. CASE Begin(c)
  <2>1. ~LongWriter(c) /\ cpc[c] = "idle" /\ part' = part
    BY <1>0, <1>5 DEF Begin, CallerInv, LongWriter
  <2>2. cpc'[c] \in {"start", "check"}
    BY <1>0, <1>5 DEF Begin, CallerTypes
  <2>3. ~Echoed(c)' /\ ~Accepted(c)' /\ ~Delivered(c)'
    <3>1. ~UnderWay(c)'
      BY <2>2 DEF UnderWay
    <3> QED
      BY <1>0, <1>4, <2>1, <2>2, <3>1 DEF Echoed, Accepted, Delivered, Value
  <2>4. WriteInv(c)'
    BY <1>4, <2>1, <2>3 DEF WriteInv
  <2> QED
    BY <1>2, <1>4, <2>1, <2>4
<1>6. CASE Start(c) \/ Check(c) \/ Compare(c) \/ Register(c) \/ Fail(c)
  <2>1. /\ cpc[c] \notin {"wait", "ok", "failed"} /\ UNCHANGED <<up, kind, handle, part>>
        /\ \E where \in {"check", "fail", "compare", "register", "send", "failed"} : Goto(c, where)
    BY <1>6 DEF Start, Check, Compare, Register, Fail, link
  <2>2. cpc'[c] # "wait"
    BY <1>0, <2>1 DEF Goto, CallerTypes
  <2>3. WriteInv(c)'
    BY <1>0, <2>1, <2>2, OwnWrite
  <2> QED
    BY <1>2, <1>3, <1>4, <2>1, <2>3 DEF LongWriter
<1>7. CASE Send(c)
  <2>1. UNCHANGED <<kind, handle, part, tracker, req>> /\ cpc[c] = "send" /\ ~Delivered(c)
    BY <1>3, <1>7 DEF Send
  <2>2. WriteInv(c)'
    <3>1. CASE ~LongWriter(c)
      BY <2>1, <3>1 DEF WriteInv, LongWriter
    <3>2. CASE LongWriter(c) /\ ~alive
      <4>1. up' = up /\ cpc'[c] = "fail"
        BY <1>0, <1>7, <3>2 DEF Send, Goto, CallerTypes
      <4> QED
        BY <1>0, <2>1, <4>1, OwnWrite
    <3>3. CASE LongWriter(c) /\ alive
      <4>1. Holds(c) /\ req[c] # None /\ kind[c] \in Explicit
        BY <1>0, <2>1, <3>3 DEF CallerInv, LongWriter, Explicit
      <4>2. \A d \in Caller : ~UnderWay(d)
        BY <2>1, <4>1, KnownTypes DEF ReqsDiffer, UnderWay, Holds
      <4>3. Clear(down')
        BY <1>0, <4>2, KnownTypes DEF Traffic
      <4>4. outcome'[req'[c]] = "open"
        BY <2>1, <4>1, KnownTypes DEF Holds, TrackerIInv, OpenIsPending, tracker, slot
      <4>5. ~Echoed(c)' /\ ~Accepted(c)'
        BY <4>3, <4>4, CarriesOne DEF Echoed, Accepted, Answered
      <4>6. Delivered(c)' = Delivered(c) /\ Queued(c)' = Queued(c) /\ LongWriter(c)' = LongWriter(c)
        BY <1>0, <2>1 DEF Delivered, Value, Queued, Prefix, LongWriter
      <4> QED
        BY <1>0, <2>1, <4>5, <4>6 DEF WriteInv
    <3> QED
      BY <3>1, <3>2, <3>3
  <2> QED
    BY <1>2, <1>4, <2>1, <2>2 DEF LongWriter
<1>8. CASE ReceiveEcho(c)
  <2>1. /\ cpc[c] = "wait" /\ OpcodeOf(c) = "prepare" /\ UNCHANGED <<up, kind, handle, req>>
        /\ \/ EchoMatches(c) /\ Goto(c, "start") /\ part' = [part EXCEPT ![c] = @ + 1]
           \/ Goto(c, "failed") /\ part' = part
    BY <1>8 DEF ReceiveEcho, link
  <2>2. /\ LongWriter(c) /\ LongWriter(c)' /\ part[c] \in Nat /\ Fragments \in Nat
        /\ part[c] <= Fragments /\ ~Delivered(c) /\ ~Delivered(c)'
    <3>1. LongWriter(c) /\ LongWriter(c)' /\ part[c] \in Nat /\ Fragments \in Nat
      BY <1>0, <2>1, Opcodes, BearerAssumption DEF LongWriter, CallerTypes, BearerAssumption
    <3>2. part[c] <= Fragments
      BY <2>1, <3>1, Opcodes
    <3> QED
      BY <1>0, <3>1, <3>2 DEF WriteIInv, DeliveredLate, Delivered, Value
  <2>3. CASE Goto(c, "failed") /\ part' = part
    <3>1. cpc'[c] # "wait"
      BY <1>0, <2>3 DEF Goto, CallerTypes
    <3> QED
      BY <1>0, <1>2, <2>1, <2>2, <2>3, <3>1, OwnWrite
  <2>4. CASE EchoMatches(c) /\ Goto(c, "start") /\ part' = [part EXCEPT ![c] = @ + 1]
    <3>1. cpc'[c] = "start" /\ part'[c] = part[c] + 1
      BY <1>0, <2>4 DEF Goto, CallerTypes
    <3>2. alive => Stored(c)
      BY <1>0, <2>1, <2>2, <2>4 DEF EchoMatches, WriteInv, Echoed
    <3>3. alive => Queued(c)'
      BY <1>0, <2>2, <3>1, <3>2 DEF Queued, Stored, Prefix
    <3>4. ~Echoed(c)' /\ ~Accepted(c)'
      <4>1. ~UnderWay(c)'
        BY <3>1 DEF UnderWay
      <4> QED
        BY <3>1, <4>1 DEF Echoed, Accepted
    <3>5. WriteInv(c)'
      BY <1>0, <2>2, <3>3, <3>4 DEF WriteInv
    <3> QED
      BY <1>2, <2>2, <3>5
  <2> QED
    BY <2>1, <2>3, <2>4
<1>9. CASE ReceiveAnswer(c) \/ GiveUp(c)
  <2>1. /\ UNCHANGED <<up, kind, handle, part>>
        /\ \E where \in {"ok", "failed"} : Goto(c, where)
    BY <1>9 DEF ReceiveAnswer, GiveUp, link
  <2>2. cpc'[c] \in {"ok", "failed"}
    BY <1>0, <2>1 DEF Goto, CallerTypes
  <2>3. WriteInv(c)'
    BY <1>0, <2>1, <2>2, OwnWrite
  <2> QED
    BY <1>2, <1>4, <2>1, <2>2, <2>3 DEF LongWriter
<1> QED
  BY <1>5, <1>6, <1>7, <1>8, <1>9 DEF CallerStep

-----------------------------------------------------------------------------
OneHandle == \A g, h \in Handle : g = h

\* The server reads the request of the caller under way.
LEMMA ServeBig ==
  ASSUME Known, WriteIInv, Serve, Big(Head(up))
  PROVE  \E d \in Caller, result \in {"reply", "error"} :
           /\ UnderWay(d) /\ Head(up) = RequestOf(d) /\ Carries(up, RequestOf(d)) /\ alive
           /\ down' = Append(down, ResponseTo(d, result)) /\ Carries(down', ResponseTo(d, result))
           /\ outcome'[req[d]] = "open"
           /\ \A c \in Caller : Untouched(c) /\ ~Carries(up', RequestOf(c))
           /\ \A c \in Caller : c # d => (Echoed(c)' => Echoed(c)) /\ (Accepted(c)' => Accepted(c))
<1> DEFINE m == Head(up)
<1>1. PICK result \in {"reply", "error"} : down' = Append(down, ResponseOf(m, result))
  BY ServeEffect
<1>2. /\ up # <<>> /\ up' = Tail(up) /\ m \in Request /\ alive
      /\ UNCHANGED <<tracker, cpc, kind, handle, part, req, alive>>
      /\ up \in Seq(Request) /\ down \in Seq(Response)
  BY ServeEffect, KnownTypes DEF StreamTypes
<1>3. ~Clear(up)
  BY <1>2, ClearHead
<1>4. PICK d \in Caller : UnderWay(d) /\ Carries(up, RequestOf(d)) /\ Clear(down)
  BY <1>3, KnownTypes DEF Traffic
<1>5. m = RequestOf(d) /\ Clear(up')
  BY <1>2, <1>4, TakeBig
<1>6. Carries(down', ResponseTo(d, result))
  <2>1. ResponseOf(m, result) \in Response /\ Big(ResponseOf(m, result))
    BY <1>2, ResponseTypes DEF Big, ResponseOf
  <2> QED
    BY <1>1, <1>2, <1>4, <1>5, <2>1, AppendBig DEF ResponseTo
<1>7. \A c \in Caller : Untouched(c) /\ ~Carries(up', RequestOf(c))
  BY <1>2, <1>5, CarriesOne DEF Untouched
<1>8. outcome'[req[d]] = "open"
  BY <1>2, <1>4, KnownTypes DEF UnderWay, Holds, CallerInv, TrackerIInv, OpenIsPending, tracker, slot
<1>9. ASSUME NEW c \in Caller, c # d
      PROVE  (Echoed(c)' => Echoed(c)) /\ (Accepted(c)' => Accepted(c))
  <2>1. ~UnderWay(c)
    BY <1>4, <1>9, KnownTypes DEF UnderWay, Holds, ReqsDiffer, CallerInv
  <2>2. ~UnderWay(c)'
    BY <1>2, <2>1 DEF UnderWay, Holds, OpcodeOf, tracker, slot
  <2>3. outcome' = outcome
    BY <1>2 DEF tracker, slot
  <2> QED
    BY <1>7, <2>2, <2>3, NoNewAnswer
<1> QED
  BY <1>1, <1>2, <1>4, <1>5, <1>6, <1>7, <1>8, <1>9 DEF ResponseTo

LEMMA AppendedLast ==
  ASSUME NEW S, NEW q \in Seq(S), NEW x \in S, NEW y \in S, Append(q, x) = Append(q, y)
  PROVE  x = y
BY AppendProperties, LenProperties

\* No two callers have fragments in the queue.
LEMMA QueueOwner ==
  ASSUME Known, WriteIInv, NEW d \in Caller, NEW n \in Nat, \A h \in Handle : queue[h] = Prefix(d, n),
         NEW c \in Caller, c # d, LongWriter(c), alive
  PROVE  /\ part[c] > 1 => Delivered(c)
         /\ ~Echoed(c)
<1> DEFINE h == handle[c]
<1>1. h \in Handle /\ part[c] \in Nat \ {0} /\ WriteInv(c)
  BY KnownTypes, BearerAssumption DEF CallerTypes, WriteIInv, BearerAssumption
<1>2. queue[h] = Prefix(d, n)
  BY <1>1
<1> HIDE DEF h
<1>3. ASSUME part[c] > 1, ~Delivered(c)
      PROVE  FALSE
  <2>1. queue[h] = Prefix(c, part[c] - 1) \/ queue[h] = Prefix(c, part[c])
    BY <1>1, <1>3 DEF WriteInv, Queued
  <2>2. part[c] - 1 \in Nat \ {0}
    BY <1>1, <1>3
  <2>3. \E k \in Nat \ {0} : Prefix(c, k) = Prefix(d, n)
    BY <1>1, <1>2, <2>1, <2>2
  <2> QED
    BY <2>3, PrefixesDiffer
<1>4. ASSUME Echoed(c)
      PROVE  FALSE
  <2>1. Prefix(c, part[c]) = Prefix(d, n)
    BY <1>1, <1>2, <1>4 DEF WriteInv, Stored
  <2> QED
    BY <1>1, <2>1, PrefixesDiffer
<1> QED
  BY <1>3, <1>4

LEMMA PrepareKeepsWrites ==
  ASSUME OneHandle, Known, WriteIInv, ServePrepare
  PROVE  WriteIInv'
<1> DEFINE m == Head(up)
<1>0. Serve /\ Big(Head(up)) /\ m.op = "prepare" /\ UNCHANGED <<kind, part, cpc, alive, written>>
  BY DEF Serve, ServePrepare, Big, callers
<1>1. PICK d \in Caller, result \in {"reply", "error"} :
        /\ UnderWay(d) /\ m = RequestOf(d) /\ alive
        /\ down' = Append(down, ResponseTo(d, result)) /\ Carries(down', ResponseTo(d, result))
        /\ outcome'[req[d]] = "open"
        /\ \A c \in Caller : Untouched(c) /\ ~Carries(up', RequestOf(c))
        /\ \A c \in Caller : c # d => (Echoed(c)' => Echoed(c)) /\ (Accepted(c)' => Accepted(c))
  BY <1>0, ServeBig
<1>2. /\ OpcodeOf(d) = "prepare" /\ LongWriter(d) /\ handle[d] \in Handle
      /\ m.handle = handle[d] /\ m.part = part[d] /\ m.from = d /\ m.op = OpcodeOf(d)
      /\ part[d] \in Nat \ {0} /\ Fragments \in Nat /\ part[d] <= Fragments
      /\ queue \in [Handle -> Seq(Fragment)]
  <2>1. m.op = OpcodeOf(d) /\ m.handle = handle[d] /\ m.part = part[d] /\ m.from = d
    BY <1>1 DEF RequestOf
  <2>2. OpcodeOf(d) = "prepare" /\ LongWriter(d) /\ ~(part[d] > Fragments)
    BY <1>0, <2>1, Opcodes
  <2> QED
    BY <2>1, <2>2, KnownTypes, BearerAssumption DEF CallerTypes, StreamTypes, BearerAssumption
<1>3. DeliveredLate' /\ OthersAtFirst'
  BY <1>0, LateStays DEF WriteIInv, OthersAtFirst, LongWriter
<1>4. \A c \in Caller : WriteInv(c) /\ LongWriter(c)' = LongWriter(c) /\ part'[c] = part[c]
  BY <1>0 DEF WriteIInv, LongWriter
<1>5. ~Accepted(d)' /\ ~Carries(up, RequestOf(d))'
  BY <1>1, <1>2, UntouchedPackets DEF Accepted
<1>6. CASE queue' = queue /\ down' = Append(down, ResponseTo(d, "error"))
  <2>1. ~Echoed(d)'
    <3>1. result = "error"
      BY <1>1, <1>6, AppendedLast DEF ResponseTo, ResponseOf
    <3>2. ResponseTo(d, "reply") # ResponseTo(d, "error")
      BY DEF ResponseTo, ResponseOf
    <3>3. ~Carries(down', ResponseTo(d, "reply"))
      BY <1>1, <3>1, <3>2, CarriesOne
    <3> QED
      BY <1>1, <3>3, UntouchedPackets DEF Echoed, Untouched
  <2>2. \A c \in Caller : WriteInv(c)'
    BY <1>0, <1>1, <1>4, <1>5, <1>6, <2>1, WriteStays, UntouchedPackets
  <2> QED
    BY <1>3, <2>2 DEF WriteIInv
<1>7. CASE /\ part[d] = Len(queue[handle[d]]) + 1
           /\ queue' = [queue EXCEPT ![handle[d]] = Append(@, <<d, part[d]>>)]
  <2>1. queue[handle[d]] = Prefix(d, part[d] - 1)
    <3>1. CASE part[d] = 1
      <4>1. queue[handle[d]] = <<>>
        BY <1>2, <1>7, <3>1, EmptySeq
      <4>2. part[d] - 1 = 0 /\ Prefix(d, 0) = <<>>
        BY <3>1 DEF Prefix
      <4> QED
        BY <4>1, <4>2
    <3>2. CASE part[d] # 1
      <4>1. ~Delivered(d) /\ part[d] > 1
        BY <1>2, <3>2 DEF WriteIInv, DeliveredLate
      <4>2. queue[handle[d]] \in {Prefix(d, part[d] - 1), Prefix(d, part[d])}
        BY <1>1, <1>2, <4>1 DEF WriteIInv, WriteInv, Queued
      <4>3. Len(Prefix(d, part[d])) = part[d]
        BY <1>2, PrefixFacts
      <4> QED
        BY <1>2, <1>7, <4>2, <4>3
    <3> QED
      BY <3>1, <3>2
  <2>2. \A h \in Handle : queue[h] = Prefix(d, part[d] - 1)
    BY <1>2, <2>1 DEF OneHandle
  <2>3. \A h \in Handle : queue'[h] = Prefix(d, part[d])
    <3>1. queue'[handle[d]] = Append(Prefix(d, part[d] - 1), <<d, (part[d] - 1) + 1>>)
      BY <1>2, <1>7, <2>1
    <3>2. part[d] - 1 \in Nat /\ (part[d] - 1) + 1 = part[d]
      BY <1>2
    <3>3. queue'[handle[d]] = Prefix(d, part[d])
      BY <3>1, <3>2, PrefixFacts
    <3> QED
      BY <1>2, <3>3 DEF OneHandle
  <2>4. WriteInv(d)'
    <3>1. Stored(d)' /\ Queued(d)'
      BY <1>2, <1>4, <2>3 DEF Stored, Queued, Prefix
    <3> QED
      BY <1>5, <3>1 DEF WriteInv
  <2>5. ASSUME NEW c \in Caller, c # d
        PROVE  WriteInv(c)'
    <3>1. CASE LongWriter(c)
      <4>1. (part[c] > 1 => Delivered(c)) /\ ~Echoed(c)
        <5>1. part[d] - 1 \in Nat
          BY <1>2
        <5> QED
          BY <1>1, <2>2, <2>5, <3>1, <5>1, QueueOwner
      <4>2. ~Echoed(c)' /\ (Accepted(c)' => Accepted(c)) /\ ~Carries(up, RequestOf(c))'
        BY <1>1, <2>5, <4>1, UntouchedPackets
      <4>3. Delivered(c)' = Delivered(c)
        BY <1>0 DEF Delivered, Value
      <4> QED
        BY <1>4, <4>1, <4>2, <4>3 DEF WriteInv
    <3>2. CASE ~LongWriter(c)
      BY <1>4, <3>2 DEF WriteInv
    <3> QED
      BY <3>1, <3>2
  <2> QED
    BY <1>3, <2>4, <2>5 DEF WriteIInv
<1>8. \/ /\ part[d] = Len(queue[handle[d]]) + 1
         /\ queue' = [queue EXCEPT ![handle[d]] = Append(@, <<d, part[d]>>)]
      \/ queue' = queue /\ down' = Append(down, ResponseTo(d, "error"))
  <2>1. ResponseTo(d, "error") = ResponseOf(m, "error")
    BY <1>1 DEF ResponseTo
  <2>2. CASE Fits(m)
    BY <1>2, <2>2 DEF ServePrepare, Fits
  <2>3. CASE ~Fits(m)
    BY <2>1, <2>3 DEF ServePrepare, Reply, ResponseOf
  <2> QED
    BY <2>2, <2>3
<1> QED
  BY <1>6, <1>7, <1>8

LEMMA OnlyOrder ==
  ASSUME NEW g, NEW order \in SetToSeqs({g})
  PROVE  Len(order) = 1 /\ order[1] = g
<1>1. Cardinality({g}) = 1
  BY FS_Singleton
<1>2. order \in [1 .. 1 -> {g}]
  BY <1>1 DEF SetToSeqs
<1> QED
  BY <1>2

LEMMA AppendedOne ==
  ASSUME NEW S, NEW q \in Seq(S), NEW x \in S
  PROVE  q \o [k \in 1 .. 1 |-> x] = Append(q, x)
<1> DEFINE t == [k \in 1 .. 1 |-> x]
           a == q \o t
           b == Append(q, x)
<1>1. t \in Seq(S)
  BY IsASeq
<1>2. Len(t) = 1 /\ t[1] = x
  BY <1>1, LenProperties
<1>3. /\ a \in Seq(S) /\ Len(a) = Len(q) + 1 /\ Len(q) \in Nat
      /\ \A i \in 1 .. Len(q) + 1 : a[i] = IF i <= Len(q) THEN q[i] ELSE t[i - Len(q)]
  BY <1>1, <1>2, ConcatProperties, LenProperties
<1>4. /\ b \in Seq(S) /\ Len(b) = Len(q) + 1
      /\ \A i \in 1 .. Len(q) : b[i] = q[i]
      /\ b[Len(q) + 1] = x
  BY AppendProperties
<1> HIDE DEF a, b, t
<1>5. \A i \in 1 .. Len(q) + 1 : a[i] = b[i]
  BY <1>2, <1>3, <1>4
<1>6. a = b
  BY <1>3, <1>4, <1>5, SeqEqual
<1> QED
  BY <1>6 DEF a, b, t

\* The server delivers the value of the caller that asked for it, and nothing else.
LEMMA ExecuteEffect ==
  ASSUME OneHandle, Known, WriteIInv, ServeExecute, NEW d \in Caller, UnderWay(d),
         Head(up) = RequestOf(d), Carries(up, RequestOf(d)), alive
  PROVE  /\ LongWriter(d) /\ part[d] = Fragments + 1 /\ ~Delivered(d)
         /\ \A h \in Handle : queue[h] = Prefix(d, Fragments)
         /\ Value(d) \in Seq(Fragment) /\ written' = Append(written, Value(d))
<1>1. OpcodeOf(d) = "execute"
  BY DEF ServeExecute, RequestOf
<1>2. /\ LongWriter(d) /\ part[d] = Fragments + 1 /\ Fragments \in Nat \ {0}
      /\ handle[d] \in Handle /\ queue \in [Handle -> Seq(Fragment)] /\ written \in Seq(Seq(Fragment))
  BY <1>1, Opcodes, KnownTypes, BearerAssumption DEF CallerTypes, StreamTypes, BearerAssumption
<1>3. WriteInv(d) /\ ~Delivered(d)
  BY <1>2 DEF WriteIInv, WriteInv
<1>4. \A h \in Handle : queue[h] = Prefix(d, Fragments)
  <2>1. part[d] > 1 /\ part[d] - 1 = Fragments /\ ~(part[d] <= Fragments)
    <3>1. ASSUME NEW p, p = Fragments + 1
          PROVE  p > 1 /\ p - 1 = Fragments /\ ~(p <= Fragments)
      BY <3>1, BearerAssumption DEF BearerAssumption
    <3> QED
      BY <1>2, <3>1
  <2> QED
    BY <1>2, <1>3, <2>1 DEF WriteInv, Queued
<1>5. Value(d) = queue[handle[d]] /\ Value(d) \in Seq(Fragment) /\ Value(d) # <<>>
  <2>1. Value(d) = queue[handle[d]]
    BY <1>2, <1>4, Values
  <2>2. Len(Prefix(d, Fragments)) = Fragments
    BY <1>2, PrefixFacts
  <2> QED
    BY <1>2, <1>4, <2>1, <2>2, EmptySeq
<1>6. {h \in Handle : queue[h] # <<>>} = {handle[d]}
  BY <1>2, <1>5 DEF OneHandle
<1>7. PICK order \in SetToSeqs({handle[d]}) :
        written' = written \o [k \in 1 .. Len(order) |-> queue[order[k]]]
  BY <1>6 DEF ServeExecute
<1>8. written' = written \o [k \in 1 .. 1 |-> Value(d)]
  <2>1. Len(order) = 1 /\ order[1] = handle[d]
    BY OnlyOrder
  <2>2. [k \in 1 .. Len(order) |-> queue[order[k]]] = [k \in 1 .. 1 |-> Value(d)]
    BY <1>5, <2>1
  <2> QED
    BY <1>7, <2>2
<1>9. written' = Append(written, Value(d))
  BY <1>2, <1>5, <1>8, AppendedOne
<1> QED
  BY <1>2, <1>3, <1>4, <1>5, <1>9

LEMMA ExecuteKeepsWrites ==
  ASSUME OneHandle, Known, WriteIInv, ServeExecute
  PROVE  /\ WriteIInv'
         /\ \E d \in Caller : Value(d) \notin Range(written) /\ written' = Append(written, Value(d))
<1>0. Serve /\ Big(Head(up)) /\ UNCHANGED <<kind, part, cpc, alive>>
  BY DEF Serve, ServeExecute, Big, callers
<1>1. PICK d \in Caller :
        /\ UnderWay(d) /\ Head(up) = RequestOf(d) /\ Carries(up, RequestOf(d)) /\ alive
        /\ \A c \in Caller : Untouched(c) /\ ~Carries(up', RequestOf(c))
        /\ \A c \in Caller : c # d => (Echoed(c)' => Echoed(c)) /\ (Accepted(c)' => Accepted(c))
  BY <1>0, ServeBig
<1>2. /\ LongWriter(d) /\ part[d] = Fragments + 1 /\ ~Delivered(d) /\ Fragments \in Nat
      /\ \A h \in Handle : queue[h] = Prefix(d, Fragments)
      /\ Value(d) \in Seq(Fragment) /\ written \in Seq(Seq(Fragment))
      /\ written' = Append(written, Value(d))
  BY <1>1, ExecuteEffect, KnownTypes, BearerAssumption DEF StreamTypes, BearerAssumption
<1>3. \A c \in Caller : Delivered(c)' <=> Delivered(c) \/ c = d
  <2>1. Range(written') = Range(written) \cup {Value(d)}
    BY <1>2, AppendedRange
  <2>2. \A c : Value(c)' = Value(c)
    BY DEF Value
  <2> QED
    BY <2>1, <2>2, Values DEF Delivered
<1>4. \A c \in Caller : WriteInv(c) /\ LongWriter(c)' = LongWriter(c) /\ part'[c] = part[c]
  BY <1>0 DEF WriteIInv, LongWriter
<1>5. DeliveredLate' /\ OthersAtFirst'
  <2>1. cpc[d] = "wait"
    BY <1>1 DEF UnderWay
  <2> QED
    BY <1>0, <1>2, <1>3, <1>4, <2>1 DEF WriteIInv, DeliveredLate, OthersAtFirst
<1>6. WriteInv(d)'
  <2>1. Delivered(d)' /\ ~Echoed(d)' /\ ~Carries(up, RequestOf(d))'
    <3>1. OpcodeOf(d)' = "execute" /\ RequestOf(d)' = RequestOf(d)
      BY <1>1, <1>2, Opcodes, UntouchedPackets
    <3> QED
      BY <1>1, <1>3, <3>1 DEF Echoed
  <2> QED
    BY <2>1 DEF WriteInv
<1>7. ASSUME NEW c \in Caller, c # d, LongWriter(c)
      PROVE  WriteInv(c)'
  <2>1. (part[c] > 1 => Delivered(c)) /\ ~Echoed(c)
    BY <1>1, <1>2, <1>7, QueueOwner
  <2>2. ~Echoed(c)' /\ (Accepted(c)' => Accepted(c)) /\ ~Carries(up, RequestOf(c))'
    BY <1>1, <1>7, <2>1, UntouchedPackets
  <2> QED
    BY <1>3, <1>4, <1>7, <2>1, <2>2 DEF WriteInv
<1>8. \A c \in Caller : WriteInv(c)'
  BY <1>4, <1>6, <1>7 DEF WriteInv
<1> QED
  BY <1>2, <1>5, <1>8 DEF WriteIInv, Delivered

LEMMA DiscoverKeepsWrites ==
  ASSUME Known, WriteIInv, ServeDiscover
  PROVE  WriteIInv'
<1>0. Serve /\ Big(Head(up)) /\ UNCHANGED <<kind, part, cpc, alive, queue, written>>
  BY DEF Serve, ServeDiscover, Big, callers, server
<1>1. PICK d \in Caller :
        /\ UnderWay(d) /\ Head(up) = RequestOf(d)
        /\ \A c \in Caller : Untouched(c) /\ ~Carries(up', RequestOf(c))
        /\ \A c \in Caller : c # d => (Echoed(c)' => Echoed(c)) /\ (Accepted(c)' => Accepted(c))
  BY <1>0, ServeBig
<1>2. ~LongWriter(d)
  <2>1. OpcodeOf(d) = "discover"
    BY <1>1 DEF ServeDiscover, RequestOf
  <2> QED
    BY <2>1, Opcodes DEF LongWriter
<1>3. \A c \in Caller : WriteInv(c) /\ LongWriter(c)' = LongWriter(c) /\ part'[c] = part[c]
  BY <1>0 DEF WriteIInv, LongWriter
<1>4. \A c \in Caller : WriteInv(c)'
  BY <1>0, <1>1, <1>2, <1>3, WriteStays, UntouchedPackets
<1>5. DeliveredLate' /\ OthersAtFirst'
  BY <1>0, LateStays DEF WriteIInv, OthersAtFirst, LongWriter
<1> QED
  BY <1>4, <1>5 DEF WriteIInv

LEMMA PlainKeepsWrites ==
  ASSUME Known, WriteIInv, ServeWrite
  PROVE  WriteIInv'
<1>0. /\ Serve /\ ~Big(Head(up))
      /\ UNCHANGED <<kind, part, cpc, alive, handle, req, tracker, queue, written>>
  BY DEF Serve, ServeWrite, Big, callers, server
<1>1. /\ up # <<>> /\ up' = Tail(up) /\ up \in Seq(Request) /\ down \in Seq(Response)
      /\ ResponseOf(Head(up), "reply") \in Response /\ ~Big(ResponseOf(Head(up), "reply"))
      /\ down' = down \/ down' = Append(down, ResponseOf(Head(up), "reply"))
  BY <1>0, ServeEffect, ResponseTypes, KnownTypes DEF StreamTypes, Big, ResponseOf
<1>2. \A x : (Carries(up', x) => Carries(up, x)) /\ (Carries(down', x) => Carries(down, x))
  <2>1. \A x : Carries(up', x) => Carries(up, x)
    BY <1>0, <1>1, TakeSmall
  <2>2. CASE down' = down
    BY <2>1, <2>2
  <2>3. CASE down' = Append(down, ResponseOf(Head(up), "reply"))
    <3>1. \A x : Carries(down', x) => Carries(down, x)
      BY <1>1, <2>3, AppendSmall
    <3> QED
      BY <2>1, <3>1
  <2> QED
    BY <1>1, <2>2, <2>3
<1>3. ASSUME NEW c \in Caller
      PROVE  WriteInv(c)'
  <2>1. Untouched(c)
    BY <1>0 DEF Untouched
  <2>2. UnderWay(c)' = UnderWay(c)
    BY <1>0 DEF UnderWay, Holds, OpcodeOf, tracker, slot
  <2>3. outcome' = outcome
    BY <1>0 DEF tracker, slot
  <2>4. (Echoed(c)' => Echoed(c)) /\ (Accepted(c)' => Accepted(c))
    BY <1>2, <2>1, <2>2, <2>3, NoNewAnswer
  <2> QED
    BY <1>0, <1>2, <2>1, <2>4, WriteStays, UntouchedPackets DEF WriteIInv, LongWriter, Untouched
<1>4. DeliveredLate' /\ OthersAtFirst'
  BY <1>0, LateStays DEF WriteIInv, OthersAtFirst, LongWriter
<1> QED
  BY <1>3, <1>4 DEF WriteIInv

LEMMA DeliverKeepsWrites ==
  ASSUME Known, WriteIInv, Deliver
  PROVE  WriteIInv'
<1>0. /\ down # <<>> /\ down' = Tail(down) /\ down \in Seq(Response)
      /\ UNCHANGED <<up, cpc, kind, handle, part, req, alive, queue, written>>
  BY DeliverEffect, KnownTypes DEF StreamTypes
<1>1. \A c \in Caller : Untouched(c) /\ WriteInv(c) /\ CallerInv(c)
  BY <1>0, KnownTypes DEF Untouched, WriteIInv
<1>2. ASSUME NEW c \in Caller, (Echoed(c)' => Echoed(c)) /\ (Accepted(c)' => Accepted(c))
      PROVE  WriteInv(c)'
  BY <1>0, <1>1, <1>2, WriteStays DEF LongWriter, RequestOf, OpcodeOf
<1>3. DeliveredLate' /\ OthersAtFirst'
  BY <1>0, LateStays DEF WriteIInv, OthersAtFirst, LongWriter
<1>4. CASE Big(Head(down))
  <2>1. PICK d \in Caller, result \in {"reply", "error"} :
          UnderWay(d) /\ Clear(down') /\ Head(down) = ResponseTo(d, result) /\ Resolve(result)
    BY <1>4, DeliverEffect
  <2>2. PICK sent \in {"reply", "error"} : Carries(down, ResponseTo(d, sent))
    <3>1. ~Clear(down)
      BY <1>0, <1>4, ClearHead
    <3>2. \A c \in Caller : UnderWay(c) => c = d
      BY <2>1, KnownTypes DEF UnderWay, Holds, ReqsDiffer, CallerInv
    <3> QED
      BY <3>1, <3>2, KnownTypes DEF Traffic
  <2>3. Head(down) = ResponseTo(d, sent)
    BY <1>0, <1>4, <2>2, TakeBig
  <2>4. sent = result
    BY <2>1, <2>3 DEF ResponseTo, ResponseOf
  <2>5. ASSUME NEW c \in Caller
        PROVE  (Echoed(c)' => Echoed(c)) /\ (Accepted(c)' => Accepted(c))
    <3>1. CASE c = d
      <4>1. outcome'[req[d]] = result /\ OpcodeOf(d)' = OpcodeOf(d) /\ UnderWay(d) /\ cpc[d] = "wait"
        BY <1>0, <1>1, <2>1, KnownTypes
        DEF Resolve, UnderWay, Holds, CallerInv, TrackerTypeOK, OpcodeOf
      <4>2. \A r : ~Carries(down', r)
        BY <2>1, CarriesOne
      <4>3. Echoed(d)' => Echoed(d)
        BY <1>0, <2>2, <2>4, <4>1, <4>2 DEF Echoed
      <4>4. Accepted(d)' => Accepted(d)
        BY <2>2, <4>1, <4>2 DEF Accepted
      <4> QED
        BY <3>1, <4>3, <4>4
    <3>2. CASE c # d
      <4>1. cpc[c] = "wait" => outcome'[req[c]] = outcome[req[c]]
        BY <1>1, <2>1, <3>2, KnownTypes
        DEF Resolve, UnderWay, Holds, ReqsDiffer, CallerInv, TrackerTypeOK
      <4>2. \A r : ~Carries(down', r)
        BY <2>1, CarriesOne
      <4> QED
        BY <1>1, <4>1, <4>2, NoNewAnswer
    <3> QED
      BY <3>1, <3>2
  <2> QED
    BY <1>2, <1>3, <2>5 DEF WriteIInv
<1>5. CASE ~Big(Head(down))
  <2>1. \/ UNCHANGED tracker
        \/ pending # None /\ opcode[pending] = "write" /\ Resolve("reply")
    BY <1>5, DeliverEffect
  <2>2. \A x : Carries(down', x) => Carries(down, x)
    BY <1>0, <1>5, TakeSmall
  <2>3. ASSUME NEW c \in Caller
        PROVE  WriteInv(c)'
    <3>1. CASE UNCHANGED tracker
      <4>1. outcome' = outcome /\ UnderWay(c)' = UnderWay(c)
        BY <1>0, <3>1 DEF UnderWay, Holds, OpcodeOf, tracker, slot
      <4> QED
        BY <1>1, <1>2, <2>2, <4>1, NoNewAnswer
    <3>2. CASE pending # None /\ opcode[pending] = "write" /\ Resolve("reply")
      <4>1. kind[c] \in Explicit => ~Holds(c)
        BY <3>2, Opcodes DEF Holds
      <4>2. cpc[c] = "wait" => req[c] # pending
        BY <1>1, <3>2, <4>1, KnownTypes DEF CallerInv, Ended, TrackerIInv, OpenIsPending
      <4>3. cpc[c] = "wait" => outcome'[req[c]] = outcome[req[c]]
        BY <1>1, <3>2, <4>2, KnownTypes DEF Resolve, TrackerTypeOK, CallerInv
      <4>4. ~UnderWay(c)'
        BY <1>0, <1>1, <3>2 DEF Resolve, UnderWay, Holds, CallerInv
      <4> QED
        BY <1>1, <1>2, <4>3, <4>4, NoNewAnswer
    <3> QED
      BY <2>1, <3>1, <3>2
  <2> QED
    BY <1>3, <2>3 DEF WriteIInv
<1> QED
  BY <1>4, <1>5

LEMMA DropKeepsWrites ==
  ASSUME Known, WriteIInv, Disconnect \/ PeerCloses
  PROVE  WriteIInv'
<1>1. /\ UNCHANGED <<cpc, kind, handle, part, req, written>>
      /\ ~alive' /\ up' = <<>> /\ down' = <<>>
      /\ UNCHANGED tracker \/ Resolve("cancelled")
  BY DEF Disconnect, PeerCloses, Drop, callers, CancelPending, tracker
<1>2. \A x : ~Carries(up', x) /\ ~Carries(down', x)
  BY <1>1, EmptyIsClear, CarriesOne
<1>3. ASSUME NEW c \in Caller
      PROVE  WriteInv(c)'
  <2>1. Untouched(c) /\ WriteInv(c) /\ CallerInv(c)
    BY <1>1, KnownTypes DEF Untouched, WriteIInv
  <2>2. cpc[c] = "wait" => outcome'[req[c]] \in {outcome[req[c]], "cancelled"}
    BY <1>1, <2>1, KnownTypes DEF Resolve, TrackerTypeOK, CallerInv, tracker, slot
  <2>3. (Echoed(c)' => Echoed(c)) /\ (Accepted(c)' => Accepted(c))
    BY <1>2, <2>1, <2>2, NoNewAnswer
  <2> QED
    BY <1>1, <1>2, <2>1, <2>3, WriteStays DEF LongWriter
<1>4. DeliveredLate' /\ OthersAtFirst'
  BY <1>1, LateStays DEF WriteIInv, OthersAtFirst, LongWriter
<1> QED
  BY <1>3, <1>4 DEF WriteIInv

LEMMA WriteInit == Init => WriteIInv
<1> SUFFICES ASSUME Init
             PROVE  WriteIInv
  OBVIOUS
<1>1. \A c \in Caller : ~LongWriter(c) /\ part[c] = 1
  BY DEF Init, LongWriter
<1>2. \A c \in Caller : ~Delivered(c)
  BY DEF Init, Delivered, Range
<1> QED
  BY <1>1, <1>2 DEF WriteIInv, WriteInv, DeliveredLate, OthersAtFirst

LEMMA StepKeepsWrites ==
  ASSUME MaxExpired = 0, OneHandle, Known, WriteIInv, [Next]_vars
  PROVE  WriteIInv'
<1>1. CASE UNCHANGED vars
  <2>1. UNCHANGED <<tracker, cpc, kind, handle, part, req, alive, up, down, queue, written>>
    BY <1>1 DEF vars, callers, link, server
  <2>2. \A c \in Caller : WriteInv(c)'
    <3> SUFFICES ASSUME NEW c \in Caller
                 PROVE  WriteInv(c)'
      OBVIOUS
    <3>1. /\ OpcodeOf(c)' = OpcodeOf(c) /\ RequestOf(c)' = RequestOf(c) /\ UnderWay(c)' = UnderWay(c)
          /\ outcome' = outcome
      BY <2>1 DEF OpcodeOf, RequestOf, UnderWay, Holds, tracker, slot
    <3>2. Untouched(c) /\ (Echoed(c)' => Echoed(c)) /\ (Accepted(c)' => Accepted(c))
      <4>1. Untouched(c)
        BY <2>1 DEF Untouched
      <4> QED
        BY <2>1, <3>1, <4>1, NoNewAnswer
    <3> QED
      BY <2>1, <3>1, <3>2, WriteStays DEF WriteIInv, LongWriter
  <2>3. DeliveredLate' /\ OthersAtFirst'
    BY <2>1, LateStays DEF WriteIInv, OthersAtFirst, LongWriter
  <2> QED
    BY <2>2, <2>3 DEF WriteIInv
<1>2. ~Clock
  BY DEF Clock
<1> QED
  BY <1>1, <1>2, CallerKeepsWrites, PrepareKeepsWrites, ExecuteKeepsWrites, DiscoverKeepsWrites,
     PlainKeepsWrites, DeliverKeepsWrites, DropKeepsWrites
  DEF Next, Serve

-----------------------------------------------------------------------------
\* What the callers have been told, and what each step is to the writes' specification.
Told == [c \in Caller |-> IF LongWriter(c) /\ cpc[c] \in {"ok", "failed"}
                          THEN cpc[c] ELSE "nothing"]

LEMMA NothingNew ==
  ASSUME Told' = Told, written' = written
  PROVE  [Writes!Next]_<<written, Told>>
OBVIOUS

LEMMA Failed ==
  ASSUME NEW c \in Caller, Told[c] = "nothing", Told' = [Told EXCEPT ![c] = "failed"], written' = written
  PROVE  Writes!Next
BY DEF Told, Writes!Next, Writes!Fail

LEMMA Succeeded ==
  ASSUME NEW c \in Caller, Delivered(c), Told[c] = "nothing", Told' = [Told EXCEPT ![c] = "ok"],
         written' = written
  PROVE  Writes!Next
BY DEF Told, Delivered, Writes!Next, Writes!Succeed, Range, Writes!Range

LEMMA Carried ==
  ASSUME NEW c \in Caller, Value(c) \notin Range(written), Told' = Told,
         written' = Append(written, Value(c))
  PROVE  Writes!Next
BY DEF Told, Writes!Next, Writes!Carry, Range, Writes!Range

\* Only the answer to its own Execute Write makes a caller report success.
LEMMA CallerTells ==
  ASSUME Known, WriteIInv, NEW c \in Caller, Begin(c) \/ CallerStep(c)
  PROVE  [Writes!Next]_<<written, Told>>
<1>0. /\ written' = written /\ CallerTypes /\ WriteInv(c) /\ CallerInv(c)
      /\ \A d \in Caller : d # c => Untouched(d)
  <2>1. written' = written
    BY DEF Begin, CallerStep, Start, Check, Compare, Register, Send, Fail, ReceiveEcho,
           ReceiveAnswer, GiveUp, server
  <2> QED
    BY <2>1, KnownTypes, OthersUntouched DEF WriteIInv
<1>1. Told' = [Told EXCEPT ![c] = Told'[c]]
  BY <1>0 DEF Told, Untouched, LongWriter
<1>2. Told[c] = "nothing"
  BY DEF Begin, CallerStep, Start, Check, Compare, Register, Send, Fail, ReceiveEcho,
         ReceiveAnswer, GiveUp, Told
<1>3. Told'[c] \in {"nothing", "ok", "failed"}
  BY DEF Told
<1>4. CASE Told'[c] = "nothing"
  <2>1. Told' = Told
    BY <1>1, <1>2, <1>4 DEF Told
  <2> QED
    BY <1>0, <2>1, NothingNew
<1>5. CASE Told'[c] = "failed"
  BY <1>0, <1>1, <1>2, <1>5, Failed
<1>6. CASE Told'[c] = "ok"
  <2>1. cpc'[c] = "ok" /\ LongWriter(c)'
    BY <1>6 DEF Told
  <2>2. ASSUME Begin(c) \/ Start(c) \/ Check(c) \/ Compare(c) \/ Register(c) \/ Fail(c) \/ ReceiveEcho(c)
               \/ GiveUp(c)
        PROVE  FALSE
    <3>1. \E where \in {"start", "check", "fail", "compare", "register", "send", "failed"} : Goto(c, where)
      BY <2>2 DEF Begin, Start, Check, Compare, Register, Fail, ReceiveEcho, GiveUp, Goto
    <3> QED
      BY <1>0, <2>1, <3>1 DEF Goto, CallerTypes
  <2>3. ASSUME Send(c)
        PROVE  FALSE
    <3>1. /\ kind' = kind
          /\ \E where : Goto(c, where) /\ where \in {"wait", "fail", "ok"} /\ (where = "ok" => kind[c] \notin Explicit)
      BY <2>3 DEF Send
    <3> QED
      BY <1>0, <2>1, <3>1 DEF Goto, CallerTypes, LongWriter, Explicit
  <2>4. CASE ReceiveAnswer(c)
    <3>1. LongWriter(c) /\ cpc[c] = "wait" /\ OpcodeOf(c) \in {"execute", "discover"}
      BY <2>1, <2>4 DEF ReceiveAnswer, LongWriter
    <3>2. OpcodeOf(c) = "execute"
      BY <3>1, Opcodes DEF LongWriter
    <3>3. Answered(c)
      BY <1>0, <2>1, <2>4 DEF ReceiveAnswer, Goto, CallerTypes
    <3>4. Delivered(c)
      BY <1>0, <3>1, <3>2, <3>3 DEF WriteInv, Accepted
    <3> QED
      BY <1>0, <1>1, <1>2, <1>6, <3>4, Succeeded
  <2> QED
    BY <2>2, <2>3, <2>4 DEF CallerStep
<1> QED
  BY <1>3, <1>4, <1>5, <1>6

LEMMA StepTells ==
  ASSUME MaxExpired = 0, OneHandle, Known, WriteIInv, [Next]_vars
  PROVE  [Writes!Next]_<<written, Told>>
<1>1. CASE \E c \in Caller : Begin(c) \/ CallerStep(c)
  BY <1>1, CallerTells
<1>2. ASSUME UNCHANGED <<cpc, kind>>
      PROVE  Told' = Told
  BY <1>2 DEF Told, LongWriter
<1>3. CASE ServeExecute
  <2>1. Told' = Told
    BY <1>2, <1>3 DEF ServeExecute, callers
  <2> QED
    BY <1>3, <2>1, ExecuteKeepsWrites, Carried
<1>4. CASE ServePrepare \/ ServeDiscover \/ ServeWrite
  <2>1. UNCHANGED <<cpc, kind, written>>
    BY <1>4 DEF ServePrepare, ServeDiscover, ServeWrite, callers, server
  <2> QED
    BY <1>2, <2>1, NothingNew
<1>5. CASE Deliver \/ Disconnect \/ PeerCloses \/ UNCHANGED vars
  <2>1. UNCHANGED <<cpc, kind, written>>
    BY <1>5 DEF Deliver, Disconnect, PeerCloses, Drop, vars, callers, server
  <2> QED
    BY <1>2, <2>1, NothingNew
<1>6. ~Clock
  BY DEF Clock
<1> QED
  BY <1>1, <1>3, <1>4, <1>5, <1>6 DEF Next, Serve

LEMMA WritesInvariant ==
  ASSUME MaxExpired = 0, OneHandle
  PROVE  Spec => []WriteIInv
<1>1. Known /\ WriteIInv /\ [Next]_vars => WriteIInv'
  BY StepKeepsWrites
<1> QED
  BY <1>1, WriteInit, KnownInvariant, PTL DEF Spec

\* sendFragmentedWrite and the server's Fragmenter: in the first 30 seconds of a
\* connection, long writes to one characteristic carry out WriteService.  Whatever
\* other requests, refusals and disconnects come between the fragments, for any number
\* of callers and fragments, each write reaches the GATT handler at most once and whole,
\* and a caller is told that it succeeded only when it has.
THEOREM LongWritesAreWhole ==
  ASSUME MaxExpired = 0, OneHandle
  PROVE  Spec => WritesAreWhole
<1>1. Init => Writes!Init
  BY DEF Init, LongWriter, Writes!Init
<1>2. Known /\ WriteIInv /\ [Next]_vars => [Writes!Next]_<<written, Told>>
  BY StepTells
<1>3. Known /\ WriteIInv /\ [Next]_vars
        => [Writes!Next]_<<written, [c \in Caller |-> IF LongWriter(c) /\ cpc[c] \in {"ok", "failed"}
                                                    THEN cpc[c] ELSE "nothing"]>>
  BY <1>2 DEF Told
<1> QED
  BY <1>1, <1>3, KnownInvariant, WritesInvariant, PTL DEF Spec, WritesAreWhole, Writes!Spec
=============================================================================
