--------------------------- MODULE RequestTracker ---------------------------
(***************************************************************************)
(* wire/att/request_tracker.go: the slot of the one ATT request that may   *)
(* be outstanding on a connection, and the timeout goroutine that every    *)
(* StartRequest leaves behind.  Requests are numbered in the order they    *)
(* start; a request's number also names its timer, its response channel    *)
(* and its goroutine.  Every method runs under rt.mu, so each is one step, *)
(* but a timeout goroutine looks at the slot twice: once to find its timer *)
(* and once, 30 seconds later, to time the request out.                    *)
(*                                                                         *)
(* All callers pass timeout 0, so timers expire in the order of starting   *)
(* and expired, the number of expired timers, is all there is to the clock.*)
(***************************************************************************)
EXTENDS Naturals

CONSTANTS Opcode,        \* request opcodes
          NoOpcode,      \* of a request that was not started
          MaxRequests    \* bound: requests started on the connection

ASSUME TrackerAssumption == MaxRequests \in Nat

None == 0

Requests == 1 .. MaxRequests

VARIABLES
  count,      \* requests started so far
  pending,    \* rt.pending: the outstanding request, or None
  opcode,     \* PendingRequest.Opcode of each request
  outcome,    \* what its ResponseC carries: "open" until something is sent
  gpc,        \* where the request's timeout goroutine is
  timer,      \* the timer that goroutine waits for
  taken,      \* timers whose one tick somebody has received
  expired     \* the first `expired' timers have run out

goroutines == <<gpc, timer, taken>>
slot       == <<count, pending, opcode, outcome>>
tracker    == <<slot, goroutines, expired>>

Outcomes == {"unused", "open", "reply", "error", "timeout", "failed", "cancelled"}

TrackerTypeOK ==
  /\ count \in 0 .. MaxRequests
  /\ pending \in 0 .. MaxRequests
  /\ opcode \in [Requests -> Opcode \cup {NoOpcode}]
  /\ outcome \in [Requests -> Outcomes]
  /\ gpc \in [Requests -> {"none", "starting", "waiting", "fired", "done"}]
  /\ timer \in [Requests -> 0 .. MaxRequests]
  /\ taken \subseteq Requests
  /\ expired \in 0 .. MaxRequests

TrackerInit ==
  /\ count = 0
  /\ pending = None
  /\ opcode = [i \in Requests |-> NoOpcode]
  /\ outcome = [i \in Requests |-> "unused"]
  /\ gpc = [i \in Requests |-> "none"]
  /\ timer = [i \in Requests |-> None]
  /\ taken = {}
  /\ expired = 0

HasPending == pending # None

-----------------------------------------------------------------------------
\* Faulty: the answer is sent but the slot keeps the request.
ResolveKeepsSlot(how) ==
  /\ outcome' = [outcome EXCEPT ![pending] = how]
  /\ UNCHANGED <<count, pending, opcode>>

\* Send on the pending request's channel, close it, clear the slot.
Resolve(how) ==
  /\ outcome' = [outcome EXCEPT ![pending] = how]
  /\ pending' = None
  /\ UNCHANGED <<count, opcode>>

\* Faulty: the new request replaces the pending one without an error.
CanStartAlways == count < MaxRequests

\* StartRequest refuses while a request is pending.
CanStart == pending = None /\ count < MaxRequests

\* Faulty: the timeout goroutine is not started.
StartRequestUnwatched(op) ==
  /\ CanStart
  /\ count' = count + 1
  /\ pending' = count + 1
  /\ opcode' = [opcode EXCEPT ![count + 1] = op]
  /\ outcome' = [outcome EXCEPT ![count + 1] = "open"]
  /\ UNCHANGED <<goroutines, expired>>

StartRequest(op) ==
  /\ CanStart
  /\ count' = count + 1
  /\ pending' = count + 1
  /\ opcode' = [opcode EXCEPT ![count + 1] = op]
  /\ outcome' = [outcome EXCEPT ![count + 1] = "open"]
  /\ gpc' = [gpc EXCEPT ![count + 1] = "starting"]
  /\ UNCHANGED <<timer, taken, expired>>

\* A response whose opcode is the one that answers op completes the request.
CompleteRequest(op) ==
  /\ HasPending
  /\ op = opcode[pending]
  /\ Resolve("reply")
  /\ UNCHANGED <<goroutines, expired>>

\* An Error Response completes whatever is pending.
CompleteWithError ==
  /\ HasPending
  /\ Resolve("error")
  /\ UNCHANGED <<goroutines, expired>>

\* FailRequest fails whatever is pending, not a request of the caller's.
FailRequest ==
  /\ HasPending
  /\ Resolve("failed")
  /\ UNCHANGED <<goroutines, expired>>

CancelPending ==
  /\ HasPending
  /\ Resolve("cancelled")
  /\ UNCHANGED <<goroutines, expired>>

-----------------------------------------------------------------------------
\* handleTimeout up to "<-timerC": it waits for the timer of the request it
\* finds in the slot, which may be a later one than the one it was started for.
ArmTimeout(g) ==
  /\ gpc[g] = "starting"
  /\ gpc' = [gpc EXCEPT ![g] = IF HasPending THEN "waiting" ELSE "done"]
  /\ timer' = [timer EXCEPT ![g] = pending]
  /\ UNCHANGED <<slot, taken, expired>>

\* A timer's channel delivers one value, to one of the goroutines waiting for it.
ReceiveTimer(g) ==
  /\ gpc[g] = "waiting"
  /\ timer[g] \in 1 .. expired
  /\ timer[g] \notin taken
  /\ taken' = taken \cup {timer[g]}
  /\ gpc' = [gpc EXCEPT ![g] = "fired"]
  /\ UNCHANGED <<slot, timer, expired>>

\* Faulty: a goroutine times out nothing but the request it was started for.
FireTimeoutOwn(g) ==
  /\ gpc[g] = "fired"
  /\ gpc' = [gpc EXCEPT ![g] = "done"]
  /\ IF pending = g THEN Resolve("timeout") ELSE UNCHANGED slot
  /\ UNCHANGED <<timer, taken, expired>>

\* The rest of handleTimeout: whatever is pending by now times out.
FireTimeout(g) ==
  /\ gpc[g] = "fired"
  /\ gpc' = [gpc EXCEPT ![g] = "done"]
  /\ IF HasPending THEN Resolve("timeout") ELSE UNCHANGED slot
  /\ UNCHANGED <<timer, taken, expired>>

\* The next timer's 30 seconds are over.
Expire ==
  /\ expired < count
  /\ expired' = expired + 1
  /\ UNCHANGED <<slot, goroutines>>

Timeouts == \E g \in Requests : ArmTimeout(g) \/ ReceiveTimer(g) \/ FireTimeout(g)

\* The connection's goroutines call the methods in any order, and the peer sends
\* any response at any time.
TrackerNext ==
  \/ \E op \in Opcode : StartRequest(op) \/ CompleteRequest(op)
  \/ CompleteWithError
  \/ FailRequest
  \/ CancelPending
  \/ Timeouts
  \/ Expire

\* Go runs every goroutine that can run, and time passes.
TrackerFairness ==
  /\ \A g \in Requests : WF_tracker(ArmTimeout(g))
                      /\ WF_tracker(ReceiveTimer(g))
                      /\ WF_tracker(FireTimeout(g))
  /\ WF_tracker(Expire)

TrackerSpec     == TrackerInit /\ [][TrackerNext]_tracker
FairTrackerSpec == TrackerSpec /\ TrackerFairness

-----------------------------------------------------------------------------
Ended(i) == outcome[i] \notin {"unused", "open"}

\* Goroutine g will come back to the slot for request i's sake: it is about to,
\* or it still has i's timer to wait for.
WillReturn(g, i) ==
  \/ gpc[g] \in {"starting", "fired"}
  \/ gpc[g] = "waiting" /\ timer[g] = i /\ i \notin taken

\* A pending request is the newest one, its channel is open, and some timeout
\* goroutine will come back for it: although goroutines take each other's timers
\* and time out each other's requests, no caller that waits on a channel without
\* a timeout of its own (sendFragmentedWrite, the MTU exchange) waits for ever.
PendingWatched ==
  HasPending => /\ pending = count
                /\ outcome[pending] = "open"
                /\ \E g \in Requests : WillReturn(g, pending)

\* Nothing but the pending request has an open channel, so nobody listens on a
\* channel that no method can send on any more.
OpenIsPending == \A i \in Requests : outcome[i] = "open" <=> pending = i

\* Slot, channels and timers are of their types; the one open channel is the pending
\* request's, and a timeout goroutine of handleTimeout will come back for it.
TrackerInv == TrackerTypeOK /\ PendingWatched /\ OpenIsPending

\* A channel is sent on and closed once: a second send would panic.
AnsweredOnce ==
  [][\A i \in Requests : Ended(i) => outcome'[i] = outcome[i]]_tracker

\* Every request that was started is answered, fails or times out.
EveryRequestEnds == \A i \in Requests : outcome[i] = "open" ~> Ended(i)
=============================================================================
