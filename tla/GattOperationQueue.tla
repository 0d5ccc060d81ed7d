-------------------------- MODULE GattOperationQueue --------------------------
(* The operation queue of one BluetoothGatt (kotlin/bluetooth_gatt.go).      *)
(* Every call of writeCharacteristic, readCharacteristic, writeDescriptor    *)
(* or readDescriptor, from whatever goroutine, starts the queue if it is not *)
(* running and sends an operation into it; a processor goroutine takes them  *)
(* out one by one.  close() stops the processor, and a later operation makes *)
(* new channels and a new processor: a new generation.  The fields           *)
(* operationQueue and queueDone are read without the mutex, each by itself,  *)
(* so the processor and the callers may see those of different generations.  *)
(* Most operations end after a send on the socket.  A write with response    *)
(* of a value too long for one packet is a row of requests, and the          *)
(* processor blocks on each until it is answered, fails, is cancelled or     *)
(* times out (sendFragmentedWrite of wire/wire_gatt.go).  That each of them  *)
(* ends is what RequestTracker promises (EveryRequestEnds).  The requests    *)
(* of two processors may be out at once: on a lost connection and its        *)
(* successor.                                                                *)
EXTENDS Naturals, Sequences

CONSTANTS Op,         \* calls of the four operations; each call happens once
          LongWrite,  \* those that write a value of more than one packet, with response
          Requests,   \* bound on the requests of such a write (prepares and execute)
          QueueSize,  \* capacity of the channel (100 in the code)
          MaxOpens,   \* bound on the generations; each of them can be closed
          NoOp        \* no operation

ASSUME QueueAssumption ==
    /\ NoOp \notin Op
    /\ LongWrite \subseteq Op
    /\ Requests \in Nat
    /\ QueueSize \in Nat \ {0}
    /\ MaxOpens \in Nat \ {0}

Generation == 1 .. MaxOpens

VARIABLES
    pc,         \* where each call is, and what became of its operation
    started,    \* operationQueueStarted
    mutex,      \* the call that holds operationQueueMutex over several steps
    operationQueue,  \* generation of the channel in this field, 0 at first
    queueDone,       \* generation of the channel in this field
    buffer,     \* contents of each generation's channel of operations
    closed,     \* generations whose queueDone channel is closed
    processor,  \* the goroutine started with each generation
    left,       \* requests that its operation has yet to make
    waiting     \* processors blocked on the channel of a request

write == <<left, waiting>>
queueVars == <<pc, started, mutex, operationQueue, queueDone, buffer, closed, processor, write>>

Idle == [at |-> "none", queue |-> 0, done |-> 0, op |-> NoOp]

QueueInit ==
    /\ pc = [o \in Op |-> "idle"]
    /\ started = FALSE
    /\ mutex = NoOp
    /\ operationQueue = 0
    /\ queueDone = 0
    /\ buffer = [n \in Generation |-> <<>>]
    /\ closed = {}
    /\ processor = [n \in Generation |-> Idle]
    /\ left = [n \in Generation |-> 0]
    /\ waiting = {}

------------------------------------------------------------------------------
(* The caller: enqueueOperation *)

\* startOperationQueue finds the queue running.
FindStarted(o) ==
    /\ pc[o] = "idle"
    /\ mutex = NoOp
    /\ started
    /\ pc' = [pc EXCEPT ![o] = "sending"]
    /\ UNCHANGED <<started, mutex, operationQueue, queueDone, buffer, closed, processor, write>>

\* startOperationQueue makes a new channel of operations ...
OpenQueue(o) ==
    /\ pc[o] = "idle"
    /\ mutex = NoOp
    /\ ~started
    /\ operationQueue < MaxOpens
    /\ mutex' = o
    /\ operationQueue' = operationQueue + 1
    /\ pc' = [pc EXCEPT ![o] = "opening"]
    /\ UNCHANGED <<started, queueDone, buffer, closed, processor, write>>

\* ... then the channel that stops, and a processor.
StartProcessor(o) ==
    /\ pc[o] = "opening"
    /\ queueDone' = operationQueue
    /\ started' = TRUE
    /\ mutex' = NoOp
    /\ processor' = [processor EXCEPT ![operationQueue].at = "loop"]
    /\ pc' = [pc EXCEPT ![o] = "sending"]
    /\ UNCHANGED <<operationQueue, buffer, closed, write>>

\* Faulty: the newest operation goes first.
EnqueueFirst(o) ==
    /\ pc[o] = "sending"
    /\ buffer' = [buffer EXCEPT ![operationQueue] = <<o>> \o @]
    /\ pc' = [pc EXCEPT ![o] = "queued"]
    /\ UNCHANGED <<started, mutex, operationQueue, queueDone, closed, processor, write>>

\* The send does not block: an operation that finds the channel full is dropped.
Enqueue(o) ==
    /\ pc[o] = "sending"
    /\ IF Len(buffer[operationQueue]) < QueueSize
         THEN /\ buffer' = [buffer EXCEPT ![operationQueue] = Append(@, o)]
              /\ pc' = [pc EXCEPT ![o] = "queued"]
         ELSE /\ pc' = [pc EXCEPT ![o] = "dropped"]
              /\ UNCHANGED buffer
    /\ UNCHANGED <<started, mutex, operationQueue, queueDone, closed, processor, write>>

------------------------------------------------------------------------------
(* The processor: processOperationQueue *)

\* Each round of its loop reads both fields anew, one after the other.
ReadQueueField(n) ==
    /\ processor[n].at = "loop"
    /\ processor' = [processor EXCEPT ![n].at = "half", ![n].queue = operationQueue]
    /\ UNCHANGED <<pc, started, mutex, operationQueue, queueDone, buffer, closed, write>>

ReadDoneField(n) ==
    /\ processor[n].at = "half"
    /\ processor' = [processor EXCEPT ![n].at = "select", ![n].done = queueDone]
    /\ UNCHANGED <<pc, started, mutex, operationQueue, queueDone, buffer, closed, write>>

\* Anything but a long write with response is sent without waiting for an answer.
RequestsOf(o) == IF o \in LongWrite THEN Requests ELSE 0

\* Faulty: the operation stays in the channel until it is carried out.
ReceivePeeks(n) ==
    LET q == processor[n].queue
    IN /\ processor[n].at = "select"
       /\ buffer[q] # <<>>
       /\ processor' = [processor EXCEPT ![n].at = "execute", ![n].op = Head(buffer[q])]
       /\ pc' = [pc EXCEPT ![Head(buffer[q])] = "running"]
       /\ left' = [left EXCEPT ![n] = RequestsOf(Head(buffer[q]))]
       /\ UNCHANGED <<started, mutex, operationQueue, queueDone, buffer, closed, waiting>>

Receive(n) ==
    LET q == processor[n].queue
    IN /\ processor[n].at = "select"
       /\ buffer[q] # <<>>
       /\ processor' = [processor EXCEPT ![n].at = "execute", ![n].op = Head(buffer[q])]
       /\ pc' = [pc EXCEPT ![Head(buffer[q])] = "running"]
       /\ buffer' = [buffer EXCEPT ![q] = Tail(@)]
       /\ left' = [left EXCEPT ![n] = RequestsOf(Head(buffer[q]))]
       /\ UNCHANGED <<started, mutex, operationQueue, queueDone, closed, waiting>>

\* execute returns: nothing is left to send and the callback was made.
Finish(n) ==
    /\ processor[n].at = "execute"
    /\ n \notin waiting /\ left[n] = 0
    /\ pc' = [pc EXCEPT ![processor[n].op] = "done"]
    /\ processor' = [processor EXCEPT ![n].at = "loop", ![n].op = NoOp]
    /\ UNCHANGED <<started, mutex, operationQueue, queueDone, buffer, closed, write>>

\* select chooses at random when there are operations as well.
StopProcessor(n) ==
    /\ processor[n].at = "select"
    /\ processor[n].done \in closed
    /\ processor' = [processor EXCEPT ![n].at = "gone"]
    /\ UNCHANGED <<pc, started, mutex, operationQueue, queueDone, buffer, closed, write>>

------------------------------------------------------------------------------
(* A long write: sendFragmentedWrite *)

queue == <<pc, started, mutex, operationQueue, queueDone, buffer, closed, processor>>

\* The next request is registered and sent, and the processor waits on its channel.
SendRequest(n) ==
    /\ processor[n].at = "execute"
    /\ n \notin waiting /\ left[n] > 0
    /\ left' = [left EXCEPT ![n] = @ - 1]
    /\ waiting' = waiting \cup {n}
    /\ UNCHANGED queue

\* There is no handle or no connection, another request is pending, or the send fails.
SendFails(n) ==
    /\ processor[n].at = "execute"
    /\ n \notin waiting /\ left[n] > 0
    /\ left' = [left EXCEPT ![n] = 0]
    /\ UNCHANGED <<queue, waiting>>

\* The peer answers: the next request follows, unless the answer is an error or
\* does not echo what was sent.
Answered(n) ==
    /\ n \in waiting
    /\ waiting' = waiting \ {n}
    /\ left' \in {left, [left EXCEPT ![n] = 0]}
    /\ UNCHANGED queue

\* Disconnect, which Close calls too, cancels the request; another caller's FailRequest
\* fails whatever is pending.
Cancelled(n) ==
    /\ n \in waiting
    /\ waiting' = waiting \ {n}
    /\ left' = [left EXCEPT ![n] = 0]
    /\ UNCHANGED queue

\* Faulty: a request without an answer is waited for for ever.
TimedOutNever(n) ==
    /\ FALSE
    /\ n \in waiting
    /\ UNCHANGED queueVars

\* handleTimeout, after 30 seconds.
TimedOut(n) ==
    /\ n \in waiting
    /\ waiting' = waiting \ {n}
    /\ left' = [left EXCEPT ![n] = 0]
    /\ UNCHANGED queue

------------------------------------------------------------------------------
\* Faulty: the processor is not told.
CloseSilently ==
    /\ mutex = NoOp
    /\ started
    /\ started' = FALSE
    /\ UNCHANGED <<pc, mutex, operationQueue, queueDone, buffer, closed, processor, write>>

\* Close, after it told the wire to disconnect (Cancelled, if a request is out).
Close ==
    /\ mutex = NoOp
    /\ started
    /\ closed' = closed \cup {queueDone}
    /\ started' = FALSE
    /\ UNCHANGED <<pc, mutex, operationQueue, queueDone, buffer, processor, write>>

Call(o) == FindStarted(o) \/ OpenQueue(o) \/ StartProcessor(o) \/ Enqueue(o)

Process(n) ==
    \/ ReadQueueField(n)
    \/ ReadDoneField(n)
    \/ Receive(n)
    \/ Finish(n)
    \/ StopProcessor(n)
    \/ SendRequest(n)
    \/ SendFails(n)

Resume(n) == Answered(n) \/ Cancelled(n) \/ TimedOut(n)

QueueNext ==
    \/ \E o \in Op : Call(o)
    \/ \E n \in Generation : Process(n) \/ Resume(n)
    \/ Close

\* Goroutines that can run do run, and a request that is not answered times out: that
\* is EveryRequestEnds of RequestTracker.  The peer need not answer, and nobody has to
\* make a call, to disconnect or to close.
QueueFairness ==
    /\ \A o \in Op : WF_queueVars(StartProcessor(o) \/ Enqueue(o))
    /\ \A n \in Generation : WF_queueVars(Process(n)) /\ WF_queueVars(TimedOut(n))

QueueSpec == QueueInit /\ [][QueueNext]_queueVars /\ QueueFairness

------------------------------------------------------------------------------
Executing == {n \in Generation : processor[n].at = "execute"}

\* The operations and processors are where the code can bring them.
QueueTypeOK ==
    /\ pc \in [Op -> {"idle", "opening", "sending", "queued", "running", "done", "dropped"}]
    /\ started \in BOOLEAN
    /\ mutex \in Op \cup {NoOp}
    /\ operationQueue \in 0 .. MaxOpens
    /\ queueDone \in 0 .. operationQueue
    /\ buffer \in [Generation -> Seq(Op)]
    /\ closed \subseteq Generation
    /\ processor \in [Generation -> [at: {"none", "loop", "half", "select", "execute", "gone"},
                                     queue: 0 .. MaxOpens, done: 0 .. MaxOpens,
                                     op: Op \cup {NoOp}]]
    /\ left \in [Generation -> 0 .. Requests]
    /\ waiting \subseteq Generation

\* No operation is carried out twice or by two processors, whatever close()
\* and its later calls do to the channels: every operation is at one place.
OperationAtOnePlace ==
    /\ \A n, m \in Executing : processor[n].op = processor[m].op => n = m
    /\ \A n \in Executing : pc[processor[n].op] = "running"
    /\ \A g, h \in Generation : \A i \in DOMAIN buffer[g], j \in DOMAIN buffer[h] :
           buffer[g][i] = buffer[h][j] => g = h /\ i = j
    /\ \A g \in Generation : \A i \in DOMAIN buffer[g] : pc[buffer[g][i]] = "queued"

\* The queue's fields are of their types, and processOperationQueue, however many run
\* at once, never duplicates an operation.
QueueInv == QueueTypeOK /\ OperationAtOnePlace

\* The mapping to SerialExecutor: generation 1 until the first close().
serial == INSTANCE SerialExecutor WITH
    waiting  <- IF closed = {} THEN buffer[1] ELSE <<>>,
    current  <- IF closed = {} THEN processor[1].op ELSE NoOp,
    finished <- IF closed = {} THEN {o \in Op : pc[o] = "done"} ELSE {},
    open     <- closed = {}

\* Until close() operations are carried out one at a time and in order.
ImplementsSerial == serial!Spec

\* An accepted operation is carried out, unless its queue is closed.  The operations
\* before it may be long writes that block the queue on one request after the other,
\* to a peer that never answers or whose connection is gone: the timer of the request
\* ends the write.
AcceptedEnds ==
    \A o \in Op, g \in Generation :
        (\E i \in DOMAIN buffer[g] : buffer[g][i] = o) ~> (pc[o] = "done" \/ g \in closed)

\* After the last close() every processor stops, those of earlier generations
\* that have moved to newer channels included, and those that wait for an answer.
ProcessorsStop ==
    (<>[](~started)) => <>[](\A n \in Generation : processor[n].at \in {"none", "gone"})
==============================================================================
