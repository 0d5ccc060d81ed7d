-------------------------- MODULE AndroidStackProofs --------------------------
(***************************************************************************)
(* The Android stack, for any number of calls, of close()s, of peers and   *)
(* of lost connections, and any capacity of the queue.                     *)
(* The operation queue: operations are never duplicated, and until the     *)
(* first close() they are carried out one at a time and in the order in    *)
(* which they were accepted.                                               *)
(* The central: there are never two goroutines that dial a peer which does *)
(* not dial us, no slot blocks such a peer for good, and none of its       *)
(* connections is reported as lost while it stands.                        *)
(***************************************************************************)
EXTENDS GattOperationQueue, AndroidCentral, SequenceTheorems, TLAPS

-----------------------------------------------------------------------------
(* The operation queue *)

\* A field that a processor has read names a channel that was made, a caller that
\* holds the mutex is opening the queue, and only an open queue is at the last
\* generation.
Fields ==
  /\ \A o \in Op : pc[o] = "opening" <=> mutex = o
  /\ \A o \in Op : pc[o] = "sending" => operationQueue # 0
  /\ started \/ mutex # NoOp => operationQueue # 0
  /\ started => queueDone # 0
  /\ mutex # NoOp => ~started
  /\ \A n \in Generation :
       /\ processor[n].at # "none" => operationQueue # 0
       /\ processor[n].at \in {"half", "select", "execute"} => processor[n].queue # 0
       /\ processor[n].at = "execute" => processor[n].op \in Op

QueueIInv == QueueTypeOK /\ OperationAtOnePlace /\ Fields

ProcessorState ==
  [at: {"none", "loop", "half", "select", "execute", "gone"},
   queue: 0 .. MaxOpens, done: 0 .. MaxOpens, op: Op \cup {NoOp}]

LEMMA TypeOfFields ==
  ASSUME QueueTypeOK
  PROVE  /\ processor \in [Generation -> ProcessorState]
         /\ \A n \in Generation : processor[n] \in ProcessorState
BY DEF QueueTypeOK, ProcessorState

\* A step that sets the place and the operation of one processor.
LEMMA ProcessorSet ==
  ASSUME processor \in [Generation -> ProcessorState], NEW n \in Generation,
         NEW place \in {"none", "loop", "half", "select", "execute", "gone"},
         NEW new \in Op \cup {NoOp},
         processor' = [processor EXCEPT ![n].at = place, ![n].op = new]
  PROVE  /\ processor'[n].at = place /\ processor'[n].op = new
         /\ processor'[n].queue = processor[n].queue
         /\ \A m \in Generation \ {n} : processor'[m] = processor[m]
         /\ processor' \in [Generation -> ProcessorState]
<1> DEFINE old == processor[n]
           next == [old EXCEPT !.at = place, !.op = new]
<1>1. old \in ProcessorState
  OBVIOUS
<1>2. next \in ProcessorState /\ next.at = place /\ next.op = new /\ next.queue = old.queue
  BY <1>1 DEF ProcessorState
<1>3. processor' = [processor EXCEPT ![n] = next]
  OBVIOUS
<1> HIDE DEF next
<1>4. processor'[n] = next /\ \A m \in Generation \ {n} : processor'[m] = processor[m]
  BY <1>3
<1>5. processor' \in [Generation -> ProcessorState]
  BY <1>2, <1>3
<1> QED  BY <1>2, <1>4, <1>5

LEMMA InitQueueIInv == QueueInit => QueueIInv
<1> SUFFICES ASSUME QueueInit PROVE QueueIInv
  OBVIOUS
<1> USE QueueAssumption DEF QueueInit, Idle, Generation, write
<1>1. QueueTypeOK
  <2>1. buffer \in [Generation -> Seq(Op)]
    OBVIOUS
  <2>2. processor \in [Generation -> [at: {"none", "loop", "half", "select", "execute", "gone"},
                                      queue: 0 .. MaxOpens, done: 0 .. MaxOpens,
                                      op: Op \cup {NoOp}]]
    OBVIOUS
  <2>3. mutex \in Op \cup {NoOp} /\ started \in BOOLEAN /\ closed \subseteq 1 .. MaxOpens
    OBVIOUS
  <2>4. operationQueue \in 0 .. MaxOpens /\ queueDone \in 0 .. operationQueue
    OBVIOUS
  <2>5. pc \in [Op -> {"idle", "opening", "sending", "queued", "running", "done", "dropped"}]
    OBVIOUS
  <2>6. left \in [Generation -> 0 .. Requests] /\ waiting \subseteq Generation
    OBVIOUS
  <2> QED  BY <2>1, <2>2, <2>3, <2>4, <2>5, <2>6 DEF QueueTypeOK
<1>2. OperationAtOnePlace
  BY DEF OperationAtOnePlace, Executing
<1>3. Fields
  BY DEF Fields
<1> QED  BY <1>1, <1>2, <1>3 DEF QueueIInv

\* A call whose operation is neither queued nor carried out may be anywhere else.
LEMMA ElsewhereKeeps ==
  ASSUME QueueIInv, NEW o \in Op, pc[o] \notin {"queued", "running"}, NEW place,
         pc' = [pc EXCEPT ![o] = place], UNCHANGED buffer,
         \A n \in Generation : processor'[n].at = "execute" => processor'[n] = processor[n]
  PROVE  OperationAtOnePlace'
<1>1. /\ \A n \in Executing : processor[n].op \in Op \ {o}
      /\ \A g \in Generation : \A i \in DOMAIN buffer[g] : buffer[g][i] \in Op \ {o}
  <2>1. \A g \in Generation : \A i \in DOMAIN buffer[g] : buffer[g][i] \in Op
    BY DEF QueueIInv, QueueTypeOK
  <2> QED  BY <2>1 DEF QueueIInv, OperationAtOnePlace, Executing, Fields
<1>2. \A p \in Op \ {o} : pc'[p] = pc[p]
  BY DEF QueueIInv, QueueTypeOK
<1>3. Executing' \subseteq Executing /\ \A n \in Executing' : processor'[n] = processor[n]
  BY DEF Executing
<1> QED  BY <1>1, <1>2, <1>3 DEF QueueIInv, OperationAtOnePlace

LEMMA CallKeeps ==
  ASSUME QueueIInv, NEW o \in Op, FindStarted(o) \/ OpenQueue(o) \/ StartProcessor(o)
  PROVE  QueueIInv'
<1> USE QueueAssumption DEF QueueIInv, Generation, write
<1>1. CASE FindStarted(o)
  <2>1. QueueTypeOK'
    BY <1>1 DEF FindStarted, QueueTypeOK
  <2>2. OperationAtOnePlace'
    BY <1>1, ElsewhereKeeps DEF FindStarted
  <2>3. Fields'
    BY <1>1 DEF FindStarted, QueueTypeOK, Fields
  <2> QED  BY <2>1, <2>2, <2>3
<1>2. CASE OpenQueue(o)
  <2>1. QueueTypeOK'
    <3>1. operationQueue' \in 0 .. MaxOpens
      BY <1>2 DEF OpenQueue, QueueTypeOK, Fields
    <3>2. queueDone' \in 0 .. operationQueue'
      BY <1>2 DEF OpenQueue, QueueTypeOK
    <3> QED  BY <1>2, <3>1, <3>2 DEF OpenQueue, QueueTypeOK
  <2>2. OperationAtOnePlace'
    BY <1>2, ElsewhereKeeps DEF OpenQueue
  <2>3. Fields'
    BY <1>2 DEF OpenQueue, QueueTypeOK, Fields
  <2> QED  BY <2>1, <2>2, <2>3
<1>3. CASE StartProcessor(o)
  <2>0. mutex = o /\ operationQueue \in Generation /\ ~started
    BY <1>3 DEF StartProcessor, QueueTypeOK, Fields
  <2>1. QueueTypeOK'
    <3>1. processor' \in [Generation -> ProcessorState]
      BY <1>3, <2>0, TypeOfFields DEF StartProcessor, ProcessorState
    <3>2. pc' \in [Op -> {"idle", "opening", "sending", "queued", "running", "done", "dropped"}]
      BY <1>3 DEF StartProcessor, QueueTypeOK
    <3>3. queueDone' \in 0 .. operationQueue' /\ started' \in BOOLEAN /\ mutex' \in Op \cup {NoOp}
      BY <1>3, <2>0 DEF StartProcessor
    <3> QED  BY <1>3, <3>1, <3>2, <3>3 DEF StartProcessor, QueueTypeOK, ProcessorState
  <2>2. OperationAtOnePlace'
    <3>1. pc[o] \notin {"queued", "running"} /\ pc' = [pc EXCEPT ![o] = "sending"] /\ UNCHANGED buffer
      BY <1>3 DEF StartProcessor
    <3>2. ASSUME NEW n \in Generation, processor'[n].at = "execute"
          PROVE  processor'[n] = processor[n]
      BY <1>3, <2>0, <3>2 DEF StartProcessor, QueueTypeOK
    <3> QED  BY <3>1, <3>2, ElsewhereKeeps
  <2>3. Fields'
    BY <1>3, <2>0 DEF StartProcessor, QueueTypeOK, Fields
  <2> QED  BY <2>1, <2>2, <2>3
<1> QED  BY <1>1, <1>2, <1>3

LEMMA EnqueueKeeps ==
  ASSUME QueueIInv, NEW o \in Op, Enqueue(o)
  PROVE  QueueIInv'
<1> USE QueueAssumption DEF QueueIInv, Generation, write
<1> DEFINE g == operationQueue
<1>0. g \in Generation /\ buffer[g] \in Seq(Op) /\ pc[o] = "sending" /\ mutex # o
  BY DEF Enqueue, QueueTypeOK, Fields
<1>1. CASE Len(buffer[g]) < QueueSize
  <2>0. /\ buffer' = [buffer EXCEPT ![g] = Append(buffer[g], o)]
        /\ pc' = [pc EXCEPT ![o] = "queued"]
        /\ Append(buffer[g], o) \in Seq(Op)
        /\ DOMAIN Append(buffer[g], o) = 1 .. Len(buffer[g]) + 1
        /\ Append(buffer[g], o)[Len(buffer[g]) + 1] = o
        /\ \A i \in DOMAIN buffer[g] : Append(buffer[g], o)[i] = buffer[g][i]
        /\ DOMAIN buffer[g] = 1 .. Len(buffer[g])
    BY <1>0, <1>1 DEF Enqueue
  <2>1. QueueTypeOK'
    BY <1>0, <2>0 DEF Enqueue, QueueTypeOK
  <2>2. OperationAtOnePlace'
    <3>1. (\A n, m \in Executing : processor[n].op = processor[m].op => n = m)'
      BY DEF Enqueue, OperationAtOnePlace, Executing
    <3>2. (\A n \in Executing : pc[processor[n].op] = "running")'
      <4>1. \A n \in Executing : processor[n].op \in Op \ {o}
        BY <1>0 DEF OperationAtOnePlace, Executing, Fields
      <4>2. UNCHANGED processor /\ Executing' = Executing
        BY DEF Enqueue, Executing
      <4>3. \A p \in Op \ {o} : pc'[p] = pc[p]
        BY <2>0 DEF QueueTypeOK
      <4>4. \A n \in Executing : pc[processor[n].op] = "running"
        BY DEF OperationAtOnePlace
      <4> QED  BY <4>1, <4>2, <4>3, <4>4
    <3>3. \A h \in Generation : \A j \in DOMAIN buffer[h] : buffer[h][j] # o /\ buffer[h][j] \in Op
      BY <1>0, SMTT(30) DEF OperationAtOnePlace, QueueTypeOK
    <3>4. \A h \in Generation : h # g => buffer'[h] = buffer[h]
      BY <2>0 DEF QueueTypeOK
    <3>5. buffer'[g] = Append(buffer[g], o)
      BY <1>0, <2>0 DEF QueueTypeOK
    <3>6. (\A a, h \in Generation : \A i \in DOMAIN buffer[a], j \in DOMAIN buffer[h] :
             buffer[a][i] = buffer[h][j] => a = h /\ i = j)'
      <4> SUFFICES ASSUME NEW a \in Generation, NEW h \in Generation,
                          NEW i \in DOMAIN buffer'[a], NEW j \in DOMAIN buffer'[h],
                          buffer'[a][i] = buffer'[h][j]
                   PROVE  a = h /\ i = j
        OBVIOUS
      <4>1. CASE a # g /\ h # g
        BY <4>1, <3>4 DEF OperationAtOnePlace
      <4>2. CASE a = g /\ h # g
        BY <4>2, <3>3, <3>4, <3>5, <2>0 DEF OperationAtOnePlace
      <4>3. CASE a # g /\ h = g
        BY <4>3, <3>3, <3>4, <3>5, <2>0 DEF OperationAtOnePlace
      <4>4. CASE a = g /\ h = g
        BY <4>4, <3>3, <3>5, <2>0 DEF OperationAtOnePlace
      <4> QED  BY <4>1, <4>2, <4>3, <4>4
    <3>7. (\A a \in Generation : \A i \in DOMAIN buffer[a] : pc[buffer[a][i]] = "queued")'
      <4> SUFFICES ASSUME NEW a \in Generation, NEW i \in DOMAIN buffer'[a]
                   PROVE  pc'[buffer'[a][i]] = "queued"
        OBVIOUS
      <4>1. buffer'[a][i] = o \/ (i \in DOMAIN buffer[a] /\ buffer'[a][i] = buffer[a][i])
        BY <3>4, <3>5, <2>0
      <4> QED  BY <4>1, <2>0, <3>3, SMTT(30) DEF OperationAtOnePlace, QueueTypeOK
    <3> QED  BY <3>1, <3>2, <3>6, <3>7 DEF OperationAtOnePlace
  <2>3. Fields'
    BY <1>0, <2>0 DEF Enqueue, QueueTypeOK, Fields
  <2> QED  BY <2>1, <2>2, <2>3
<1>2. CASE ~(Len(buffer[g]) < QueueSize)
  <2>0. buffer' = buffer /\ pc' = [pc EXCEPT ![o] = "dropped"]
    BY <1>2 DEF Enqueue
  <2>1. QueueTypeOK'
    BY <2>0 DEF Enqueue, QueueTypeOK
  <2>2. OperationAtOnePlace'
    BY <1>0, <2>0, ElsewhereKeeps DEF Enqueue
  <2>3. Fields'
    BY <1>0, <2>0 DEF Enqueue, QueueTypeOK, Fields
  <2> QED  BY <2>1, <2>2, <2>3
<1> QED  BY <1>1, <1>2
LEMMA ReceiveKeeps ==
  ASSUME QueueIInv, NEW n \in Generation, Receive(n)
  PROVE  QueueIInv'
<1> USE QueueAssumption DEF QueueIInv, Generation, write
<1> DEFINE q == processor[n].queue
           o == Head(buffer[q])
<1>1. q \in Generation /\ buffer[q] \in Seq(Op) /\ buffer[q] # <<>> /\ processor[n].at = "select"
  BY TypeOfFields DEF Receive, ProcessorState, QueueTypeOK, Fields
<1>2. /\ 1 \in DOMAIN buffer[q] /\ o = buffer[q][1] /\ o \in Op
      /\ Tail(buffer[q]) \in Seq(Op)
      /\ \A i \in DOMAIN Tail(buffer[q]) :
            i + 1 \in DOMAIN buffer[q] /\ i + 1 # 1 /\ Tail(buffer[q])[i] = buffer[q][i + 1]
      /\ DOMAIN Tail(buffer[q]) \subseteq Nat
  BY <1>1
<1>3. pc[o] = "queued"
  BY <1>1, <1>2 DEF OperationAtOnePlace
<1>4. /\ pc' = [pc EXCEPT ![o] = "running"]
      /\ buffer' = [buffer EXCEPT ![q] = Tail(buffer[q])]
      /\ processor' = [processor EXCEPT ![n].at = "execute", ![n].op = o]
      /\ left' = [left EXCEPT ![n] = RequestsOf(o)]
      /\ UNCHANGED <<started, mutex, operationQueue, queueDone, closed, waiting>>
  BY DEF Receive
<1>5. /\ processor'[n].op = o /\ processor'[n].at = "execute" /\ processor'[n].queue = q
      /\ \A m \in Generation \ {n} : processor'[m] = processor[m]
      /\ processor' \in [Generation -> ProcessorState]
  <2>1. processor \in [Generation -> ProcessorState]
    BY TypeOfFields
  <2>2. processor' = [processor EXCEPT ![n].at = "execute", ![n].op = o]
    BY <1>4
  <2>3. o \in Op \cup {NoOp}
    BY <1>2
  <2> HIDE DEF o
  <2> QED  BY <2>1, <2>2, <2>3, ProcessorSet
<1>6. QueueTypeOK'
  <2>1. buffer' \in [Generation -> Seq(Op)]
    BY <1>1, <1>2, <1>4 DEF QueueTypeOK
  <2>2. pc' \in [Op -> {"idle", "opening", "sending", "queued", "running", "done", "dropped"}]
    BY <1>2, <1>4 DEF QueueTypeOK
  <2>3. left' \in [Generation -> 0 .. Requests]
    <3>1. RequestsOf(o) \in 0 .. Requests
      BY DEF RequestsOf
    <3> QED  BY <1>4, <3>1 DEF QueueTypeOK
  <2> QED  BY <1>4, <1>5, <2>1, <2>2, <2>3 DEF QueueTypeOK, ProcessorState
<1>7. /\ \A g \in Generation \ {q} : buffer'[g] = buffer[g]
      /\ buffer'[q] = Tail(buffer[q])
  BY <1>1, <1>4 DEF QueueTypeOK
<1>8. \A g \in Generation : \A i \in DOMAIN buffer'[g] :
        \E k \in DOMAIN buffer[g] :
          /\ k = (IF g = q THEN i + 1 ELSE i)
          /\ buffer'[g][i] = buffer[g][k]
          /\ g = q => k # 1
  <2> SUFFICES ASSUME NEW g \in Generation, NEW i \in DOMAIN buffer'[g]
               PROVE  \E k \in DOMAIN buffer[g] :
                        /\ k = (IF g = q THEN i + 1 ELSE i)
                        /\ buffer'[g][i] = buffer[g][k]
                        /\ g = q => k # 1
    OBVIOUS
  <2>1. CASE g = q
    <3>1. i \in DOMAIN Tail(buffer[q]) /\ buffer'[g] = Tail(buffer[q])
      BY <1>7, <2>1
    <3>2. i + 1 \in DOMAIN buffer[g] /\ i + 1 # 1 /\ buffer'[g][i] = buffer[g][i + 1]
      BY <1>2, <2>1, <3>1
    <3> QED  BY <2>1, <3>2
  <2>2. CASE g # q
    <3>1. buffer'[g] = buffer[g]
      BY <1>7, <2>2
    <3> QED  BY <2>2, <3>1
  <2> QED  BY <2>1, <2>2
<1>9. \A g \in Generation : \A i \in DOMAIN buffer'[g] : buffer'[g][i] \in Op \ {o}
  <2> SUFFICES ASSUME NEW g \in Generation, NEW i \in DOMAIN buffer'[g]
               PROVE  buffer'[g][i] \in Op \ {o}
    OBVIOUS
  <2>1. PICK k \in DOMAIN buffer[g] : buffer'[g][i] = buffer[g][k] /\ (g = q => k # 1)
    BY <1>8
  <2>2. buffer[g][k] # buffer[q][1]
    BY <1>1, <1>2, <2>1 DEF OperationAtOnePlace
  <2> QED  BY <1>2, <2>1, <2>2, SMTT(30) DEF QueueTypeOK
<1>10. OperationAtOnePlace'
  <2>1. \A m \in Executing : processor[m].op # o /\ processor[m].op \in Op
    BY <1>3 DEF OperationAtOnePlace, Executing, Fields
  <2>2. Executing' = Executing \cup {n} /\ n \notin Executing
    BY <1>1, <1>5 DEF Executing
  <2>3. (\A k, m \in Executing : processor[k].op = processor[m].op => k = m)'
    BY <1>5, <2>1, <2>2 DEF OperationAtOnePlace, Executing
  <2>4. (\A m \in Executing : pc[processor[m].op] = "running")'
    <3>1. pc'[o] = "running" /\ \A p \in Op \ {o} : pc'[p] = pc[p]
      BY <1>2, <1>4 DEF QueueTypeOK
    <3>2. \A m \in Executing : processor'[m] = processor[m]
      BY <1>5, <2>2 DEF Executing
    <3>3. \A m \in Executing : pc[processor[m].op] = "running"
      BY DEF OperationAtOnePlace
    <3> QED  BY <1>5, <2>1, <2>2, <3>1, <3>2, <3>3
  <2>5. (\A g, h \in Generation : \A i \in DOMAIN buffer[g], j \in DOMAIN buffer[h] :
           buffer[g][i] = buffer[h][j] => g = h /\ i = j)'
    <3> SUFFICES ASSUME NEW g \in Generation, NEW h \in Generation,
                        NEW i \in DOMAIN buffer'[g], NEW j \in DOMAIN buffer'[h],
                        buffer'[g][i] = buffer'[h][j]
                 PROVE  g = h /\ i = j
      OBVIOUS
    <3>1. PICK k \in DOMAIN buffer[g] : k = (IF g = q THEN i + 1 ELSE i) /\ buffer'[g][i] = buffer[g][k]
      BY <1>8
    <3>2. PICK l \in DOMAIN buffer[h] : l = (IF h = q THEN j + 1 ELSE j) /\ buffer'[h][j] = buffer[h][l]
      BY <1>8
    <3>3. g = h /\ k = l
      <4>1. buffer[g][k] = buffer[h][l]
        BY <3>1, <3>2
      <4> QED  BY <4>1 DEF OperationAtOnePlace
    <3>4. i \in Nat /\ j \in Nat
      <4>1. buffer'[g] \in Seq(Op) /\ buffer'[h] \in Seq(Op)
        BY <1>6 DEF QueueTypeOK
      <4> QED  BY <4>1
    <3> QED  BY <3>1, <3>2, <3>3, <3>4
  <2>6. (\A g \in Generation : \A i \in DOMAIN buffer[g] : pc[buffer[g][i]] = "queued")'
    <3> SUFFICES ASSUME NEW g \in Generation, NEW i \in DOMAIN buffer'[g]
                 PROVE  pc'[buffer'[g][i]] = "queued"
      OBVIOUS
    <3>1. PICK k \in DOMAIN buffer[g] : buffer'[g][i] = buffer[g][k]
      BY <1>8
    <3>2. buffer'[g][i] \in Op \ {o}
      BY <1>9
    <3>3. pc[buffer[g][k]] = "queued"
      BY <3>1 DEF OperationAtOnePlace
    <3> QED  BY <1>4, <3>1, <3>2, <3>3 DEF QueueTypeOK
  <2> QED  BY <2>3, <2>4, <2>5, <2>6 DEF OperationAtOnePlace
<1>11. Fields'
  <2>1. \A c \in Op : (pc'[c] = "opening" <=> pc[c] = "opening") /\ (pc'[c] = "sending" <=> pc[c] = "sending")
    BY <1>2, <1>3, <1>4 DEF QueueTypeOK
  <2>2. (\A m \in Generation :
           /\ processor[m].at # "none" => operationQueue # 0
           /\ processor[m].at \in {"half", "select", "execute"} => processor[m].queue # 0
           /\ processor[m].at = "execute" => processor[m].op \in Op)'
    BY <1>1, <1>2, <1>4, <1>5 DEF Fields
  <2> QED  BY <1>4, <2>1, <2>2 DEF Fields
<1> QED  BY <1>6, <1>10, <1>11

\* The steps that leave the calls and the channels alone.
LEMMA FieldStepKeeps ==
  ASSUME QueueIInv, NEW n \in Generation, ReadQueueField(n) \/ ReadDoneField(n) \/ StopProcessor(n)
  PROVE  QueueIInv'
<1> USE QueueAssumption DEF QueueIInv, Generation, write
<1>1. /\ UNCHANGED <<pc, started, mutex, operationQueue, queueDone, buffer, closed, write>>
      /\ processor'[n] \in ProcessorState
      /\ processor[n].at # "none" /\ processor'[n].at # "execute"
      /\ processor'[n].at \in {"half", "select"} => processor'[n].queue # 0
      /\ \A m \in Generation \ {n} : processor'[m] = processor[m]
      /\ processor' \in [Generation -> ProcessorState]
  <2>0. processor[n] \in ProcessorState
    BY TypeOfFields
  <2> DEFINE Into(s) == /\ s \in ProcessorState /\ s.at # "execute"
                        /\ s.at \in {"half", "select"} => s.queue # 0
                        /\ processor' = [processor EXCEPT ![n] = s]
  <2>1. UNCHANGED <<pc, started, mutex, operationQueue, queueDone, buffer, closed, write>>
    BY DEF ReadQueueField, ReadDoneField, StopProcessor
  <2>2. processor[n].at # "none"
    BY DEF ReadQueueField, ReadDoneField, StopProcessor
  <2>3. ASSUME ReadQueueField(n) PROVE \E s : Into(s)
    <3> DEFINE t == [processor[n] EXCEPT !.at = "half", !.queue = operationQueue]
    <3>1. operationQueue \in 0 .. MaxOpens /\ operationQueue # 0
      BY <2>2 DEF QueueTypeOK, Fields
    <3>2. t \in ProcessorState /\ t.at = "half" /\ t.queue = operationQueue
      BY <2>0, <3>1 DEF ProcessorState
    <3>3. processor' = [processor EXCEPT ![n] = t]
      BY <2>3 DEF ReadQueueField
    <3> HIDE DEF t
    <3>4. Into(t)
      BY <3>1, <3>2, <3>3
    <3> QED  BY <3>4
  <2>4. ASSUME ReadDoneField(n) PROVE \E s : Into(s)
    <3> DEFINE t == [processor[n] EXCEPT !.at = "select", !.done = queueDone]
    <3>1. queueDone \in 0 .. MaxOpens /\ processor[n].queue # 0
      BY <2>4 DEF QueueTypeOK, Fields, ReadDoneField
    <3>2. t \in ProcessorState /\ t.at = "select" /\ t.queue = processor[n].queue
      BY <2>0, <3>1 DEF ProcessorState
    <3>3. processor' = [processor EXCEPT ![n] = t]
      BY <2>4 DEF ReadDoneField
    <3> HIDE DEF t
    <3>4. Into(t)
      BY <3>1, <3>2, <3>3
    <3> QED  BY <3>4
  <2>5. ASSUME StopProcessor(n) PROVE \E s : Into(s)
    <3> DEFINE t == [processor[n] EXCEPT !.at = "gone"]
    <3>1. t \in ProcessorState /\ t.at = "gone"
      BY <2>0 DEF ProcessorState
    <3>2. processor' = [processor EXCEPT ![n] = t]
      BY <2>5 DEF StopProcessor
    <3> HIDE DEF t
    <3>3. Into(t)
      BY <3>1, <3>2
    <3> QED  BY <3>3
  <2>6. PICK s : Into(s)
    BY <2>3, <2>4, <2>5
  <2>7. processor \in [Generation -> ProcessorState]
    BY TypeOfFields
  <2>8. processor'[n] = s /\ processor' \in [Generation -> ProcessorState]
        /\ \A m \in Generation \ {n} : processor'[m] = processor[m]
    BY <2>6, <2>7
  <2> QED  BY <2>1, <2>2, <2>6, <2>8
<1>2. QueueTypeOK'
  BY <1>1 DEF QueueTypeOK, ProcessorState
<1>3. OperationAtOnePlace'
  <2>1. Executing' \subseteq Executing /\ \A m \in Executing' : processor'[m] = processor[m]
    BY <1>1 DEF Executing
  <2> QED  BY <1>1, <2>1 DEF OperationAtOnePlace
<1>4. Fields'
  BY <1>1 DEF Fields
<1> QED  BY <1>2, <1>3, <1>4

LEMMA FinishKeeps ==
  ASSUME QueueIInv, NEW n \in Generation, Finish(n)
  PROVE  QueueIInv'
<1> USE QueueAssumption DEF QueueIInv, Generation, write
<1> DEFINE o == processor[n].op
<1>1. n \in Executing /\ o \in Op /\ pc[o] = "running"
  BY DEF Finish, Executing, OperationAtOnePlace, Fields
<1>2. /\ pc' = [pc EXCEPT ![o] = "done"]
      /\ UNCHANGED <<started, mutex, operationQueue, queueDone, buffer, closed, write>>
      /\ processor'[n].at = "loop"
      /\ \A m \in Generation \ {n} : processor'[m] = processor[m]
      /\ processor' \in [Generation -> ProcessorState]
  <2>1. processor \in [Generation -> ProcessorState]
    BY TypeOfFields
  <2>2. processor' = [processor EXCEPT ![n].at = "loop", ![n].op = NoOp]
    BY DEF Finish
  <2>3. /\ processor'[n].at = "loop" /\ processor' \in [Generation -> ProcessorState]
        /\ \A m \in Generation \ {n} : processor'[m] = processor[m]
    BY <2>1, <2>2, ProcessorSet
  <2> QED  BY <2>3 DEF Finish
<1>3. QueueTypeOK'
  <2>1. pc' \in [Op -> {"idle", "opening", "sending", "queued", "running", "done", "dropped"}]
    BY <1>1, <1>2 DEF QueueTypeOK
  <2> QED  BY <1>2, <2>1 DEF QueueTypeOK, ProcessorState
<1>4. OperationAtOnePlace'
  <2>1. Executing' = Executing \ {n} /\ \A m \in Executing' : processor'[m] = processor[m]
    BY <1>2 DEF Executing
  <2>2. \A m \in Executing' : processor[m].op \in Op \ {o}
    BY <1>1, <2>1 DEF OperationAtOnePlace, Executing, Fields
  <2>3. \A g \in Generation : \A i \in DOMAIN buffer[g] : buffer[g][i] \in Op \ {o}
    <3> SUFFICES ASSUME NEW g \in Generation, NEW i \in DOMAIN buffer[g]
                 PROVE  buffer[g][i] \in Op \ {o}
      OBVIOUS
    <3>1. buffer[g] \in Seq(Op)
      BY DEF QueueTypeOK
    <3>2. buffer[g][i] \in Op
      BY <3>1
    <3>3. pc[buffer[g][i]] = "queued"
      BY DEF OperationAtOnePlace
    <3> QED  BY <1>1, <3>2, <3>3
  <2>4. \A p \in Op \ {o} : pc'[p] = pc[p]
    BY <1>2 DEF QueueTypeOK
  <2> QED  BY <1>2, <2>1, <2>2, <2>3, <2>4 DEF OperationAtOnePlace
<1>5. Fields'
  <2>1. \A c \in Op : (pc'[c] = "opening" <=> pc[c] = "opening") /\ (pc'[c] = "sending" <=> pc[c] = "sending")
    BY <1>1, <1>2 DEF QueueTypeOK
  <2>2. (\A m \in Generation :
           /\ processor[m].at # "none" => operationQueue # 0
           /\ processor[m].at \in {"half", "select", "execute"} => processor[m].queue # 0
           /\ processor[m].at = "execute" => processor[m].op \in Op)'
    BY <1>1, <1>2 DEF Fields, Executing
  <2> QED  BY <1>2, <2>1, <2>2 DEF Fields
<1> QED  BY <1>3, <1>4, <1>5

\* A step of a long write leaves the queue alone.
LEMMA WriteStepKeeps ==
  ASSUME QueueIInv, NEW n \in Generation, SendRequest(n) \/ SendFails(n) \/ Resume(n)
  PROVE  QueueIInv' /\ UNCHANGED queue
<1> USE QueueAssumption
<1>1. UNCHANGED queue
  BY DEF SendRequest, SendFails, Resume, Answered, Cancelled, TimedOut
<1>2. left' \in [Generation -> 0 .. Requests] /\ waiting' \subseteq Generation
  <2>1. left \in [Generation -> 0 .. Requests] /\ waiting \subseteq Generation
    BY DEF QueueIInv, QueueTypeOK
  <2>2. CASE SendRequest(n)
    <3>1. left[n] \in 0 .. Requests /\ left[n] > 0
      BY <2>1, <2>2 DEF SendRequest
    <3>2. left[n] - 1 \in 0 .. Requests
      BY <3>1
    <3>3. left' = [left EXCEPT ![n] = left[n] - 1] /\ waiting' = waiting \cup {n}
      BY <2>2 DEF SendRequest
    <3> QED  BY <2>1, <3>2, <3>3
  <2>3. CASE SendFails(n) \/ Resume(n)
    <3>1. /\ left' \in {left, [left EXCEPT ![n] = 0]}
          /\ waiting' \in {waiting, waiting \ {n}}
      BY <2>3 DEF SendFails, Resume, Answered, Cancelled, TimedOut
    <3>2. 0 \in 0 .. Requests
      OBVIOUS
    <3>3. [left EXCEPT ![n] = 0] \in [Generation -> 0 .. Requests]
      BY <2>1, <3>2
    <3> QED  BY <2>1, <3>1, <3>3
  <2> QED  BY <2>2, <2>3
<1>3. QueueTypeOK'
  BY <1>1, <1>2 DEF queue, QueueIInv, QueueTypeOK
<1>4. OperationAtOnePlace'
  BY <1>1 DEF queue, QueueIInv, OperationAtOnePlace, Executing
<1>5. Fields'
  BY <1>1 DEF queue, QueueIInv, Fields
<1> QED  BY <1>1, <1>3, <1>4, <1>5 DEF QueueIInv

LEMMA CloseKeeps == ASSUME QueueIInv, Close PROVE QueueIInv'
<1> USE QueueAssumption DEF QueueIInv, Generation, write
<1>1. closed' \subseteq Generation
  BY DEF Close, QueueTypeOK, Fields
<1>2. OperationAtOnePlace'
  BY DEF Close, OperationAtOnePlace, Executing
<1>3. Fields'
  BY DEF Close, Fields, QueueTypeOK
<1> QED  BY <1>1, <1>2, <1>3 DEF Close, QueueTypeOK

LEMMA NextQueueIInv == QueueIInv /\ [QueueNext]_queueVars => QueueIInv'
<1> SUFFICES ASSUME QueueIInv, [QueueNext]_queueVars PROVE QueueIInv'
  OBVIOUS
<1>1. ASSUME NEW o \in Op, Call(o) PROVE QueueIInv'
  BY <1>1, CallKeeps, EnqueueKeeps DEF Call
<1>2. ASSUME NEW n \in Generation, Process(n) \/ Resume(n) PROVE QueueIInv'
  BY <1>2, FieldStepKeeps, ReceiveKeeps, FinishKeeps, WriteStepKeeps DEF Process
<1>3. CASE Close
  BY <1>3, CloseKeeps
<1>4. CASE UNCHANGED queueVars
  BY <1>4 DEF queueVars, write, QueueIInv, QueueTypeOK, OperationAtOnePlace, Executing, Fields
<1> QED  BY <1>1, <1>2, <1>3, <1>4 DEF QueueNext

LEMMA QueueInductive == QueueSpec => []QueueIInv
BY InitQueueIInv, NextQueueIInv, PTL DEF QueueSpec

\* However close() and later calls replace the channels, and whichever fields the
\* processors see, processOperationQueue carries no operation out twice.
THEOREM QueueHolds == QueueSpec => []QueueInv
<1>1. QueueIInv => QueueInv
  BY DEF QueueIInv, QueueInv
<1> QED  BY <1>1, QueueInductive, PTL

-----------------------------------------------------------------------------
(* Until close() there is one generation, which is all that serial sees. *)

OneGeneration ==
  /\ \A n \in Generation :
       /\ processor[n].op # NoOp <=> processor[n].at = "execute"
       /\ processor[n].at # "none" => n <= operationQueue /\ (mutex # NoOp => n # operationQueue)
  /\ closed = {} =>
       /\ operationQueue \in {0, 1}
       /\ ~started /\ mutex = NoOp => operationQueue = 0
       /\ \A n \in Generation :
            processor[n].at \in {"half", "select", "execute"} => processor[n].queue = 1

LEMMA InitOneGeneration == QueueInit => OneGeneration
BY DEF QueueInit, OneGeneration, Idle

\* What a step of one processor has to establish.
LEMMA OneProcessorSteps ==
  ASSUME OneGeneration, NEW n \in Generation, processor[n].at # "none",
         UNCHANGED <<started, mutex, operationQueue, closed>>,
         \A m \in Generation \ {n} : processor'[m] = processor[m],
         processor'[n].op # NoOp <=> processor'[n].at = "execute",
         closed = {} /\ processor'[n].at \in {"half", "select", "execute"} => processor'[n].queue = 1
  PROVE  OneGeneration'
<1>1. ASSUME NEW m \in Generation
      PROVE  /\ processor'[m].op # NoOp <=> processor'[m].at = "execute"
             /\ processor'[m].at # "none" =>
                  m <= operationQueue /\ (mutex # NoOp => m # operationQueue)
             /\ closed = {} /\ processor'[m].at \in {"half", "select", "execute"} =>
                  processor'[m].queue = 1
  <2>1. CASE m = n
    BY <2>1 DEF OneGeneration
  <2>2. CASE m # n
    <3>1. processor'[m] = processor[m]
      BY <2>2
    <3> QED  BY <3>1 DEF OneGeneration
  <2> QED  BY <2>1, <2>2
<1> QED  BY <1>1 DEF OneGeneration

LEMMA CallKeepsOne ==
  ASSUME QueueIInv, OneGeneration, NEW o \in Op, Call(o)
  PROVE  OneGeneration'
<1> USE QueueAssumption DEF QueueIInv, Generation, write
<1>1. CASE FindStarted(o)
  BY <1>1 DEF FindStarted, OneGeneration
<1>2. CASE OpenQueue(o)
  BY <1>2 DEF OpenQueue, OneGeneration, QueueTypeOK
<1>3. CASE StartProcessor(o)
  <2>1. mutex = o /\ mutex # NoOp /\ operationQueue \in Generation
    BY <1>3 DEF StartProcessor, QueueTypeOK, Fields
  <2>2. /\ processor[operationQueue].at = "none"
        /\ processor'[operationQueue].at = "loop"
        /\ processor'[operationQueue].op = processor[operationQueue].op
        /\ \A n \in Generation \ {operationQueue} : processor'[n] = processor[n]
    BY <1>3, <2>1, TypeOfFields DEF StartProcessor, OneGeneration, ProcessorState, QueueTypeOK
  <2> QED  BY <1>3, <2>1, <2>2, SMTT(30) DEF StartProcessor, OneGeneration, QueueTypeOK
<1>4. CASE Enqueue(o)
  BY <1>4 DEF Enqueue, OneGeneration
<1> QED  BY <1>1, <1>2, <1>3, <1>4 DEF Call

LEMMA ProcessKeepsOne ==
  ASSUME QueueIInv, OneGeneration, NEW n \in Generation, Process(n)
  PROVE  OneGeneration'
<1> USE QueueAssumption DEF QueueIInv, Generation, write
<1>0. /\ processor[n] \in ProcessorState /\ processor \in [Generation -> ProcessorState]
      /\ processor[n].op # NoOp <=> processor[n].at = "execute"
      /\ processor[n].at \in {"half", "select"} /\ closed = {} => processor[n].queue = 1
  BY TypeOfFields DEF OneGeneration
<1>1. CASE ReadQueueField(n)
  <2>1. /\ processor'[n].at = "half" /\ processor'[n].queue = operationQueue
        /\ processor'[n].op = processor[n].op
        /\ \A m \in Generation \ {n} : processor'[m] = processor[m]
    BY <1>0, <1>1 DEF ReadQueueField, ProcessorState
  <2>2. processor[n].at = "loop" /\ UNCHANGED <<started, mutex, operationQueue, closed>>
    BY <1>1 DEF ReadQueueField
  <2>3. closed = {} => operationQueue = 1
    BY <2>2 DEF OneGeneration, Fields
  <2> QED  BY <1>0, <2>1, <2>2, <2>3, OneProcessorSteps
<1>2. CASE ReadDoneField(n)
  <2>1. /\ processor'[n].at = "select" /\ processor'[n].queue = processor[n].queue
        /\ processor'[n].op = processor[n].op
        /\ \A m \in Generation \ {n} : processor'[m] = processor[m]
    BY <1>0, <1>2 DEF ReadDoneField, ProcessorState
  <2>2. processor[n].at = "half" /\ UNCHANGED <<started, mutex, operationQueue, closed>>
    BY <1>2 DEF ReadDoneField
  <2> QED  BY <1>0, <2>1, <2>2, OneProcessorSteps
<1>3. CASE Receive(n)
  <2> DEFINE new == Head(buffer[processor[n].queue])
  <2>1. processor[n].queue \in Generation
    BY <1>0, <1>3 DEF Receive, ProcessorState, Fields
  <2>2. new \in Op
    BY <1>3, <2>1 DEF Receive, QueueTypeOK
  <2>3. processor' = [processor EXCEPT ![n].at = "execute", ![n].op = new]
    BY <1>3 DEF Receive
  <2>4. processor[n].at = "select" /\ UNCHANGED <<started, mutex, operationQueue, closed>>
    BY <1>3 DEF Receive
  <2> HIDE DEF new
  <2>5. /\ processor'[n].at = "execute" /\ processor'[n].queue = processor[n].queue
        /\ processor'[n].op = new
        /\ \A m \in Generation \ {n} : processor'[m] = processor[m]
    BY <1>0, <2>2, <2>3, ProcessorSet
  <2>6. new # NoOp
    BY <2>2
  <2> QED  BY <1>0, <2>4, <2>5, <2>6, OneProcessorSteps
<1>4. CASE Finish(n)
  <2>1. processor' = [processor EXCEPT ![n].at = "loop", ![n].op = NoOp]
    BY <1>4 DEF Finish
  <2>2. processor[n].at = "execute" /\ UNCHANGED <<started, mutex, operationQueue, closed>>
    BY <1>4 DEF Finish
  <2>3. /\ processor'[n].at = "loop" /\ processor'[n].op = NoOp
        /\ \A m \in Generation \ {n} : processor'[m] = processor[m]
    BY <1>0, <2>1, ProcessorSet
  <2> QED  BY <2>2, <2>3, OneProcessorSteps
<1>5. CASE StopProcessor(n)
  <2>1. /\ processor'[n].at = "gone" /\ processor'[n].op = processor[n].op
        /\ \A m \in Generation \ {n} : processor'[m] = processor[m]
    BY <1>0, <1>5 DEF StopProcessor, ProcessorState
  <2>2. processor[n].at = "select" /\ UNCHANGED <<started, mutex, operationQueue, closed>>
    BY <1>5 DEF StopProcessor
  <2> QED  BY <1>0, <2>1, <2>2, OneProcessorSteps
<1>6. CASE SendRequest(n) \/ SendFails(n)
  BY <1>6, WriteStepKeeps DEF queue, OneGeneration
<1> QED  BY <1>1, <1>2, <1>3, <1>4, <1>5, <1>6 DEF Process

LEMMA NextOneGeneration == QueueIInv /\ OneGeneration /\ [QueueNext]_queueVars => OneGeneration'
<1> SUFFICES ASSUME QueueIInv, OneGeneration, [QueueNext]_queueVars PROVE OneGeneration'
  OBVIOUS
<1>1. ASSUME NEW o \in Op, Call(o) PROVE OneGeneration'
  BY <1>1, CallKeepsOne
<1>2. ASSUME NEW n \in Generation, Process(n) PROVE OneGeneration'
  BY <1>2, ProcessKeepsOne
<1>3. CASE Close
  BY <1>3 DEF Close, OneGeneration
<1>4. CASE UNCHANGED queueVars
  BY <1>4 DEF queueVars, OneGeneration
<1>5. ASSUME NEW n \in Generation, Resume(n) PROVE OneGeneration'
  BY <1>5, WriteStepKeeps DEF queue, OneGeneration
<1> QED  BY <1>1, <1>2, <1>3, <1>4, <1>5 DEF QueueNext

Shut == closed # {}

\* After close() serial sees nothing any more.
LEMMA ShutStutters ==
  ASSUME QueueIInv, Shut, [QueueNext]_queueVars
  PROVE  UNCHANGED serial!serialVars /\ Shut'
<1>1. closed \subseteq closed'
  BY DEF QueueNext, Call, FindStarted, OpenQueue, StartProcessor, Enqueue, Process, ReadQueueField,
         ReadDoneField, Receive, Finish, StopProcessor, SendRequest, SendFails, Resume, Answered,
         Cancelled, TimedOut, queue, Close, queueVars
<1> QED  BY <1>1 DEF Shut, serial!serialVars

LEMMA CallImplements ==
  ASSUME QueueIInv, OneGeneration, closed = {}, NEW o \in Op, Call(o)
  PROVE  [serial!Next]_serial!serialVars
<1> USE QueueAssumption DEF QueueIInv, Generation, write
<1>0. 1 \in Generation
  OBVIOUS
<1>1. CASE FindStarted(o) \/ OpenQueue(o)
  <2>1. {p \in Op : pc'[p] = "done"} = {p \in Op : pc[p] = "done"}
    BY <1>1 DEF FindStarted, OpenQueue, QueueTypeOK
  <2> QED  BY <1>1, <2>1 DEF FindStarted, OpenQueue, serial!serialVars
<1>2. CASE StartProcessor(o)
  <2>1. {p \in Op : pc'[p] = "done"} = {p \in Op : pc[p] = "done"}
    BY <1>2 DEF StartProcessor, QueueTypeOK
  <2>2. processor'[1].op = processor[1].op
    BY <1>0, <1>2, TypeOfFields DEF StartProcessor, ProcessorState
  <2> QED  BY <1>2, <2>1, <2>2 DEF StartProcessor, serial!serialVars
<1>3. CASE Enqueue(o)
  <2>1. {p \in Op : pc'[p] = "done"} = {p \in Op : pc[p] = "done"}
    BY <1>3 DEF Enqueue, QueueTypeOK
  <2>2. operationQueue = 1
    BY <1>3 DEF Enqueue, Fields, OneGeneration
  <2>3. UNCHANGED <<processor, closed>>
    BY <1>3 DEF Enqueue
  <2>4. CASE Len(buffer[1]) < QueueSize
    <3>1. buffer'[1] = Append(buffer[1], o)
      BY <1>0, <1>3, <2>2, <2>4 DEF Enqueue, QueueTypeOK
    <3> QED  BY <2>1, <2>3, <3>1 DEF serial!Next, serial!Accept
  <2>5. CASE ~(Len(buffer[1]) < QueueSize)
    BY <1>3, <2>1, <2>2, <2>3, <2>5 DEF Enqueue, serial!serialVars
  <2> QED  BY <2>4, <2>5
<1> QED  BY <1>1, <1>2, <1>3 DEF Call

LEMMA ProcessImplements ==
  ASSUME QueueIInv, OneGeneration, closed = {}, NEW n \in Generation, Process(n)
  PROVE  [serial!Next]_serial!serialVars
<1> USE QueueAssumption DEF QueueIInv, Generation, write
<1>0. n = 1 /\ 1 \in Generation /\ processor[1] \in ProcessorState
  <2>1. processor[n].at # "none"
    BY DEF Process, ReadQueueField, ReadDoneField, Receive, Finish, StopProcessor, SendRequest, SendFails
  <2> QED  BY <2>1, TypeOfFields DEF OneGeneration
<1>1. CASE ReadQueueField(n) \/ ReadDoneField(n) \/ StopProcessor(n)
  <2>1. processor'[1].op = processor[1].op
    BY <1>0, <1>1, TypeOfFields DEF ReadQueueField, ReadDoneField, StopProcessor, ProcessorState
  <2> QED  BY <1>1, <2>1 DEF ReadQueueField, ReadDoneField, StopProcessor, serial!serialVars
<1>2. CASE Receive(n)
  <2>1. processor[1].queue = 1 /\ processor[1].op = NoOp /\ buffer[1] # <<>>
    BY <1>0, <1>2 DEF Receive, OneGeneration
  <2>2. buffer'[1] = Tail(buffer[1]) /\ processor'[1].op = Head(buffer[1])
    BY <1>0, <1>2, <2>1, TypeOfFields DEF Receive, ProcessorState, QueueTypeOK
  <2>3. Head(buffer[1]) \in Op /\ pc[Head(buffer[1])] = "queued"
    <3>1. buffer[1] \in Seq(Op) /\ Head(buffer[1]) = buffer[1][1] /\ 1 \in DOMAIN buffer[1]
      BY <1>0, <2>1 DEF QueueTypeOK
    <3> QED  BY <1>0, <2>1, <3>1 DEF OperationAtOnePlace
  <2>4. {p \in Op : pc'[p] = "done"} = {p \in Op : pc[p] = "done"}
    BY <1>0, <1>2, <2>1, <2>3 DEF Receive, QueueTypeOK
  <2> QED  BY <1>2, <2>1, <2>2, <2>4 DEF Receive, serial!Next, serial!Begin
<1>3. CASE Finish(n)
  <2>1. processor[1].op \in Op /\ processor'[1].op = NoOp
    BY <1>0, <1>3, TypeOfFields DEF Finish, ProcessorState, Fields
  <2>2. {p \in Op : pc'[p] = "done"} = {p \in Op : pc[p] = "done"} \cup {processor[1].op}
    BY <1>0, <1>3, <2>1 DEF Finish, QueueTypeOK
  <2> QED  BY <1>3, <2>1, <2>2 DEF Finish, serial!Next, serial!End
<1>4. CASE SendRequest(n) \/ SendFails(n)
  BY <1>4, WriteStepKeeps DEF queue, serial!serialVars
<1> QED  BY <1>1, <1>2, <1>3, <1>4 DEF Process

LEMMA StepImplements ==
  QueueIInv /\ OneGeneration /\ [QueueNext]_queueVars => [serial!Next]_serial!serialVars
<1> SUFFICES ASSUME QueueIInv, OneGeneration, [QueueNext]_queueVars PROVE [serial!Next]_serial!serialVars
  OBVIOUS
<1>1. CASE Shut
  BY <1>1, ShutStutters
<1>2. ASSUME ~Shut, NEW o \in Op, Call(o) PROVE [serial!Next]_serial!serialVars
  BY <1>2, CallImplements DEF Shut
<1>3. ASSUME ~Shut, NEW n \in Generation, Process(n) PROVE [serial!Next]_serial!serialVars
  BY <1>3, ProcessImplements DEF Shut
<1>4. CASE ~Shut /\ Close
  BY <1>4 DEF Shut, Close, serial!Next, serial!Close
<1>5. CASE UNCHANGED queueVars
  BY <1>5 DEF queueVars, serial!serialVars
<1>6. ASSUME NEW n \in Generation, Resume(n) PROVE [serial!Next]_serial!serialVars
  BY <1>6, WriteStepKeeps DEF queue, serial!serialVars
<1> QED  BY <1>1, <1>2, <1>3, <1>4, <1>5, <1>6 DEF QueueNext, Shut

\* enqueueOperation and processOperationQueue carry the operations of a BluetoothGatt
\* out one at a time and in order, until it is closed.
THEOREM Serial == QueueSpec => ImplementsSerial
<1>1. QueueInit => serial!Init
  BY QueueAssumption DEF QueueInit, Idle, Generation, serial!Init
<1>2. QueueInit => QueueIInv /\ OneGeneration
  BY InitQueueIInv, InitOneGeneration
<1>3. (QueueIInv /\ OneGeneration) /\ [QueueNext]_queueVars => (QueueIInv /\ OneGeneration)'
  BY NextQueueIInv, NextOneGeneration
<1> QED  BY <1>1, <1>2, <1>3, StepImplements, PTL DEF QueueSpec, ImplementsSerial, serial!Spec

-----------------------------------------------------------------------------
(* The central *)

B(x) == IF x THEN 1 ELSE 0

\* What may still become a dial: goroutines, connections lost, calls not yet made.
Tokens(p) ==
  dialers[p]["asleep"] + dialers[p]["begin"] + dialers[p]["delay"] + dialers[p]["up"]
    + dialers[p]["refused"] + ended[p] + B(link[p] = "dead")
    + B(scan[p] \in {"idle", "decided", "reserved"})

Goroutines(p) ==
  dialers[p]["asleep"] + dialers[p]["begin"] + dialers[p]["delay"] + dialers[p]["refused"]

\* Each connection lost makes one token more.
Counted(p) ==
  /\ Tokens(p) <= drops + 1
  /\ ended[p] + B(link[p] = "dead") <= drops

\* A peer that does not dial us is at one place: not yet dialled, being dialled,
\* connected, lost, or given up.
OnePlace(p) ==
  /\ link[p] # "theirs"
  /\ Goroutines(p) + ended[p] + B(link[p] \in {"ours", "dead"})
       + B(scan[p] \in {"idle", "decided", "reserved"}) <= 1
  /\ dialers[p]["up"] <= 1
  /\ dialers[p]["up"] = 1 =>
       dialers[p]["begin"] + dialers[p]["delay"] + dialers[p]["refused"] = 0
  /\ scan[p] \in {"idle", "decided", "reserved"} => dialers[p]["up"] = 0
  /\ scan[p] \in {"idle", "decided"} => slot[p] = "none"
  /\ scan[p] = "called" => dialers[p]["begin"] + dialers[p]["delay"] = 1

Marks ==
  /\ autoConnect \in BOOLEAN
  /\ discovered \subseteq Peer
  /\ scan \in [Peer -> {"idle", "decided", "reserved", "called", "over"}]
  /\ \A p \in Peer \ discovered : scan[p] = "idle"
  /\ slot \in [Peer -> {"none", "reserved", "gatt"}]
  /\ connected \subseteq Peer /\ served \subseteq Peer
  /\ callbackFor \in Peer \cup {None}
  /\ link \in [Peer -> {"none", "ours", "theirs", "dead"}]
  /\ discovering \subseteq Peer /\ subscribed \subseteq Peer
  /\ drops \in 0 .. MaxDrops
  /\ dialers \in [Peer -> [Stage -> Nat]]
  /\ ended \in [Peer -> Nat]

CentralIInv ==
  /\ Marks
  /\ \A p \in Peer : Counted(p)
  /\ \A p \in Dials : OnePlace(p)
  /\ SlotIsLive

-----------------------------------------------------------------------------
LEMMA InitCentralIInv == Init => CentralIInv
<1> SUFFICES ASSUME Init PROVE CentralIInv
  OBVIOUS
<1> USE CentralAssumption DEF Init, Stage
<1>1. Marks
  BY DEF Marks
<1>2. ASSUME NEW p \in Peer PROVE Counted(p)
  BY DEF Counted, Tokens, B
<1>3. ASSUME NEW p \in Dials PROVE OnePlace(p)
  BY DEF OnePlace, Goroutines, B
<1>4. SlotIsLive
  BY DEF SlotIsLive
<1> QED  BY <1>1, <1>2, <1>3, <1>4 DEF CentralIInv

\* The numbers that the counts are made of.
Numbers(p) ==
  /\ dialers[p]["asleep"] \in Nat /\ dialers[p]["begin"] \in Nat
  /\ dialers[p]["delay"] \in Nat /\ dialers[p]["up"] \in Nat
  /\ dialers[p]["refused"] \in Nat
  /\ ended[p] \in Nat /\ drops \in Nat

LEMMA NumbersOf == ASSUME NEW p \in Peer, CentralIInv PROVE Numbers(p)
BY CentralAssumption DEF CentralIInv, Marks, Stage, Numbers

LEMMA HoldsByCentralIInv == CentralIInv => AndroidInv
<1> SUFFICES ASSUME CentralIInv PROVE AndroidInv
  OBVIOUS
<1> USE CentralAssumption
<1>1. AndroidTypeOK
  <2>1. ASSUME NEW p \in Peer
        PROVE  /\ \A s \in Stage : dialers[p][s] \in 0 .. (MaxDrops + 1)
               /\ ended[p] \in 0 .. MaxDrops
    BY NumbersOf DEF CentralIInv, Marks, Counted, Tokens, B, Stage, Numbers
  <2>2. dialers \in [Peer -> [Stage -> 0 .. (MaxDrops + 1)]]
    <3>1. ASSUME NEW p \in Peer PROVE dialers[p] \in [Stage -> 0 .. (MaxDrops + 1)]
      BY <2>1 DEF CentralIInv, Marks
    <3> QED  BY <3>1 DEF CentralIInv, Marks
  <2>3. ended \in [Peer -> 0 .. MaxDrops]
    BY <2>1 DEF CentralIInv, Marks
  <2> QED  BY <2>2, <2>3 DEF AndroidTypeOK, CentralIInv, Marks
<1>2. OneDialer
  <2> SUFFICES ASSUME NEW p \in Dials
               PROVE  /\ \A s, t \in StagesOf(p) : s = t /\ dialers[p][s] = 1
                      /\ StagesOf(p) # {} => link[p] = "none"
    BY DEF OneDialer
  <2>1. OnePlace(p) /\ Counted(p) /\ link[p] \in {"none", "ours", "theirs", "dead"}
    BY DEF CentralIInv, Marks
  <2>2. StagesOf(p) \subseteq {"asleep", "begin", "delay", "refused"}
    BY DEF StagesOf, Stage
  <2>3. \A s \in {"asleep", "begin", "delay", "refused"} : dialers[p][s] \in Nat
    BY NumbersOf DEF Numbers
  <2>4. \A s \in StagesOf(p) : dialers[p][s] >= 1
    BY <2>2, <2>3 DEF StagesOf
  <2>5. Goroutines(p) <= 1 /\ (Goroutines(p) = 1 => link[p] = "none")
    BY <2>1, NumbersOf DEF OnePlace, Goroutines, B, Numbers
  <2>6. \A s, t \in {"asleep", "begin", "delay", "refused"} :
          dialers[p][s] >= 1 /\ dialers[p][t] >= 1 => s = t /\ dialers[p][s] = 1 /\ Goroutines(p) = 1
    <3> DEFINE a == dialers[p]["asleep"]  b == dialers[p]["begin"]
               c == dialers[p]["delay"]   d == dialers[p]["refused"]
    <3>1. a \in Nat /\ b \in Nat /\ c \in Nat /\ d \in Nat /\ a + b + c + d <= 1
      BY <2>3, <2>5 DEF Goroutines
    <3> HIDE DEF a, b, c, d
    <3>2. /\ a >= 1 => a = 1 /\ b = 0 /\ c = 0 /\ d = 0
          /\ b >= 1 => a = 0 /\ b = 1 /\ c = 0 /\ d = 0
          /\ c >= 1 => a = 0 /\ b = 0 /\ c = 1 /\ d = 0
          /\ d >= 1 => a = 0 /\ b = 0 /\ c = 0 /\ d = 1
      BY <3>1
    <3>3. Goroutines(p) = a + b + c + d
      BY DEF Goroutines, a, b, c, d
    <3> QED  BY <3>2, <3>3 DEF a, b, c, d
  <2> QED  BY <2>2, <2>4, <2>5, <2>6
<1> QED  BY <1>1, <1>2 DEF CentralIInv, AndroidInv
-----------------------------------------------------------------------------
(* A step of one peer leaves the others as they are *)

Same(p) ==
  /\ dialers'[p] = dialers[p] /\ ended'[p] = ended[p] /\ link'[p] = link[p]
  /\ scan'[p] = scan[p] /\ slot'[p] = slot[p]

SlotOK(p) ==
  slot[p] # "none" =>
    \/ scan[p] \in {"reserved", "called"}
    \/ Goroutines(p) > 0
    \/ link[p] \in {"ours", "dead"}
    \/ ended[p] > 0
    \/ callbackFor # p

LEMMA SlotLive ==
  (\A p \in Peer : dialers[p] \in [Stage -> Nat]) => (SlotIsLive <=> \A p \in Dials : SlotOK(p))
<1> SUFFICES ASSUME \A p \in Peer : dialers[p] \in [Stage -> Nat]
             PROVE  SlotIsLive <=> \A p \in Dials : SlotOK(p)
  OBVIOUS
<1>1. ASSUME NEW p \in Dials PROVE StagesOf(p) # {} <=> Goroutines(p) > 0
  <2>1. \A s \in {"asleep", "begin", "delay", "refused"} : dialers[p][s] \in Nat
    BY CentralAssumption DEF Stage
  <2>2. \A s \in Stage \ {"up"} : s \in StagesOf(p) <=> dialers[p][s] > 0
    BY DEF StagesOf
  <2>3. StagesOf(p) \subseteq Stage \ {"up"} /\ Stage \ {"up"} = {"asleep", "begin", "delay", "refused"}
    BY DEF StagesOf, Stage
  <2>4. CASE StagesOf(p) # {}
    <3>1. PICK s \in {"asleep", "begin", "delay", "refused"} : dialers[p][s] > 0
      BY <2>2, <2>3, <2>4
    <3> QED  BY <2>1, <2>4, <3>1 DEF Goroutines
  <2>5. CASE StagesOf(p) = {}
    <3>1. \A s \in {"asleep", "begin", "delay", "refused"} : dialers[p][s] = 0
      BY <2>1, <2>2, <2>3, <2>5
    <3> QED  BY <2>5, <3>1 DEF Goroutines
  <2> QED  BY <2>4, <2>5
<1> QED  BY <1>1 DEF SlotIsLive, SlotOK

LEMMA SlotLiveNext ==
  (\A p \in Peer : dialers[p] \in [Stage -> Nat])' => (SlotIsLive <=> \A p \in Dials : SlotOK(p))'
<1> DEFINE L == \A p \in Peer : dialers[p] \in [Stage -> Nat]
           S == \A p \in Dials : SlotOK(p)
<1>1. L => (SlotIsLive <=> S)
  BY SlotLive
<1> HIDE DEF L, S
<1>2. L' => (SlotIsLive' <=> S')
  BY <1>1, PTL
<1> QED  BY <1>2 DEF L, S

LEMMA OthersKeep ==
  ASSUME NEW p \in Peer, Same(p), CentralIInv, drops' \in Nat, drops' >= drops,
         callbackFor' = callbackFor \/ callbackFor' # p
  PROVE  /\ Counted(p)'
         /\ p \in Dials => OnePlace(p)' /\ SlotOK(p)'
<1>0. /\ Counted(p) /\ drops \in Nat
      /\ p \in Dials => OnePlace(p) /\ SlotOK(p)
  BY SlotLive, CentralAssumption DEF CentralIInv, Marks
<1>1. Tokens(p)' = Tokens(p) /\ Goroutines(p)' = Goroutines(p)
  BY DEF Same, Tokens, Goroutines
<1>2. Tokens(p) \in Nat /\ ended[p] + B(link[p] = "dead") \in Nat
  BY NumbersOf DEF Tokens, B, Numbers
<1>3. Counted(p)'
  BY <1>0, <1>1, <1>2 DEF Same, Counted
<1>4. p \in Dials => OnePlace(p)'
  BY <1>0, <1>1 DEF Same, OnePlace
<1>5. p \in Dials => SlotOK(p)'
  BY <1>0, <1>1 DEF Same, SlotOK
<1> QED  BY <1>3, <1>4, <1>5

-----------------------------------------------------------------------------
(* Goroutines come, go and move on *)

Lives == dialers \in [Peer -> [Stage -> Nat]]

LEMMA MoveEffect ==
  ASSUME Lives, NEW p \in Peer, NEW s \in Stage, NEW t \in Stage, s # t,
         dialers[p][s] > 0, Move(p, s, t)
  PROVE  /\ Lives'
         /\ dialers'[p][s] = dialers[p][s] - 1 /\ dialers'[p][t] = dialers[p][t] + 1
         /\ \A r \in Stage \ {s, t} : dialers'[p][r] = dialers[p][r]
         /\ \A q \in Peer \ {p} : dialers'[q] = dialers[q]
BY DEF Lives, Move

LEMMA SpawnEffect ==
  ASSUME Lives, NEW p \in Peer, NEW s \in Stage, Spawn(p, s)
  PROVE  /\ Lives'
         /\ dialers'[p][s] = dialers[p][s] + 1
         /\ \A r \in Stage \ {s} : dialers'[p][r] = dialers[p][r]
         /\ \A q \in Peer \ {p} : dialers'[q] = dialers[q]
BY DEF Lives, Spawn

LEMMA EndEffect ==
  ASSUME Lives, NEW p \in Peer, NEW s \in Stage, dialers[p][s] > 0,
         dialers' = [dialers EXCEPT ![p][s] = @ - 1]
  PROVE  /\ Lives'
         /\ dialers'[p][s] = dialers[p][s] - 1
         /\ \A r \in Stage \ {s} : dialers'[p][r] = dialers[p][r]
         /\ \A q \in Peer \ {p} : dialers'[q] = dialers[q]
BY DEF Lives

\* What a step of p has to establish; OthersKeep does the rest.
Kept(p) ==
  /\ Marks'
  /\ \A q \in Peer \ {p} : Same(q)
  /\ Counted(p)'
  /\ p \in Dials => OnePlace(p)' /\ SlotOK(p)'
  /\ drops' >= drops
  /\ callbackFor' = callbackFor \/ callbackFor' = p

LEMMA Sums ==
  ASSUME NEW p \in Peer, CentralIInv
  PROVE  /\ Numbers(p) /\ Counted(p)
         /\ p \in Dials => OnePlace(p) /\ SlotOK(p)
         /\ link[p] \in {"none", "ours", "theirs", "dead"}
<1>1. SlotIsLive <=> \A q \in Dials : SlotOK(q)
  BY SlotLive DEF CentralIInv, Marks
<1> QED  BY <1>1, CentralAssumption DEF CentralIInv, Marks, Stage, Numbers

\* What it may start from.
LEMMA Begins ==
  ASSUME CentralIInv, NEW p \in Peer
  PROVE  /\ Lives /\ ended \in [Peer -> Nat] /\ drops \in Nat /\ drops <= MaxDrops
         /\ Counted(p)
         /\ p \in Dials => OnePlace(p) /\ SlotOK(p)
         /\ dialers[p]["asleep"] \in Nat /\ dialers[p]["begin"] \in Nat
         /\ dialers[p]["delay"] \in Nat /\ dialers[p]["up"] \in Nat
         /\ dialers[p]["refused"] \in Nat
         /\ ended[p] \in Nat
         /\ link[p] \in {"none", "ours", "theirs", "dead"}
         /\ scan[p] \in {"idle", "decided", "reserved", "called", "over"}
         /\ slot[p] \in {"none", "reserved", "gatt"}
         /\ p # None
<1>1. SlotIsLive <=> \A q \in Dials : SlotOK(q)
  BY SlotLive DEF CentralIInv, Marks
<1> QED  BY <1>1, CentralAssumption DEF CentralIInv, Marks, Lives, Stage

\* The sum of OnePlace, one summand at a time.
LEMMA Places ==
  ASSUME CentralIInv, NEW p \in Dials
  PROVE  /\ scan[p] \in {"idle", "decided", "reserved"} =>
              /\ dialers[p]["delay"] = 0 /\ dialers[p]["asleep"] = 0 /\ dialers[p]["begin"] = 0
              /\ dialers[p]["refused"] = 0 /\ dialers[p]["up"] = 0 /\ ended[p] = 0
              /\ link[p] = "none"
         /\ dialers[p]["delay"] > 0 =>
              /\ dialers[p]["delay"] = 1 /\ dialers[p]["asleep"] = 0 /\ dialers[p]["begin"] = 0
              /\ dialers[p]["refused"] = 0 /\ dialers[p]["up"] = 0 /\ ended[p] = 0
              /\ scan[p] \notin {"idle", "decided", "reserved"}
<1> DEFINE a == dialers[p]["asleep"]  b == dialers[p]["begin"]   c == dialers[p]["delay"]
           d == dialers[p]["refused"] u == dialers[p]["up"]      e == ended[p]
           l == B(link[p] \in {"ours", "dead"})
           n == B(scan[p] \in {"idle", "decided", "reserved"})
<1>1. /\ a \in Nat /\ b \in Nat /\ c \in Nat /\ d \in Nat /\ u \in Nat /\ e \in Nat
      /\ OnePlace(p)
      /\ link[p] \in {"none", "ours", "theirs", "dead"}
  BY CentralAssumption, Sums DEF Numbers
<1>2. l \in {0, 1} /\ n \in {0, 1}
  BY DEF B
<1>3. a + b + c + d + e + l + n <= 1 /\ u <= 1 /\ (u = 1 => b + c + d = 0)
  BY <1>1 DEF OnePlace, Goroutines
<1>4. /\ l = 0 => link[p] = "none"
      /\ scan[p] \in {"idle", "decided", "reserved"} => n = 1 /\ u = 0
      /\ scan[p] \notin {"idle", "decided", "reserved"} => n = 0
  BY <1>1 DEF OnePlace, B
<1> HIDE DEF a, b, c, d, u, e, l, n
<1>5. n = 1 => a = 0 /\ b = 0 /\ c = 0 /\ d = 0 /\ e = 0 /\ l = 0
  BY <1>1, <1>2, <1>3
<1>6. c > 0 => c = 1 /\ a = 0 /\ b = 0 /\ d = 0 /\ e = 0 /\ n = 0 /\ u = 0
  BY <1>1, <1>2, <1>3
<1>7. n = 0 => scan[p] \notin {"idle", "decided", "reserved"}
  BY <1>4
<1> QED  BY <1>4, <1>5, <1>6, <1>7 DEF a, b, c, d, u, e

LEMMA ScanKeeps ==
  ASSUME CentralIInv, NEW p \in Peer, OnScanResult(p) \/ Reserve(p) \/ StoreGatt(p)
  PROVE  Kept(p)
<1>0. UNCHANGED <<dialers, link, ended, drops, callbackFor>>
  BY DEF OnScanResult, Reserve, StoreGatt
<1>1. Marks' /\ \A q \in Peer \ {p} : Same(q)
  BY <1>0 DEF OnScanResult, Reserve, StoreGatt, CentralIInv, Marks, Same
<1>2. CASE OnScanResult(p)
  <2>1. scan[p] = "idle" /\ scan'[p] \in {"decided", "over"} /\ slot'[p] = slot[p]
    BY <1>2 DEF OnScanResult, CentralIInv, Marks
  <2>3. Counted(p)'
    BY <1>0, <2>1, Sums DEF Counted, Tokens, B, Numbers
  <2>4. p \in Dials => OnePlace(p)'
    BY <1>0, <2>1, Sums DEF OnePlace, Goroutines, B, Numbers
  <2>5. p \in Dials => SlotOK(p)'
    BY <1>0, <2>1, Sums DEF OnePlace, SlotOK, Goroutines, Numbers
  <2> QED  BY <1>0, <1>1, <2>3, <2>4, <2>5, Begins DEF Kept
<1>3. CASE Reserve(p)
  <2>1. scan[p] = "decided" /\ scan'[p] = IF slot[p] = "none" THEN "reserved" ELSE "over"
    BY <1>3 DEF Reserve, CentralIInv, Marks
  <2>2. slot'[p] = IF slot[p] = "none" THEN "reserved" ELSE slot[p]
    BY <1>3 DEF Reserve, CentralIInv, Marks
  <2>3. Counted(p)'
    BY <1>0, <2>1, Sums DEF Counted, Tokens, B, Numbers
  <2>4. p \in Dials => OnePlace(p)'
    BY <1>0, <2>1, <2>2, Sums DEF OnePlace, Goroutines, B, Numbers
  <2>5. p \in Dials => SlotOK(p)'
    BY <1>0, <2>1, <2>2, Sums DEF OnePlace, SlotOK, Goroutines, Numbers
  <2> QED  BY <1>0, <1>1, <2>3, <2>4, <2>5, Begins DEF Kept
<1>4. CASE StoreGatt(p)
  <2>1. scan[p] = "called" /\ scan'[p] = "over" /\ slot'[p] = "gatt"
    BY <1>4 DEF StoreGatt, CentralIInv, Marks
  <2>3. Counted(p)'
    BY <1>0, <2>1, Sums DEF Counted, Tokens, B, Numbers
  <2>4. p \in Dials => OnePlace(p)'
    BY <1>0, <2>1, Sums DEF OnePlace, Goroutines, B, Numbers
  <2>5. p \in Dials => SlotOK(p)'
    BY <1>0, <2>1, Sums DEF OnePlace, SlotOK, Goroutines, Numbers
  <2> QED  BY <1>0, <1>1, <2>3, <2>4, <2>5, Begins DEF Kept
<1> QED  BY <1>2, <1>3, <1>4

LEMMA ConnectGattKeeps ==
  ASSUME CentralIInv, NEW p \in Peer, ConnectGatt(p)
  PROVE  Kept(p)
<1>1. /\ scan[p] = "reserved" /\ scan'[p] = "called"
      /\ slot'[p] = slot[p] /\ link'[p] = link[p] /\ ended'[p] = ended[p]
      /\ drops' = drops /\ callbackFor' = p
  BY DEF ConnectGatt, CentralIInv, Marks
<1>2. /\ Lives'
      /\ dialers'[p]["begin"] = dialers[p]["begin"] + 1
      /\ dialers'[p]["asleep"] = dialers[p]["asleep"]
      /\ dialers'[p]["delay"] = dialers[p]["delay"]
      /\ dialers'[p]["up"] = dialers[p]["up"]
      /\ dialers'[p]["refused"] = dialers[p]["refused"]
      /\ \A q \in Peer \ {p} : dialers'[q] = dialers[q]
  BY SpawnEffect, Begins DEF ConnectGatt, Stage
<1>3. Marks' /\ \A q \in Peer \ {p} : Same(q)
  BY <1>2 DEF ConnectGatt, CentralIInv, Marks, Same, Lives
<1>4. Counted(p)'
  BY <1>1, <1>2, Sums DEF Counted, Tokens, B, Numbers
<1>5. p \in Dials => OnePlace(p)'
  <2> SUFFICES ASSUME p \in Dials PROVE OnePlace(p)'
    OBVIOUS
  <2>1. /\ dialers[p]["delay"] = 0 /\ dialers[p]["asleep"] = 0 /\ dialers[p]["begin"] = 0
        /\ dialers[p]["refused"] = 0 /\ dialers[p]["up"] = 0 /\ ended[p] = 0
        /\ link[p] = "none"
    BY <1>1, Places
  <2> QED  BY <1>1, <1>2, <2>1 DEF OnePlace, Goroutines, B
<1>6. p \in Dials => SlotOK(p)'
  BY <1>1 DEF SlotOK
<1> QED  BY <1>1, <1>3, <1>4, <1>5, <1>6, Begins DEF Kept

\* The stages before the wire has answered.
LEMMA DialKeeps ==
  ASSUME CentralIInv, NEW p \in Peer,
         Wake(p) \/ BeginConnect(p) \/ DialFails(p) \/ (DialSucceeds(p) /\ link[p] # "none")
  PROVE  Kept(p)
<1>0. /\ UNCHANGED <<app, callbackFor, link, ended, discovering, subscribed, drops>>
      /\ \/ /\ dialers[p]["asleep"] > 0 /\ dialers[p]["up"] = 0
            /\ Move(p, "asleep", "begin")
         \/ /\ dialers[p]["begin"] > 0
            /\ Move(p, "begin", IF link[p] = "none" THEN "delay" ELSE "refused")
         \/ /\ dialers[p]["delay"] > 0 /\ scan[p] # "called"
            /\ Move(p, "delay", "refused")
  BY DEF Wake, BeginConnect, DialFails, DialSucceeds, DelayOver
<1>1. UNCHANGED <<scan, slot, link, ended, drops, callbackFor>>
  BY <1>0 DEF app
<1>2. CASE dialers[p]["asleep"] > 0 /\ dialers[p]["up"] = 0 /\ Move(p, "asleep", "begin")
  <2>1. /\ Lives' /\ \A q \in Peer \ {p} : dialers'[q] = dialers[q]
        /\ dialers'[p]["asleep"] = dialers[p]["asleep"] - 1
        /\ dialers'[p]["begin"] = dialers[p]["begin"] + 1
        /\ dialers'[p]["delay"] = dialers[p]["delay"]
        /\ dialers'[p]["up"] = dialers[p]["up"]
        /\ dialers'[p]["refused"] = dialers[p]["refused"]
    BY <1>2, MoveEffect, Begins DEF Stage
  <2>2. Marks' /\ \A q \in Peer \ {p} : Same(q)
    BY <1>0, <2>1 DEF CentralIInv, Marks, Same, Lives, app
  <2>3. Counted(p)'
    BY <1>1, <2>1, Sums DEF Counted, Tokens, B, Numbers
  <2>4. p \in Dials => OnePlace(p)'
    BY <1>1, <1>2, <2>1, Sums DEF OnePlace, Goroutines, B, Numbers
  <2>5. p \in Dials => SlotOK(p)'
    BY <1>1, <2>1, Sums DEF SlotOK, Goroutines, Numbers
  <2> QED  BY <1>1, <2>2, <2>3, <2>4, <2>5, Begins DEF Kept
<1>3. CASE /\ dialers[p]["begin"] > 0
           /\ Move(p, "begin", IF link[p] = "none" THEN "delay" ELSE "refused")
  <2> DEFINE t == IF link[p] = "none" THEN "delay" ELSE "refused"
  <2>1. /\ Lives' /\ \A q \in Peer \ {p} : dialers'[q] = dialers[q]
        /\ dialers'[p]["begin"] = dialers[p]["begin"] - 1
        /\ dialers'[p][t] = dialers[p][t] + 1
        /\ \A r \in {"asleep", "up", "delay", "refused"} \ {t} : dialers'[p][r] = dialers[p][r]
    BY <1>3, MoveEffect, Begins DEF Stage
  <2>2. Marks' /\ \A q \in Peer \ {p} : Same(q)
    BY <1>0, <2>1 DEF CentralIInv, Marks, Same, Lives, app
  <2>3. Counted(p)'
    BY <1>1, <2>1, Sums DEF Counted, Tokens, B, Numbers
  <2>4. p \in Dials => OnePlace(p)'
    <3> SUFFICES ASSUME p \in Dials PROVE OnePlace(p)'
      OBVIOUS
    <3>1. /\ dialers[p]["begin"] = 1 /\ dialers[p]["asleep"] = 0 /\ dialers[p]["delay"] = 0
          /\ dialers[p]["refused"] = 0 /\ dialers[p]["up"] = 0 /\ ended[p] = 0
          /\ scan[p] \notin {"idle", "decided", "reserved"} /\ link[p] = "none"
      BY <1>3, Sums DEF OnePlace, Goroutines, B, Numbers
    <3>2. /\ dialers'[p]["begin"] = 0 /\ dialers'[p]["asleep"] = 0 /\ dialers'[p]["delay"] = 1
          /\ dialers'[p]["refused"] = 0 /\ dialers'[p]["up"] = 0
      BY <2>1, <3>1
    <3> QED  BY <1>1, <3>1, <3>2 DEF OnePlace, Goroutines, B
  <2>5. p \in Dials => SlotOK(p)'
    BY <1>1, <2>1, Sums DEF SlotOK, Goroutines, Numbers
  <2> QED  BY <1>1, <2>2, <2>3, <2>4, <2>5, Begins DEF Kept
<1>4. CASE dialers[p]["delay"] > 0 /\ scan[p] # "called" /\ Move(p, "delay", "refused")
  <2>1. /\ Lives' /\ \A q \in Peer \ {p} : dialers'[q] = dialers[q]
        /\ dialers'[p]["delay"] = dialers[p]["delay"] - 1
        /\ dialers'[p]["refused"] = dialers[p]["refused"] + 1
        /\ dialers'[p]["asleep"] = dialers[p]["asleep"]
        /\ dialers'[p]["begin"] = dialers[p]["begin"]
        /\ dialers'[p]["up"] = dialers[p]["up"]
    BY <1>4, MoveEffect, Begins DEF Stage
  <2>2. Marks' /\ \A q \in Peer \ {p} : Same(q)
    BY <1>0, <2>1 DEF CentralIInv, Marks, Same, Lives, app
  <2>3. Counted(p)'
    BY <1>1, <2>1, Sums DEF Counted, Tokens, B, Numbers
  <2>4. p \in Dials => OnePlace(p)'
    BY <1>1, <1>4, <2>1, Sums DEF OnePlace, Goroutines, B, Numbers
  <2>5. p \in Dials => SlotOK(p)'
    BY <1>1, <2>1, Sums DEF SlotOK, Goroutines, Numbers
  <2> QED  BY <1>1, <2>2, <2>3, <2>4, <2>5, Begins DEF Kept
<1> QED  BY <1>0, <1>2, <1>3, <1>4

LEMMA DialSucceedsKeeps ==
  ASSUME CentralIInv, NEW p \in Peer, DialSucceeds(p), link[p] = "none"
  PROVE  Kept(p)
<1>1. /\ dialers[p]["delay"] > 0 /\ scan[p] # "called" /\ Move(p, "delay", "up")
      /\ link' = [link EXCEPT ![p] = "ours"]
      /\ UNCHANGED <<app, callbackFor, ended, discovering, subscribed, drops>>
  BY DEF DialSucceeds, DelayOver
<1>2. UNCHANGED <<scan, slot, ended, drops, callbackFor>> /\ link'[p] = "ours"
  BY <1>1 DEF app, CentralIInv, Marks
<1>3. /\ Lives' /\ \A q \in Peer \ {p} : dialers'[q] = dialers[q]
      /\ dialers'[p]["delay"] = dialers[p]["delay"] - 1
      /\ dialers'[p]["up"] = dialers[p]["up"] + 1
      /\ dialers'[p]["asleep"] = dialers[p]["asleep"]
      /\ dialers'[p]["begin"] = dialers[p]["begin"]
      /\ dialers'[p]["refused"] = dialers[p]["refused"]
  BY <1>1, MoveEffect, Begins DEF Stage
<1>4. Marks' /\ \A q \in Peer \ {p} : Same(q)
  BY <1>1, <1>3 DEF CentralIInv, Marks, Same, Lives, app
<1>5. Counted(p)'
  BY <1>2, <1>3, Sums DEF Counted, Tokens, B, Numbers
<1>6. p \in Dials => OnePlace(p)'
  <2> SUFFICES ASSUME p \in Dials PROVE OnePlace(p)'
    OBVIOUS
  <2>1. /\ dialers[p]["delay"] = 1 /\ dialers[p]["asleep"] = 0 /\ dialers[p]["begin"] = 0
        /\ dialers[p]["refused"] = 0 /\ dialers[p]["up"] = 0 /\ ended[p] = 0
        /\ scan[p] \notin {"idle", "decided", "reserved", "called"}
    BY <1>1, Places
  <2> QED  BY <1>2, <1>3, <2>1 DEF OnePlace, Goroutines, B
<1>7. p \in Dials => SlotOK(p)'
  BY <1>2 DEF SlotOK
<1> QED  BY <1>2, <1>4, <1>5, <1>6, <1>7, Begins DEF Kept

LEMMA ReportConnectedKeeps ==
  ASSUME CentralIInv, NEW p \in Peer, ReportConnected(p)
  PROVE  Kept(p)
<1>1. /\ UNCHANGED <<scan, slot, link, ended, drops, callbackFor>>
      /\ dialers[p]["up"] > 0
  BY DEF ReportConnected
<1>2. /\ Lives' /\ \A q \in Peer \ {p} : dialers'[q] = dialers[q]
      /\ dialers'[p]["up"] = dialers[p]["up"] - 1
      /\ dialers'[p]["asleep"] = dialers[p]["asleep"]
      /\ dialers'[p]["begin"] = dialers[p]["begin"]
      /\ dialers'[p]["delay"] = dialers[p]["delay"]
      /\ dialers'[p]["refused"] = dialers[p]["refused"]
  <2>1. Lives /\ "up" \in Stage
    BY Begins DEF Stage
  <2>2. dialers[p]["up"] > 0 /\ dialers' = [dialers EXCEPT ![p]["up"] = @ - 1]
    BY DEF ReportConnected
  <2>3. /\ Lives' /\ \A q \in Peer \ {p} : dialers'[q] = dialers[q]
        /\ dialers'[p]["up"] = dialers[p]["up"] - 1
        /\ \A r \in Stage \ {"up"} : dialers'[p][r] = dialers[p][r]
    BY <2>1, <2>2, EndEffect
  <2> QED  BY <2>3 DEF Stage
<1>3. Marks' /\ \A q \in Peer \ {p} : Same(q)
  BY <1>2 DEF ReportConnected, CentralIInv, Marks, Same, Lives
<1>4. Counted(p)'
  BY <1>1, <1>2, Sums DEF Counted, Tokens, B, Numbers
<1>5. p \in Dials => OnePlace(p)'
  BY <1>1, <1>2, Sums DEF OnePlace, Goroutines, B, Numbers
<1>6. p \in Dials => SlotOK(p)'
  BY <1>1, <1>2, Sums DEF SlotOK, Goroutines, Numbers
<1> QED  BY <1>1, <1>3, <1>4, <1>5, <1>6, Begins DEF Kept

LEMMA ReportRefusedKeeps ==
  ASSUME CentralIInv, NEW p \in Peer, ReportRefused(p)
  PROVE  Kept(p)
<1>1. /\ UNCHANGED <<scan, link, ended, drops, callbackFor>>
      /\ slot'[p] = "none" /\ dialers[p]["refused"] > 0
  BY DEF ReportRefused, ReportDisconnected, CentralIInv, Marks
<1>2. /\ Lives' /\ \A q \in Peer \ {p} : dialers'[q] = dialers[q]
      /\ dialers'[p]["refused"] = dialers[p]["refused"] - 1
      /\ dialers'[p]["asleep"] \in {dialers[p]["asleep"], dialers[p]["asleep"] + 1}
      /\ dialers'[p]["begin"] = dialers[p]["begin"]
      /\ dialers'[p]["delay"] = dialers[p]["delay"]
      /\ dialers'[p]["up"] = dialers[p]["up"]
  <2>1. CASE autoConnect
    BY <1>1, <2>1, MoveEffect, Begins DEF ReportRefused, Stage
  <2>2. CASE ~autoConnect
    BY <1>1, <2>2, EndEffect, Begins DEF ReportRefused, Stage
  <2> QED  BY <2>1, <2>2
<1>3. Marks' /\ \A q \in Peer \ {p} : Same(q)
  BY <1>2 DEF ReportRefused, ReportDisconnected, CentralIInv, Marks, Same, Lives
<1>4. Counted(p)'
  BY <1>1, <1>2, Sums DEF Counted, Tokens, B, Numbers
<1>5. p \in Dials => OnePlace(p)'
  BY <1>1, <1>2, Sums DEF OnePlace, Goroutines, B, Numbers
<1>6. p \in Dials => SlotOK(p)'
  BY <1>1 DEF SlotOK
<1> QED  BY <1>1, <1>3, <1>4, <1>5, <1>6, Begins DEF Kept

LEMMA WireKeeps ==
  ASSUME CentralIInv, NEW p \in Peer, Incoming(p) \/ FirstMessage(p) \/ ServicesDiscovered(p)
  PROVE  Kept(p)
<1>1. /\ UNCHANGED <<dialers, scan, slot, ended, drops, callbackFor>>
      /\ link' = link \/ (p \notin Dials /\ link[p] = "none" /\ link' = [link EXCEPT ![p] = "theirs"])
      /\ discovered \subseteq discovered'
  BY DEF Incoming, FirstMessage, ServicesDiscovered, app
<1>2. Marks' /\ \A q \in Peer \ {p} : Same(q)
  BY <1>1 DEF Incoming, FirstMessage, ServicesDiscovered, app, CentralIInv, Marks, Same
<1>3. CASE link' = link
  BY <1>1, <1>2, <1>3, Sums, Begins DEF Kept, Counted, Tokens, OnePlace, Goroutines, SlotOK
<1>4. CASE p \notin Dials /\ link[p] = "none" /\ link' = [link EXCEPT ![p] = "theirs"]
  <2>1. link'[p] = "theirs"
    BY <1>4 DEF CentralIInv, Marks
  <2>2. Counted(p)'
    BY <1>1, <1>4, <2>1, Sums DEF Counted, Tokens, B, Numbers
  <2> QED  BY <1>1, <1>2, <1>4, <2>2, Begins DEF Kept
<1> QED  BY <1>1, <1>3, <1>4

LEMMA LossKeeps ==
  ASSUME CentralIInv, NEW p \in Peer, Drop(p) \/ RemoveEntry(p)
  PROVE  Kept(p)
<1>1. /\ UNCHANGED <<dialers, scan, slot, callbackFor>>
      /\ link \in [Peer -> {"none", "ours", "theirs", "dead"}] /\ ended \in [Peer -> Nat]
  BY DEF Drop, RemoveEntry, app, CentralIInv, Marks
<1>2. CASE Drop(p)
  <2>1. /\ link[p] \in {"ours", "theirs"} /\ link'[p] = "dead" /\ ended' = ended
        /\ drops' = drops + 1 /\ drops' \in 0 .. MaxDrops
        /\ \A q \in Peer \ {p} : link'[q] = link[q]
    BY <1>1, <1>2, CentralAssumption DEF Drop, CentralIInv, Marks
  <2>2. Marks' /\ \A q \in Peer \ {p} : Same(q)
    BY <1>1, <1>2, <2>1 DEF Drop, CentralIInv, Marks, Same, app
  <2>3. Counted(p)'
    BY <1>1, <2>1, Sums DEF Counted, Tokens, B, Numbers
  <2>4. p \in Dials => OnePlace(p)' /\ SlotOK(p)'
    BY <1>1, <2>1, Sums DEF OnePlace, Goroutines, SlotOK, B, Numbers
  <2> QED  BY <1>1, <2>1, <2>2, <2>3, <2>4, Sums DEF Kept, Numbers
<1>3. CASE RemoveEntry(p)
  <2>1. /\ link[p] = "dead" /\ link'[p] = "none" /\ ended'[p] = ended[p] + 1 /\ drops' = drops
        /\ ended' \in [Peer -> Nat]
        /\ \A q \in Peer \ {p} : link'[q] = link[q] /\ ended'[q] = ended[q]
    BY <1>1, <1>3 DEF RemoveEntry
  <2>2. Marks' /\ \A q \in Peer \ {p} : Same(q)
    BY <1>1, <1>3, <2>1 DEF RemoveEntry, CentralIInv, Marks, Same, app
  <2>3. Counted(p)'
    BY <1>1, <2>1, Sums DEF Counted, Tokens, B, Numbers
  <2>4. p \in Dials => OnePlace(p)' /\ SlotOK(p)'
    BY <1>1, <2>1, Sums DEF OnePlace, Goroutines, SlotOK, B, Numbers
  <2> QED  BY <1>1, <2>1, <2>2, <2>3, <2>4, Sums DEF Kept, Numbers
<1> QED  BY <1>2, <1>3

LEMMA CallbackKeeps ==
  ASSUME CentralIInv, NEW p \in Peer, DisconnectCallback(p)
  PROVE  Kept(p)
<1>1. /\ ended[p] > 0 /\ ended'[p] = ended[p] - 1 /\ ended' \in [Peer -> Nat]
      /\ \A q \in Peer \ {p} : ended'[q] = ended[q]
      /\ UNCHANGED <<callbackFor, link, scan, discovered, drops, autoConnect, served>>
  BY DEF DisconnectCallback, ReportDisconnected, app, CentralIInv, Marks
<1>2. CASE callbackFor = p
  <2>1. slot'[p] = "none" /\ \A q \in Peer \ {p} : slot'[q] = slot[q]
    BY <1>2 DEF DisconnectCallback, ReportDisconnected, CentralIInv, Marks
  <2>2. /\ Lives' /\ \A q \in Peer \ {p} : dialers'[q] = dialers[q]
        /\ dialers'[p]["asleep"] \in {dialers[p]["asleep"], dialers[p]["asleep"] + 1}
        /\ dialers'[p]["begin"] = dialers[p]["begin"]
        /\ dialers'[p]["delay"] = dialers[p]["delay"]
        /\ dialers'[p]["up"] = dialers[p]["up"]
        /\ dialers'[p]["refused"] = dialers[p]["refused"]
    <3>1. CASE autoConnect
      <4>1. Spawn(p, "asleep")
        BY <1>2, <3>1 DEF DisconnectCallback
      <4> QED  BY <4>1, SpawnEffect, Begins DEF Stage
    <3>2. CASE ~autoConnect
      <4>1. dialers' = dialers
        BY <1>2, <3>2 DEF DisconnectCallback
      <4> QED  BY <4>1, Begins DEF Lives
    <3> QED  BY <3>1, <3>2
  <2>3. Marks' /\ \A q \in Peer \ {p} : Same(q)
    BY <1>1, <1>2, <2>1, <2>2, SMTT(30)
       DEF DisconnectCallback, ReportDisconnected, CentralIInv, Marks, Same, Lives
  <2>4. Counted(p)'
    BY <1>1, <2>2, Sums DEF Counted, Tokens, B, Numbers
  <2>5. p \in Dials => OnePlace(p)'
    BY <1>1, <2>1, <2>2, Sums DEF OnePlace, Goroutines, B, Numbers
  <2> QED  BY <1>1, <2>1, <2>3, <2>4, <2>5, Sums DEF Kept, SlotOK, Numbers
<1>3. CASE callbackFor # p
  <2>1. UNCHANGED <<app, dialers>>
    BY <1>3 DEF DisconnectCallback
  <2>2. Marks' /\ \A q \in Peer \ {p} : Same(q)
    BY <1>1, <2>1 DEF DisconnectCallback, CentralIInv, Marks, Same, app
  <2>3. Counted(p)'
    BY <1>1, <2>1, Sums DEF Counted, Tokens, B, Numbers, app
  <2>4. p \in Dials => OnePlace(p)'
    BY <1>1, <2>1, Sums DEF OnePlace, Goroutines, B, Numbers, app
  <2> QED  BY <1>1, <1>3, <2>2, <2>3, <2>4, Sums DEF Kept, SlotOK, Numbers
<1> QED  BY <1>2, <1>3

-----------------------------------------------------------------------------
LEMMA StepKeeps ==
  ASSUME CentralIInv, NEW p \in Peer,
         Dialling(p) \/ Connecting(p) \/ ReadLoop(p) \/ ServicesDiscovered(p) \/ Environment(p)
  PROVE  Kept(p)
<1>1. CASE Dialling(p)
  <2>1. CASE DialSucceeds(p)
    BY <2>1, DialKeeps, DialSucceedsKeeps
  <2> QED  BY <1>1, <2>1, DialKeeps, ReportConnectedKeeps, ReportRefusedKeeps DEF Dialling
<1>2. CASE Connecting(p)
  BY <1>2, ScanKeeps, ConnectGattKeeps DEF Connecting
<1>3. CASE ReadLoop(p)
  BY <1>3, LossKeeps, CallbackKeeps DEF ReadLoop
<1>4. CASE ServicesDiscovered(p) \/ Environment(p)
  BY <1>4, WireKeeps, ScanKeeps, LossKeeps DEF Environment
<1> QED  BY <1>1, <1>2, <1>3, <1>4

LEMMA NextCentralIInv == CentralIInv /\ [Next]_vars => CentralIInv'
<1> SUFFICES ASSUME CentralIInv, [Next]_vars PROVE CentralIInv'
  OBVIOUS
<1>1. CASE Next
  <2>1. PICK p \in Peer : Kept(p)
    BY <1>1, StepKeeps DEF Next
  <2>2. drops' \in Nat /\ \A q \in Peer : q # p => callbackFor' = callbackFor \/ callbackFor' # q
    BY <2>1, CentralAssumption DEF Kept, Marks
  <2>3. \A q \in Peer : Counted(q)' /\ (q \in Dials => OnePlace(q)' /\ SlotOK(q)')
    BY <2>1, <2>2, OthersKeep DEF Kept
  <2>4. (SlotIsLive <=> \A q \in Dials : SlotOK(q))'
    <3>1. (\A q \in Peer : dialers[q] \in [Stage -> Nat])'
      BY <2>1 DEF Kept, Marks
    <3> QED  BY <3>1, SlotLiveNext
  <2> QED  BY <2>1, <2>3, <2>4, CentralAssumption DEF Kept, CentralIInv
<1>2. CASE UNCHANGED vars
  <2>1. Marks' /\ SlotIsLive'
    BY <1>2 DEF vars, CentralIInv, Marks, SlotIsLive, StagesOf
  <2>2. \A p \in Peer : Counted(p)'
    BY <1>2 DEF vars, CentralIInv, Counted, Tokens
  <2>3. \A p \in Dials : OnePlace(p)'
    BY <1>2 DEF vars, CentralIInv, OnePlace, Goroutines
  <2> QED  BY <2>1, <2>2, <2>3 DEF CentralIInv
<1> QED  BY <1>1, <1>2

LEMMA CentralInductive == Spec => []CentralIInv
BY InitCentralIInv, NextCentralIInv, PTL DEF Spec

\* connectToDevice, ConnectGatt and attemptReconnect never have two goroutines dial one
\* peer, and no entry of connectedGatts keeps such a peer out for good.
THEOREM AndroidHolds == Spec => []AndroidInv
BY HoldsByCentralIInv, CentralInductive, PTL

\* OnConnectionStateChange(STATE_DISCONNECTED) tells the truth about a peer that does
\* not dial us.
THEOREM DisconnectsAreTrue == Spec => NoFalseDisconnect
<1>1. CentralIInv /\ [Next]_vars
        => [\A p \in Dials : (p \in connected /\ p \notin connected') => link[p] # "ours"]_vars
  <2> SUFFICES ASSUME CentralIInv, Next, NEW p \in Dials, p \in connected, p \notin connected'
               PROVE  link[p] # "ours"
    OBVIOUS
  <2>1. PICK q \in Peer : \/ Dialling(q) \/ Connecting(q) \/ ReadLoop(q)
                           \/ ServicesDiscovered(q) \/ Environment(q)
    BY DEF Next
  <2>2. p = q /\ (ReportRefused(p) \/ DisconnectCallback(p))
    BY <2>1 DEF Dialling, Connecting, ReadLoop, Environment, Wake, BeginConnect, DialFails,
         DialSucceeds, ReportConnected, ReportRefused, Reserve, ConnectGatt, StoreGatt,
         RemoveEntry, DisconnectCallback, ReportDisconnected, ServicesDiscovered,
         OnScanResult, Incoming, FirstMessage, Drop, app
  <2>3. p \in Peer /\ (dialers[p]["refused"] > 0 \/ ended[p] > 0)
    BY <2>2 DEF ReportRefused, DisconnectCallback
  <2> QED  BY <2>3, Sums DEF OnePlace, Goroutines, B, Numbers
<1> QED  BY <1>1, CentralInductive, PTL DEF Spec, NoFalseDisconnect
=============================================================================
