---------------------------- MODULE SerialExecutor ----------------------------
(* What a BluetoothGatt promises its application until it is closed:         *)
(* operations are carried out one at a time, in the order of the calls.      *)
EXTENDS Sequences

CONSTANTS Op,    \* the calls of writeCharacteristic, readDescriptor, ...
          NoOp   \* no operation

VARIABLES waiting,   \* accepted operations that have not begun
          current,   \* the operation in progress
          finished,  \* operations whose callback has been made
          open       \* FALSE once close() was called: nothing is promised

serialVars == <<waiting, current, finished, open>>

Init ==
    /\ waiting = <<>>
    /\ current = NoOp
    /\ finished = {}
    /\ open = TRUE

Accept(o) ==
    /\ open
    /\ waiting' = Append(waiting, o)
    /\ UNCHANGED <<current, finished, open>>

Begin ==
    /\ open
    /\ current = NoOp
    /\ waiting # <<>>
    /\ current' = Head(waiting)
    /\ waiting' = Tail(waiting)
    /\ UNCHANGED <<finished, open>>

End ==
    /\ open
    /\ current # NoOp
    /\ finished' = finished \cup {current}
    /\ current' = NoOp
    /\ UNCHANGED <<waiting, open>>

Close ==
    /\ open
    /\ open' = FALSE
    /\ waiting' = <<>>
    /\ current' = NoOp
    /\ finished' = {}

Next == (\E o \in Op : Accept(o)) \/ Begin \/ End \/ Close

Spec == Init /\ [][Next]_serialVars
==============================================================================
