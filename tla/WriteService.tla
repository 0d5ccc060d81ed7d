---------------------------- MODULE WriteService ----------------------------
(***************************************************************************)
(* What long writes over one connection promise to the characteristics     *)
(* they go to: each is carried out at most once and whole, or not at all,  *)
(* and whoever is told that it succeeded can rely on it.                   *)
(***************************************************************************)
EXTENDS Sequences, SequencesExt

CONSTANTS Writer,           \* every writer issues one long write
          Value(_)          \* the value it writes

VARIABLES written,          \* the values that reached the server, in order
          told              \* what each writer was told

Init ==
  /\ written = <<>>
  /\ told = [w \in Writer |-> "nothing"]

Carry(w) ==
  /\ Value(w) \notin Range(written)
  /\ written' = Append(written, Value(w))
  /\ UNCHANGED told

Succeed(w) ==
  /\ told[w] = "nothing"
  /\ Value(w) \in Range(written)
  /\ told' = [told EXCEPT ![w] = "ok"]
  /\ UNCHANGED written

\* A failure may come back after the write was carried out.
Fail(w) ==
  /\ told[w] = "nothing"
  /\ told' = [told EXCEPT ![w] = "failed"]
  /\ UNCHANGED written

Next == \E w \in Writer : Carry(w) \/ Succeed(w) \/ Fail(w)

Spec == Init /\ [][Next]_<<written, told>>
=============================================================================
