-------------------------- MODULE IdentityMatching --------------------------
(***************************************************************************)
(* What the identity layer promises, without its two hash maps and without *)
(* files: a matching between peripheral UUIDs and device IDs that survives *)
(* a restart as it was last persisted.                                     *)
(***************************************************************************)
CONSTANTS Hardware,     \* peripheral UUIDs
          Device,       \* Base36 device IDs
          OurHardware, OurDevice

VARIABLES matching,     \* the <<hardware, device>> pairs known now
          persisted     \* the pairs a restart would bring back

vars == <<matching, persisted>>

Self == {<<OurHardware, OurDevice>>}

Pairs == (Hardware \ {OurHardware}) \X (Device \ {OurDevice})

Init ==
  /\ matching = Self
  /\ persisted = {}

\* Learning h <-> d forgets whatever either of them was matched with before.
Learn(h, d) ==
  /\ matching' = {p \in matching : p[1] # h /\ p[2] # d} \cup {<<h, d>>}
  /\ UNCHANGED persisted

\* The whole matching, less our own pair, becomes durable at once.
Persist ==
  /\ persisted' = matching \ Self
  /\ UNCHANGED matching

\* The durable copy is destroyed: two overlapping calls of SaveToDisk can do that.
Tear ==
  /\ persisted' = {}
  /\ UNCHANGED matching

Restart ==
  /\ matching' = Self \cup persisted
  /\ UNCHANGED persisted

Next ==
  \/ \E p \in Pairs : Learn(p[1], p[2])
  \/ Persist
  \/ Tear
  \/ Restart

Spec == Init /\ [][Next]_vars
=============================================================================
