------------------------- MODULE MCIdentityManager -------------------------
(***************************************************************************)
(* IdentityManager for TLC.  Peers' UUIDs are interchangeable, and so are  *)
(* their device IDs: only safety is checked under this symmetry.           *)
(***************************************************************************)
EXTENDS IdentityManager, TLC

PeerSymmetry == Permutations(PeerHardware) \cup Permutations(PeerDevice)
=============================================================================
