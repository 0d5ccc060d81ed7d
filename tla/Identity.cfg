SPECIFICATION Spec
CONSTANTS
  OurHardware = h0
  OurDevice = d0
  Hardware = {h0, h1, h2, h3}
  Device = {d0, d1, d2}
  NoHardware = NoHardware
  NoDevice = NoDevice
INVARIANTS IdentityInv QuiescentDurable
PROPERTIES RotationDropsOldAddress ImplementsMatching
SYMMETRY PeerSymmetry
