SPECIFICATION Spec
CONSTANTS
  Client = {c1, c2}
  Browser = {b1}
  Name = {main, work}
  MaxSession = 3
SYMMETRY PeerSymmetry
INVARIANTS TypeOK NoOrphanTask OneSessionServed
