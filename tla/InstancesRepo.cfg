SPECIFICATION Spec
CONSTANTS
  c1 = c1
  c2 = c2
  i1 = i1
  NoInstance = NoInstance
  Clients <- TwoClients
  Instances <- OneInstance
INVARIANTS TypeOK OneWinner ReadsAreSnapshots DeleteLeavesNothing
SYMMETRY Symmetry
