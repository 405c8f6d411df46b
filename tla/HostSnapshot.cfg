SPECIFICATION Spec
CONSTANTS
  Collector = {c1, c2}
INVARIANTS TypeOK HostMeansHost RequireHolds StopsOnlyInVain
PROPERTY KeepsValid
SYMMETRY Symmetry
