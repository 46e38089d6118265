CONSTANTS
  NNodes = 3
  Packets = {p1, p2, p3}
SPECIFICATION TrafficSpec
SYMMETRY Sym
INVARIANTS
  BoundedBypass
