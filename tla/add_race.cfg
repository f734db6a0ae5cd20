\* Two users add the same device.
CONSTANTS
  User = {u1, u2}
  Call = {c1, c2}
  Object = {o1, o2}
  Nobody = Nobody
SPECIFICATION Spec
INVARIANTS OneDocument
SYMMETRY Symmetry
