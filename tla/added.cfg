\* The device is added when the calls begin.
CONSTANTS
  User = {u1, u2}
  Call = {c1, c2, c3, c4}
  Object = {o1, o2}
  Nobody = Nobody
SPECIFICATION AddedSpec
INVARIANTS OneDocument OwnerManages FreshValue
PROPERTIES AtomicUnlessOvertaken
SYMMETRY Symmetry
