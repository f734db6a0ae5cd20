\* Two users and their gateways, from an empty database.
CONSTANTS
  User = {u1, u2}
  Call = {c1, c2, c3, c4}
  Object = {o1, o2}
  Nobody = Nobody
SPECIFICATION Spec
INVARIANTS TypeOK OnlyAdders
PROPERTIES RegistrationKept
