SPECIFICATION Spec
CONSTANTS
  Clients = {c1, c2}
  Users = {u1, u2}
  SecretIds = {s1, s2}
  MaxDEK = 2
  MaxKEK = 2
  MaxEvents = 3
INVARIANT SecretsReadable
INVARIANT ChainTells
INVARIANT AccessesLogged
PROPERTY RotationCovers
SYMMETRY Symmetry
CHECK_DEADLOCK FALSE
