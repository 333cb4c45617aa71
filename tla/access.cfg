\* Three windows of two attempts, one more address than the table holds, and more tokens than
\* sessions.
CONSTANTS
  Callers = {c1, c2}
  Addresses = {client, other}
  Client = client
  Tokens = {s1, s2}
  Limit = 2
  Window = 2
  MaxKeys = 1
  IdleTimeout = 1
  Lifetime = 2
  Capacity = 1
  Revalidate = 1
  MaxTime = 5
SPECIFICATION Spec
SYMMETRY Symmetry
INVARIANTS
  TypeOK
  AttemptsBounded
  StreamEndsWithSession
PROPERTIES
  RefusedWithCause
  TurnedAwayOnlyWhenFull
