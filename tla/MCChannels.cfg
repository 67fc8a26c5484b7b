CONSTANTS
  u1 = u1
  u2 = u2
  admin = admin
  old = old
  new = new
  n1 = n1
  n2 = n2
  j1 = j1
  j2 = j2
  j3 = j3
  User = {u1, u2, admin}
  Account <- MCAccount
  Chan = {old, new}
  Legacy = {old}
  Name = {n1, n2}
  JoinId = {j1, j2, j3}
SPECIFICATION Spec
SYMMETRY Symmetry
INVARIANTS
  TypeOK
  OwnerIsMember
  NoOrphanRows
  JoinRowsKeyed
PROPERTIES
  MembershipIsGranted
  DecisionIsFinal
  ApprovalAdmits
CHECK_DEADLOCK FALSE
