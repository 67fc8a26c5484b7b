CONSTANTS
  alice = alice
  bob = bob
  a1 = a1
  a2 = a2
  b1 = b1
  w1 = w1
  w2 = w2
  s1 = s1
  User = {alice, bob}
  Session = {a1, a2, b1}
  UserOf <- MCUserOf
  Worker = {w1, w2}
  Stream = {s1}
  Timeout = 2
  MaxClock = 3
SPECIFICATION Spec
INVARIANTS
  TypeOK
  OnlineHasHeartbeat
  ChangesAnnouncedOnce
PROPERTIES
  OfflineMeansSilence
  SilentUsersExpire
