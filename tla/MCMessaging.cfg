CONSTANTS
  alice = alice
  bob = bob
  c1 = c1
  c2 = c2
  k1 = k1
  k2 = k2
  s1 = s1
  w1 = w1
  w2 = w2
  User = {alice, bob}
  Chan = {c1, c2}
  Key = {k1, k2}
  Call <- MCCall
  Worker = {w1, w2}
  Stream = {s1}
  Viewer <- MCViewer
  Watched <- MCWatched
  Changing <- MCChanging
  Deletable = {c1}
  NoCall = NoCall
  Capacity = 1
SPECIFICATION Spec
INVARIANTS
  TypeOK
  DeliveredOnce
  LiveIsDurable
  OneLateMessageAtMost
PROPERTIES
  Delivered
