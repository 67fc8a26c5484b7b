CONSTANTS
  command = command
  server = server
  alice = alice
  admin = admin
  c1 = c1
  c2 = c2
  x1 = x1
  x2 = x2
  Starter = {command, server}
  Scripts = 2
  Length <- MCLength
  Tool = command
  User = {alice, admin}
  Admin = {admin}
  Chan = {c1, c2}
  Post = {x1, x2}
SPECIFICATION RSpec
INVARIANTS
  RecordedMeansComplete
  ReferencesHold
  NothingLost
PROPERTIES
  OthersKeepData
