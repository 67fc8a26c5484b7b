CONSTANTS
  server = server
  Starter = {server}
  Scripts = 3
  Length <- MCLength
SPECIFICATION Spec
INVARIANTS
  StartsNeverCollide
