CONSTANTS
  alice = alice
  bob = bob
  c1 = c1
  c2 = c2
  k1 = k1
  x1 = x1
  x2 = x2
  first = first
  retry = retry
  reuse = reuse
  User = {alice, bob}
  Chan = {c1, c2}
  Key = {k1}
  Content = {x1, x2}
  Upload = {first, retry, reuse}
  Header <- MCHeader
  Download = {"d1"}
SPECIFICATION Spec
INVARIANTS
  RowsHaveBytes
  AnswersAreStored
  NothingLeftBehind
  DownloadsFindBytes
