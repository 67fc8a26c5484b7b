CONSTANTS
  p1 = p1
  p2 = p2
  Proc = {p1, p2}
  NoProc = NoProc
  Op = {"leave_channel", "join_channel", "list_channels"}
  MaxVersion = 1
SPECIFICATION Spec
INVARIANTS UpgradeNeverFails
