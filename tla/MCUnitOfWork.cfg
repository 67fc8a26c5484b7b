CONSTANTS
  p1 = p1
  p2 = p2
  Proc = {p1, p2}
  NoProc = NoProc
  Op = {"login", "leave_channel", "create_channel", "join_channel", "delete_channel", "list_members"}
  MaxVersion = 2
SPECIFICATION Spec
INVARIANTS
  TypeOK
  WriterIsCurrent
PROPERTIES
  OnlyDeferredUpgradesFail
  SlotComesBack
  CommandsAreAtomic
