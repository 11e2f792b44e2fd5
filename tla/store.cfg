SPECIFICATION StoreSpec
CONSTANTS
  Group = {"g1", "g2", "unnamed"}
  Text = {"t1", "t2"}
INVARIANTS
  StoreTypeOK
  LooksAgree
PROPERTY ImplementsMailboxes
