SPECIFICATION StoreSpec
CONSTANTS
  Group = {"g1", "g2"}
  Text = {"t1", "t2"}
INVARIANT CachedUntilFetched
