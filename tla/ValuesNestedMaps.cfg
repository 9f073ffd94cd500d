SPECIFICATION CheckSpec
CONSTANTS
  t1 = t1
  t2 = t2
  s1 = s1
  s2 = s2
  Threads = {t1, t2}
  Nobody = Nobody
  Tags = {"a", "b"}
  MaxKids = 1
  Shards = {s1, s2}
  ShardOf <- MCShardOf
  MaxIds = 1
  Keys = {3}
  Vals = {1, 2}
  Missing = 0
  Modulus = 256
  SlotSize = 64
  Mix = 157
  MapId <- MCMapId
  Samples <- NestedMaps
INVARIANT EnumerationIsExact
CHECK_DEADLOCK FALSE
