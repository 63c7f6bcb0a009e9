SPECIFICATION Spec
CONSTANTS
  Builds <- SmallBuilds
  Pins <- TwoPins
  Rates = {"r1", "r2"}
  Channels <- TwoChannels
  Duties = {"d1", "d2"}
  StripChannels <- TwoChannels
  Levels = {0, 1}
  Ops = {"a", "b"}
  Words = {"w1", "w2"}
  MaxOps = 2
  LineCodings = {"c1", "c2"}
  MaxData = 2
  Slots = 2
  Threads = {"t1", "t2"}
  Values = {"v1", "v2"}
INVARIANTS TypeOK EveryRequestSettled DeviceAsAsked QuietWhenDisconnected ManifestMatches
