CONSTANTS
  Kids <- SmallKids
  NameOf <- SmallNames
  Names = {"a", "b", "f"}
  Stamped = {"a", "c", "f"}
  Settings <- SmallSettings
  MaxBlocks = 2
  MaxVersion = 2
  MaxAlt = 1
  MaxFaults = 3
SPECIFICATION Spec
INVARIANTS SourceNeverLost NoMixedFile NoOrphanTemp OverwriteKeepsOne
PROPERTY NothingReplacedUnasked
VIEW View
