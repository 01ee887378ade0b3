CONSTANTS
  Kids <- TwinsKids
  NameOf <- TwinsNames
  Names = {"n"}
  Stamped = {"f", "g"}
  Settings <- TwinsSettings
  MaxBlocks = 1
  MaxVersion = 1
  MaxAlt = 1
  MaxFaults = 1
SPECIFICATION Spec
PROPERTY NothingReplacedUnasked
VIEW View
