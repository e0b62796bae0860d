CONSTANTS
  Caller = {c1, c2}
  Ride <- MCRides
  Encoded <- MCEncoded
  Ridden <- MCRidden
  Count = 2
  Cell = 4
  MaxBytes = 40
  QuarterTurn = 8
  AddressField <- MCAddress
  DefaultOrder <- MCDefaultOrder
  RegionField <- MCRegions
  KindOf <- MCKinds
  NaturalFeature <- MCFeatures
  Config <- MCConfigs
  Report <- MCReport
  Normal <- MCNormal
  Earlier <- MCEarlier
  Interval = 2
  MaxDeploys = 1
SPECIFICATION FairSpec
INVARIANTS IInv SamplesFollowTheWay SummaryFitsTheRide
PROPERTIES GrantsAreSpaced DescribeReturns
