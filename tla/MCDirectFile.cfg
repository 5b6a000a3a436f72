SPECIFICATION Spec
CONSTANTS
  MaxIndex = 1
  Contents <- MCContents
  MinTotal = 1
  MaxTotal = 5
  MaxKills = 1
  MaxRefused = 1
  Uses = {}
INVARIANTS RecordsApart SpaceAccounted EndIsKnown
PROPERTY ImplementsRecordFile
