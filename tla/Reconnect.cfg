CONSTANTS
    MaxEntries = 3
    MaxFaults = 4
SPECIFICATION FairSpec
INVARIANT
    TypeOK
PROPERTIES
    ConsumptionRecovers
    ReadinessRecovers
