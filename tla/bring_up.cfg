SPECIFICATION FairSpec
CONSTANT Documents <- SmallDocuments
INVARIANTS TypeOK RequestsReachTheirDriver BusesFirst
PROPERTIES ImplementsCommissioning BringUpFinishes InterruptEndsProcess
CHECK_DEADLOCK FALSE
