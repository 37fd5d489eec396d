SPECIFICATION FairSpec
CONSTANT Requests = {r1, r2}
INVARIANT TypeOK
INVARIANT ServesOnCurrentSchema
INVARIANT CleanExitCutsNobody
INVARIANT ReturnClosesStores
INVARIANT ReadyMeansUsable
PROPERTY NoStatementCutOff
PROPERTY SignalEndsProcess
