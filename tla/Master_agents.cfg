SPECIFICATION FairSpec
CONSTANT Threads = {h1}
INVARIANTS  ConnectedIsKnown
PROPERTIES RemovedIsTold
