SPECIFICATION FairSpec
CONSTANTS
    k1 = k1
    k2 = k2
    Call = {k1, k2}
    Protocol = {1, 2}
    MaxDaemonStarts = 2
    MaxClients = 1
    MaxId = 2
    MaxPluginRequests = 1
INVARIANTS
    TypeOK
    SecretIsShared
    SessionsAgree
    BridgeInStep
    RefusalsAreHarmless
PROPERTIES
    CallsAreSerial
    EveryCallReturns
    ClientsSettle
    LauncherEnds
CHECK_DEADLOCK FALSE
