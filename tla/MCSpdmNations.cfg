SPECIFICATION Spec
CONSTANTS
    p1 = p1
    p2 = p2
    NoPsk = NoPsk
    Psks = {}
    SessionIds = {1}
    TpmVersions <- MCTpmVersions
    MinVersion <- MCMinVersion
    MaxVersion <- MCMaxVersion
    Modes = {"NATIONS"}
    HostKeys <- BothHostKeys
    MutAuth = {TRUE}
    MaxTranscript = 16
    MaxFaults = 1
    MaxEpoch = 1
    MaxSeq = 2
INVARIANTS TranscriptFits CleanConnectSucceeds
PROPERTIES ConnectAgrees CallReturns
