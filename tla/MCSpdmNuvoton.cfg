SPECIFICATION Spec
CONSTANTS
    p1 = p1
    p2 = p2
    NoPsk = NoPsk
    Psks = {}
    SessionIds = {1}
    TpmVersions <- MCTpmVersions
    MinVersion <- MCMinVersion
    MaxVersion <- MCMaxVersion
    Modes = {"NUVOTON"}
    HostKeys <- BothHostKeys
    MutAuth = {TRUE, FALSE}
    MaxTranscript = 16
    MaxFaults = 2
    MaxEpoch = 2
    MaxSeq = 2
INVARIANTS TypeOK NonceUnique ErasedWhenClosed
PROPERTIES ConnectAgrees ChannelSafe
