SPECIFICATION Spec
CONSTANTS
    p1 = p1
    p2 = p2
    NoPsk = NoPsk
    Psks <- TwoPsks
    SessionIds = {1}
    TpmVersions = {19}
    MinVersion <- MCMinVersion
    MaxVersion <- MCMaxVersion
    Modes = {"NATIONS_PSK"}
    HostKeys = {}
    MutAuth = {FALSE}
    MaxTranscript = 8
    MaxFaults = 1
    MaxEpoch = 2
    MaxSeq = 1
SYMMETRY EitherPsk
PROPERTIES ConnectAgrees ChannelSafe
