SPECIFICATION DeviceSpec
CONSTANTS
    AnswerSize = 10
    Psks = {"psk1"}
    Vendors = {"NUVOTON", "NATIONS"}
    MaxFaults = 1
    MaxResets = 2
    MaxCarried = 3
INVARIANTS
    CleanConnect
    ShutdownReaches
    SessionEnds
