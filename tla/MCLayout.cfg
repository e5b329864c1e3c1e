SPECIFICATION Spec
CONSTANTS
    ListCap = 1
    Sent <- MCSent
    Slots <- MCSlots
INVARIANTS RequestInStep ResponseInStep HashesAgree EncryptsFirstParameter
