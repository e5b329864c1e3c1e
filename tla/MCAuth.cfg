SPECIFICATION Spec
CONSTANTS
    h1 = h1
    p1 = p1
    Hmacs = {h1}
    Policies = {p1}
    Ciphers = {h1}
    MaxSessionNum = 3
    Uses <- AllUses
    Commands <- AllCommands
    MaxCommands = 3
    MaxFaults = 1
INVARIANTS NoncesInStep AnswerIntact CleanCommandSucceeds
