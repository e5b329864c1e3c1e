SPECIFICATION Spec
CONSTANTS
    Processes = {"p1", "p2"}
    MaxCalls = 2
    Tries = 2
    CmdLen = 2
    RspCap = 2
    MaxFaults = 1
    HostCalls = 3
    AnswerCap = 2
    HostFaults = 2
INVARIANTS CleanCallSucceeds
PROPERTIES Implements CallReturns
CHECK_DEADLOCK FALSE
