SPECIFICATION Spec
CONSTANTS
    Threads = {"t1", "t2"}
    Devices = {"d1", "d2"}
    Failing = {"Init"}
    Alone = TRUE
    Guarded = TRUE
INVARIANTS OwnAnswer CryptoUp ActiveIsLive OwnAuth
PROPERTIES CallReturns
