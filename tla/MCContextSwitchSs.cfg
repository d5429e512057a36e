CONSTANTS
    Tasks = {t1, t2}
    BOOT = BOOT
    MaxDepth = 3
SPECIFICATION Spec
INVARIANT
    IretFrameComplete
