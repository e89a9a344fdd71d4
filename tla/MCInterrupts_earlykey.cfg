CONSTANTS
    TICK_WORD = 8
    PIT_TARGET_HZ = 3
    EARLY_KEYS = TRUE
SPECIFICATION Spec
INVARIANTS UnreadByteHasInterrupt
