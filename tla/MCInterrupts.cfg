CONSTANTS
    TICK_WORD = 8
    PIT_TARGET_HZ = 3
    EARLY_KEYS = FALSE
SPECIFICATION Spec
INVARIANTS RuntimeIntact InServiceOnlyInHandler UnreadByteHasInterrupt
PROPERTIES TickOutputRecurs ExceptionHaltIsFinal
