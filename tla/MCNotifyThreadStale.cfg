CONSTANTS Buffers = {b1}
SPECIFICATION Spec
INVARIANT PendingJustStopped
CHECK_DEADLOCK FALSE
