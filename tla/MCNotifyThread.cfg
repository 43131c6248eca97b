CONSTANTS Buffers = {b1, b2}
SPECIFICATION Spec
INVARIANTS TypeOK NoLostWakeup PlayingIsPolled PendingIsOwed
PROPERTIES StopEventExact EndIsReported DestructorEnds
CHECK_DEADLOCK FALSE
