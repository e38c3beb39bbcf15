\* Two events, two overlapping calls of aclose and one of flush.
SPECIFICATION FairSpec
CONSTANTS
    Events = {e1, e2}
    Closers = {c1, c2}
    Flushers = {f1}
INVARIANTS
    TypeOK
    NothingAfterClose
    NoClientLeak
    CancelledOnlyAfterTimeout
PROPERTIES
    CallersReturn
    ImplementsFireAndForget
CHECK_DEADLOCK FALSE
