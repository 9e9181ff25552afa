\* A queue of four units, growing to eight: it is compacted, reallocated and
\* overrun by scripts of up to 19 units.
CONSTANTS
    BufferSize = 4
    Headroom = 2
    MaxGrow = 8
    Scripts <- AllScripts
    Stages <- AllStages
CHECK_DEADLOCK FALSE
SPECIFICATION FairSpec
INVARIANT TypeOK
INVARIANT StreamKept
INVARIANT InStep
INVARIANT DrawnInOrder
INVARIANT PaintedAsSent
INVARIANT WholeUpdates
INVARIANT AskedForMore
PROPERTY CatchesUp
