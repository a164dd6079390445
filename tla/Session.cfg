\* One session of each mode on every small text, with failures and retries.
CONSTANTS
    Setups <- MCSetups
    Styles = {"calm", "sad"}
    UnitLists <- MCUnitLists
    MaxPieces = 1
    MaxBatch = 2
    GrowStep = 2
SPECIFICATION Spec
INVARIANTS
    SessionInv
    PlanCoversText
    WithinCapacity
    NoMergeableTiny
    SpokenInOrder
    LongFormGapless
PROPERTIES
    GenerationEnds
CHECK_DEADLOCK FALSE
