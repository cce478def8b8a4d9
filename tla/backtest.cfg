SPECIFICATION Spec
CONSTANTS
    Bars <- MCBars
    Length = 3
    Plans <- MCPlans
    ProfitFactor <- Half
    LossFactor <- MinusHalf
INVARIANTS
    EntryIsBlind
    ColumnsAreTheirOwn
    WarmUpIsExact
    CandlesAreSound
    EngulfingAgrees
    TradesSettleAtALimit
PROPERTIES
    NoLookAhead
    ClosedIsFinal
CHECK_DEADLOCK FALSE
