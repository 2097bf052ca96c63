SPECIFICATION Spec
CONSTANTS
    Names <- MCNames
    LeafValues <- MCLeafValues
    TextValues <- MCTextValues
    AttrValues <- MCAttrValues
    Fragments <- MCFragments
    ValueSymbols <- MCValueSymbols
    MaxCalls = 5
    MaxFragments = 4
    MaxValue = 5
CHECK_DEADLOCK FALSE
INVARIANTS  TruncationDetected
PROPERTIES SavedReadsBack
