CONSTANTS
    Call = {c1, c2}
    NoCall = NoCall
    MaxEvents = 1
SPECIFICATION FairSpec
INVARIANTS DebugTraceIsLive FileOfOneExport
PROPERTIES LoneRunExportsItself CallsEnd
