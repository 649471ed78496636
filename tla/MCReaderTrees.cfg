SPECIFICATION AllSpec
CONSTANTS
    Null = Null
    Direct = Direct
    Idle = Idle
    EofBuf = 6
    XrefBuf = 7
    MaxSize = 20
CHECK_DEADLOCK FALSE
INVARIANTS EOFMarkerFound XrefMarkerFound  OutlinesRebuilt  ColoursReachRGB
PROPERTIES ScanTerminates WalksEnd
