SPECIFICATION DriverSpec
CONSTANTS
    Messages <- ShortReplay
    MaxInit = 2
    Calls <- GpsCalls
    IntBits = 27
    MaxLength = 80
CHECK_DEADLOCK FALSE
INVARIANTS
    AnswersWhole
    ReplayStandsStill
    FrameWhole
    FloatsExact
    DamageSeen
PROPERTIES
    LocationArrives
