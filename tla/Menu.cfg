SPECIFICATION Spec
CHECK_DEADLOCK FALSE
INVARIANTS
    TypeOK
    OthersAtRest
    LcdOwned
    ConsoleWired
    HungOnUsart1
    AccelerometerClocked
PROPERTIES
    EndsOnlyWhenAsked
    PressEnds
    CalibrationKeepsProtocol
