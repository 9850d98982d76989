SPECIFICATION Spec
CONSTANTS
    TickPrio = 15
    ExtiPrio = 0
    MaxResets = 1
INVARIANTS
    TypeOK
    AlarmNotForgotten
    AnnouncedOnceBeforeShown
    SensorPinReleased
    AlarmReachesUsart
    LcdBusOwned
    TamperIsReal
    WaitingIsClocked
PROPERTIES
    BlockedUntilReset
    NoFalseAlarm
    ImplementsAlarm
    PresenceRaisesAlarm
    CameraFollowsAlarm
