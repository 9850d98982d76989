SPECIFICATION Spec
INVARIANTS
    TypeOK
    StartNeverBusy
    BufferKeptWhileSent
    WaitHasSource
PROPERTIES
    WaitEnds
    FinishesWhenAsked
