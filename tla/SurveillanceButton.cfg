SPECIFICATION Spec
CONSTANTS
    TickPrio = 15
    ExtiPrio = 0
    MaxResets = 1
PROPERTY ButtonHandlerReturns
