SPECIFICATION MCSpec
CONSTANTS
    Values <- MCValues
    Signals <- MCSignals
    Fillings <- MCFillings
    Sources = {timer0, user_irq_0}
    Saved = 2
    Kept = {0, 1}
    Garbage = 7
    InFlight = 1
INVARIANTS
    OnlyTheNamedRegister FieldsAreApart ReadsAreCurrent LateEventsKept
    MainUndisturbed HandledOnce
PROPERTIES
    EventsReachHandler MainResumes
