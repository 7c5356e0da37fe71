\* Three seeds, two slots, two hosts; the receiver may be dropped, the limiter may fail.
SPECIFICATION FairSpec
CONSTANTS
    Seeds = {1, 2, 3}
    Slots = 2
    Pages <- BatchPages
    Hosts = {"x", "y"}
    Route <- BatchRoute
    Streaming = TRUE
    Refusing = {"y"}
INVARIANTS TypeOK WithinSlots NoIdleSlot BacklogHoldsNothing LinesMove
PROPERTIES SeedsEnd CancelReturnsSlots
\* The schedule stops when every seed is through.
CHECK_DEADLOCK FALSE
