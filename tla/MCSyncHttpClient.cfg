SPECIFICATION FairSpec
INVARIANTS
    ReturnsTheAnswer
    DestroyedAtRest
    SyncInv
PROPERTIES
    WaiterIsWoken
    DestructorEndsAfterCoroutine
CHECK_DEADLOCK FALSE
