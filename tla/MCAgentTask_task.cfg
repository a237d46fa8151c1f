\* One worker and the requests it gave up, a call that needs approval and writes.
SPECIFICATION Spec
CONSTANTS
    Task = {"t"}
    Worker = {"w1"}
    Call = {"a"}
    TaskOf <- OneTask
    Writes = {"a"}
    Lease = 2
    MaxWait = 1
    MaxAttempts = 2
    MaxEvents = 2
INVARIANTS TypeOK OneOwner WritesOnce NoSilentRestart ManualPauseHolds OldApprovalsHeld NoLostWakeup EndedHoldsNothing
PROPERTIES OnlyOwnerActs GivenAndAnswered
