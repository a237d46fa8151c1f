\* One worker: every task settles, every input is given.
SPECIFICATION FairSpec
CONSTANTS
    Task = {"t"}
    Worker = {"w1"}
    Call = {"a"}
    TaskOf <- OneTask
    Writes = {}
    Lease = 1
    MaxWait = 1
    MaxAttempts = 2
    MaxEvents = 1
PROPERTIES TaskSettles InputIsGiven
