\* Pauses of the user's, resumed and asked for again, under fair workers.
SPECIFICATION FairSpec
CONSTANTS
    Count = 2
    Batches = {"none", "sequential"}
    Tooled = {}
    Worker = {w1, w2}
    Lease = 1
    Grace = 1
    AutomaticAttempts = 1
    MaxRepairClaims = 1
    MaxWait = 1
    MaxGrants = 3
    MaxEvents = 2
PROPERTY PauseConverges
