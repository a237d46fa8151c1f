\* A step of one item, a sequential and a parallel batch of two, two workers;
\* the model of the first item may call the tool.
SPECIFICATION Spec
CONSTANTS
    Count = 2
    Batches = {"none", "sequential", "parallel"}
    Tooled = {1}
    Worker = {w1, w2}
    Lease = 1
    Grace = 1
    AutomaticAttempts = 1
    MaxRepairClaims = 1
    MaxWait = 1
    MaxGrants = 3
    MaxEvents = 1
INVARIANTS TypeOK StatusesAgree ItemsAgree ResultKept NoWriteReplayed NeverStalls
PROPERTY GivenAndAnswered
SYMMETRY Symmetry
