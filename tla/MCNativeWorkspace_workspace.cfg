\* Two calls at once, an effect on files, a restoration, a takeover of the
\* lease, two environments one after the other and two snapshots.
SPECIFICATION Spec
CONSTANTS
    a = a
    Handler = {h1,h2}
    Call = {a}
    FileCall = {a}
    Request = {r1}
    MaxGeneration = 3
    MaxEnvironment = 2
    MaxVersion = 2
INVARIANTS TypeOK ContainersAccounted ReceiptsAreTrue
PROPERTY KeepsFiles
CHECK_DEADLOCK FALSE
SYMMETRY HandlerSymmetry
