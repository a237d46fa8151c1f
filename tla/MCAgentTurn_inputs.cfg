\* One turn with an approval and two added inputs, dispatched three times in
\* two places.
SPECIFICATION Spec
CONSTANTS
    a = a
    b = b
    x = x
    Turn = {1}
    Spoken = {}
    Conversation = {"c"}
    ConversationOf <- OneConversation
    Call = {a}
    TurnOf <- CallsOfTurn1
    NeedsApproval = {a}
    Slot = {s1,s2}
    Client = {u1}
    MaxClock = 0
    MaxGeneration = 3
    MaxInputs = 2
INVARIANTS TypeOK RunOwnsTurn OneWorkerPerTurn OldApprovalsHeld ManualPauseHolds ReceiptsAreRead
PROPERTY PointOfNoReturn
SYMMETRY SlotSymmetry
