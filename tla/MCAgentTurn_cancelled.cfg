\* Where a requested cancellation ends.
SPECIFICATION Spec
CONSTANTS
    a = a
    b = b
    x = x
    Turn = {1}
    Spoken = {}
    Conversation = {"c"}
    ConversationOf <- OneConversation
    Call = {}
    TurnOf <- CallsOfTurn1
    NeedsApproval = {}
    Slot = {s1}
    Client = {u1}
    MaxClock = 0
    MaxGeneration = 1
    MaxInputs = 0
PROPERTY CancelRequestedEndsCancelled
